-------------------------------- MODULE MLog --------------------------------
(***************************************************************************)
(* mlog.c built with MIKELIBC_THREADS: loggers in a linked list, found by  *)
(* their handle.  Worker threads call mlogf, which holds logging_mutex     *)
(* throughout; the main thread creates, configures and shuts down loggers  *)
(* (mlog.h: "The others are not [thread-safe], call them from the main     *)
(* thread").  Creation and shutdown take the mutex, the setters do not.    *)
(*                                                                         *)
(* A logger is identified by its handle, and the list (whose macros are    *)
(* the subject of MLinkedList) by the set of the handles in it, since they *)
(* are distinct and the order does not matter to a search.  vmlogf is      *)
(* split at its reads of the logger and a setter at its writes, because    *)
(* the mutex does not keep them apart.                                     *)
(***************************************************************************)
EXTENDS Integers, FiniteSets

CONSTANTS
    Workers,           \* threads that call mlogf
    Types,             \* the loggertype_t values in use
    Severities,        \* the logseverity_t values in use
    Times,             \* the logtime_t values in use
    Clients,           \* registered callbacks, each with data of its own
    NULL,
    MaxHandles,        \* bound: loggers created in a behaviour
    MaxCalls,          \* bound: calls of mlogf per worker
    ConfigureQuietly,  \* the main thread uses the setters only while nobody logs
    NullPaths          \* the client may ask for MLOG_FILE without a path

ASSUME LogConstants ==
    /\ Types \subseteq {"NONE", "STDOUT", "SYSLOG", "FILE", "STDERR"}
    /\ Severities \subseteq Nat
    /\ Times \subseteq {"NONE", "LOCNOZONE", "LOCWZONE", "UTC"}
    /\ NULL \notin Clients \cup Workers \cup {"stdout", "stderr", "file", "path"}
    /\ MaxHandles \in Nat
    /\ MaxCalls \in Nat
    /\ ConfigureQuietly \in BOOLEAN
    /\ NullPaths \in BOOLEAN

VARIABLES
    mloggers,      \* the linked list: the handles of its nodes
    logger,        \* the mlog_t behind every handle ever given out
    freed,         \* handles whose mlog_t has been freed
    next_handle, nloggers, g_handle,
    logging_mutex, \* the worker that holds it, or NULL
    main,          \* what the main thread is in the middle of
    failed,        \* loggers whose last setloggertype returned 0, with the path it had
    pc,            \* per worker: where it is in mlogf
    msg,           \* per worker: the handle and severity of its message
    stamped,       \* per worker: timebuf has been written in this call
    out,           \* per worker: what its message was given to, and how
    todo,          \* per worker: calls it may still make
    process        \* "running" or "aborted" (assert)

vars == <<mloggers, logger, freed, next_handle, nloggers, g_handle, logging_mutex,
          main, failed, pc, msg, stamped, out, todo, process>>

state == <<mloggers, logger, freed, next_handle, nloggers, g_handle>>
worker == <<logging_mutex, pc, msg, stamped, out, todo>>

Handles == 0 .. MaxHandles - 1
Idle == [op |-> "idle"]
Nothing == [kind |-> "nothing"]
NoMessage == [handle |-> -1, severity |-> 0]

Init ==
    /\ mloggers = {} /\ logger = [h \in {} |-> NULL] /\ freed = {}
    /\ next_handle = 0 /\ nloggers = 0 /\ g_handle = -1
    /\ logging_mutex = NULL
    /\ main = Idle
    /\ failed = {}
    /\ pc = [w \in Workers |-> "idle"]
    /\ msg = [w \in Workers |-> NoMessage]
    /\ stamped = [w \in Workers |-> FALSE]
    /\ out = [w \in Workers |-> Nothing]
    /\ todo = [w \in Workers |-> MaxCalls]
    /\ process = "running"

-----------------------------------------------------------------------------
(***************************************************************************)
(* setloggertype                                                           *)
(***************************************************************************)
\* The paths a caller may pass for a type.
Paths(type) == IF type = "FILE" /\ NullPaths THEN {"path", NULL} ELSE {"path"}

\* What logfile can be after the call: fopen may fail, and without a path the
\* field keeps its value.
LogfileAfter(old, type, path) ==
    CASE type = "FILE" /\ path # NULL -> {"file", NULL}
      [] type = "FILE" /\ path = NULL -> {old}
      [] type = "STDERR" -> {"stderr"}
      [] OTHER -> {"stdout"}

\* The main thread may configure: nobody is inside mlogf, if the client sees to it.
MayConfigure == main = Idle /\ (ConfigureQuietly => \A w \in Workers : pc[w] = "idle")

SetTypeBegin(h, type, path) ==
    /\ MayConfigure
    /\ h \in mloggers
    /\ logger' = [logger EXCEPT ![h].loggertype = type]
    /\ main' = [op |-> "settype", h |-> h, type |-> type, path |-> path]
    /\ failed' = {f \in failed : f[1] # h}
    /\ UNCHANGED <<mloggers, freed, next_handle, nloggers, g_handle, worker, process>>

SetTypeFile ==
    /\ main.op = "settype"
    /\ \E f \in LogfileAfter(logger[main.h].logfile, main.type, main.path) :
          /\ logger' = [logger EXCEPT ![main.h].logfile = f]
          /\ IF main.type = "FILE" /\ main.path # NULL /\ f = NULL
             THEN main' = [op |-> "settype_fail", h |-> main.h]
             ELSE main' = Idle
    /\ failed' = IF main.type = "FILE" /\ main.path = NULL
                 THEN failed \cup {<<main.h, NULL>>} ELSE failed
    /\ UNCHANGED <<mloggers, freed, next_handle, nloggers, g_handle, worker, process>>

\* Mutant: the failed logger keeps its type.
SetTypeFail_KeepType ==
    /\ main.op = "settype_fail"
    /\ failed' = failed \cup {<<main.h, "path">>}
    /\ main' = Idle
    /\ UNCHANGED <<state, worker, process>>

SetTypeFail ==
    /\ main.op = "settype_fail"
    /\ logger' = [logger EXCEPT ![main.h].loggertype = "NONE"]
    /\ failed' = failed \cup {<<main.h, "path">>}
    /\ main' = Idle
    /\ UNCHANGED <<mloggers, freed, next_handle, nloggers, g_handle, worker, process>>

(***************************************************************************)
(* setloggertime, setloggersev, register_mlog_callback                     *)
(***************************************************************************)
setloggertime(h, tstype) ==
    /\ MayConfigure
    /\ h \in mloggers
    /\ logger' = [logger EXCEPT ![h].logtime = tstype]
    /\ UNCHANGED <<mloggers, freed, next_handle, nloggers, g_handle, worker, main, failed, process>>

setloggersev(h, severity) ==
    /\ MayConfigure
    /\ h \in mloggers
    /\ logger' = [logger EXCEPT ![h].severity = severity]
    /\ UNCHANGED <<mloggers, freed, next_handle, nloggers, g_handle, worker, main, failed, process>>

\* Each client registers its own function with its own data.
RegisterCallback(h, c) ==
    /\ MayConfigure
    /\ h \in mloggers
    /\ logger' = [logger EXCEPT ![h].callback = c]
    /\ main' = [op |-> "register", h |-> h, c |-> c]
    /\ UNCHANGED <<mloggers, freed, next_handle, nloggers, g_handle, worker, failed, process>>

\* Mutant: a logger keeps the data it was first given.
RegisterData_Once ==
    /\ main.op = "register"
    /\ logger' = [logger EXCEPT ![main.h].cb_data = IF @ = NULL THEN main.c ELSE @]
    /\ main' = Idle
    /\ UNCHANGED <<mloggers, freed, next_handle, nloggers, g_handle, worker, failed, process>>

RegisterData ==
    /\ main.op = "register"
    /\ logger' = [logger EXCEPT ![main.h].cb_data = main.c]
    /\ main' = Idle
    /\ UNCHANGED <<mloggers, freed, next_handle, nloggers, g_handle, worker, failed, process>>

(***************************************************************************)
(* get_mlogger, all of it with the mutex held.  The setloggertype inside   *)
(* it gets no path.                                                        *)
(***************************************************************************)
DefaultHandle(g) == IF g < 0 THEN 0 ELSE g

NewLogger(type, severity, time) ==
    [loggertype |-> type, severity |-> severity, logtime |-> time,
     logfile |-> CHOOSE f \in LogfileAfter(NULL, type, NULL) : TRUE,
     callback |-> NULL, cb_data |-> NULL]

get_mlogger(type, severity, time) ==
    /\ main = Idle
    /\ logging_mutex = NULL
    /\ next_handle < MaxHandles
    /\ logger' = [h \in 0 .. next_handle |->
                    IF h = next_handle THEN NewLogger(type, severity, time) ELSE logger[h]]
    /\ mloggers' = mloggers \cup {next_handle}
    /\ failed' = IF type = "FILE" THEN failed \cup {<<next_handle, NULL>>} ELSE failed
    /\ next_handle' = next_handle + 1
    /\ nloggers' = nloggers + 1
    /\ g_handle' = DefaultHandle(g_handle)
    /\ UNCHANGED <<freed, worker, main, process>>

(***************************************************************************)
(* shutdown_mlogger: the node leaves the list under the mutex, and is      *)
(* freed and counted after the mutex has been released.                    *)
(***************************************************************************)
\* Mutant: the mutex is not taken.
ShutdownRemove_NoLock(h) ==
    /\ main = Idle
    /\ h \in mloggers
    /\ mloggers' = mloggers \ {h}
    /\ main' = [op |-> "shutdown", h |-> h]
    /\ UNCHANGED <<logger, freed, next_handle, nloggers, g_handle, worker, failed, process>>

ShutdownRemove(h) ==
    /\ main = Idle
    /\ logging_mutex = NULL
    /\ h \in mloggers
    /\ mloggers' = mloggers \ {h}
    /\ main' = [op |-> "shutdown", h |-> h]
    /\ UNCHANGED <<logger, freed, next_handle, nloggers, g_handle, worker, failed, process>>

\* Mutant: the default moves on to a handle that has not been given out.
ShutdownFree_NextDefault ==
    /\ main.op = "shutdown"
    /\ freed' = freed \cup {main.h}
    /\ nloggers' = nloggers - 1
    /\ g_handle' = IF nloggers' = 0 THEN -1 ELSE next_handle
    /\ main' = Idle
    /\ UNCHANGED <<mloggers, logger, next_handle, worker, failed, process>>

ShutdownFree ==
    /\ main.op = "shutdown"
    /\ freed' = freed \cup {main.h}
    /\ nloggers' = nloggers - 1
    /\ g_handle' = IF nloggers' = 0 THEN -1 ELSE g_handle
    /\ main' = Idle
    /\ UNCHANGED <<mloggers, logger, next_handle, worker, failed, process>>

(***************************************************************************)
(* shutdown_all_mloggers, with the mutex held.                             *)
(***************************************************************************)
\* Mutant: the default handle survives.
shutdown_all_mloggers_KeepDefault ==
    /\ main = Idle
    /\ logging_mutex = NULL
    /\ freed' = freed \cup mloggers
    /\ nloggers' = nloggers - Cardinality(mloggers)
    /\ mloggers' = {}
    /\ process' = IF nloggers' = 0 THEN process ELSE "aborted"
    /\ UNCHANGED <<logger, next_handle, g_handle, worker, main, failed>>

shutdown_all_mloggers ==
    /\ main = Idle
    /\ logging_mutex = NULL
    /\ freed' = freed \cup mloggers
    /\ nloggers' = nloggers - Cardinality(mloggers)
    /\ process' = IF nloggers' = 0 THEN process ELSE "aborted"
    /\ g_handle' = -1
    /\ mloggers' = {}
    /\ UNCHANGED <<logger, next_handle, worker, main, failed>>

-----------------------------------------------------------------------------
(***************************************************************************)
(* mlogf and vmlogf.  A call is made with a handle of the client's or,     *)
(* through the macros mdebugf ... mcriticalf, with g_handle.               *)
(***************************************************************************)
To(w, l) == pc' = [pc EXCEPT ![w] = l]

Log(w) == logger[msg[w].handle]

mlogf(w, handle, severity) ==
    /\ pc[w] = "idle"
    /\ todo[w] > 0
    /\ handle >= 0
    /\ ConfigureQuietly => main.op \notin {"settype", "settype_fail", "register"}
    /\ todo' = [todo EXCEPT ![w] = @ - 1]
    /\ msg' = [msg EXCEPT ![w] = [handle |-> handle, severity |-> severity]]
    /\ To(w, "lock")
    /\ UNCHANGED <<state, logging_mutex, main, failed, stamped, out, process>>

MlogLock(w) ==
    /\ pc[w] = "lock"
    /\ logging_mutex = NULL
    /\ logging_mutex' = w
    /\ To(w, "find")
    /\ UNCHANGED <<state, main, failed, msg, stamped, out, todo, process>>

\* find_mlogger; an unknown handle is only reported on stderr.
MlogFind(w) ==
    /\ pc[w] = "find"
    /\ \/ msg[w].handle \in mloggers /\ To(w, "severity")
       \/ msg[w].handle \notin mloggers /\ To(w, "unlock")
    /\ UNCHANGED <<state, logging_mutex, main, failed, msg, stamped, out, todo, process>>

\* Mutant: the comparison is the wrong way round.
CheckSeverity_Reversed(w) ==
    /\ pc[w] = "severity"
    /\ \/ msg[w].severity > Log(w).severity /\ To(w, "unlock")
       \/ msg[w].severity <= Log(w).severity /\ To(w, "callback")
    /\ UNCHANGED <<state, logging_mutex, main, failed, msg, stamped, out, todo, process>>

CheckSeverity(w) ==
    /\ pc[w] = "severity"
    /\ \/ msg[w].severity < Log(w).severity /\ To(w, "unlock")
       \/ msg[w].severity >= Log(w).severity /\ To(w, "callback")
    /\ UNCHANGED <<state, logging_mutex, main, failed, msg, stamped, out, todo, process>>

CheckCallback(w) ==
    /\ pc[w] = "callback"
    /\ \/ Log(w).callback # NULL /\ To(w, "call")
       \/ Log(w).callback = NULL /\ To(w, "time")
    /\ UNCHANGED <<state, logging_mutex, main, failed, msg, stamped, out, todo, process>>

\* The callback is read again for the call.
CallCallback(w) ==
    /\ pc[w] = "call"
    /\ out' = [out EXCEPT ![w] = [kind |-> "callback", fn |-> Log(w).callback,
                                  data |-> Log(w).cb_data]]
    /\ To(w, "unlock")
    /\ UNCHANGED <<state, logging_mutex, main, failed, msg, stamped, todo, process>>

\* The three reads of logtime that choose a format and fill timebuf are one step.
FormatTime(w) ==
    /\ pc[w] = "time"
    /\ stamped' = [stamped EXCEPT ![w] = Log(w).logtime # "NONE"]
    /\ To(w, "type")
    /\ UNCHANGED <<state, logging_mutex, main, failed, msg, out, todo, process>>

CheckType(w) ==
    /\ pc[w] = "type"
    /\ \/ Log(w).loggertype = "NONE" /\ To(w, "unlock")
       \/ Log(w).loggertype # "NONE" /\ To(w, "assert")
    /\ UNCHANGED <<state, logging_mutex, main, failed, msg, stamped, out, todo, process>>

AssertLogfile(w) ==
    /\ pc[w] = "assert"
    /\ \/ Log(w).logfile # NULL /\ To(w, "write") /\ UNCHANGED process
       \/ Log(w).logfile = NULL /\ process' = "aborted" /\ UNCHANGED pc
    /\ UNCHANGED <<state, logging_mutex, main, failed, msg, stamped, out, todo>>

\* Whether there is a time to print is read a second time.
Write(w) ==
    /\ pc[w] = "write"
    /\ out' = [out EXCEPT ![w] = [kind |-> "file", file |-> Log(w).logfile,
                                  timebuf |-> Log(w).logtime # "NONE"]]
    /\ To(w, "unlock")
    /\ UNCHANGED <<state, logging_mutex, main, failed, msg, stamped, todo, process>>

\* Mutant: an early return that forgets the mutex.
MlogUnlock_EarlyReturn(w) ==
    /\ pc[w] = "unlock"
    /\ logging_mutex' = IF out[w] = Nothing THEN logging_mutex ELSE NULL
    /\ msg' = [msg EXCEPT ![w] = NoMessage]
    /\ stamped' = [stamped EXCEPT ![w] = FALSE]
    /\ out' = [out EXCEPT ![w] = Nothing]
    /\ To(w, "idle")
    /\ UNCHANGED <<state, main, failed, todo, process>>

\* Unlock and return; the variables of the call are gone.
MlogUnlock(w) ==
    /\ pc[w] = "unlock"
    /\ logging_mutex' = NULL
    /\ msg' = [msg EXCEPT ![w] = NoMessage]
    /\ stamped' = [stamped EXCEPT ![w] = FALSE]
    /\ out' = [out EXCEPT ![w] = Nothing]
    /\ To(w, "idle")
    /\ UNCHANGED <<state, main, failed, todo, process>>

-----------------------------------------------------------------------------
\* The steps of a call of mlogf that has begun.
MlogStep(w) ==
    \/ MlogLock(w) \/ MlogFind(w) \/ CheckSeverity(w) \/ CheckCallback(w) \/ CallCallback(w)
    \/ FormatTime(w) \/ CheckType(w) \/ AssertLogfile(w) \/ Write(w) \/ MlogUnlock(w)

\* The steps of a call of the main thread that has begun.
MainStep == SetTypeFile \/ SetTypeFail \/ RegisterData \/ ShutdownFree

Create ==
    \E type \in {t \in Types : t = "FILE" => NullPaths}, severity \in Severities, time \in Times :
        get_mlogger(type, severity, time)

Configure ==
    \E h \in Handles :
        \/ \E type \in Types : \E path \in Paths(type) : SetTypeBegin(h, type, path)
        \/ \E time \in Times : setloggertime(h, time)
        \/ \E severity \in Severities : setloggersev(h, severity)
        \/ \E c \in Clients \cup {NULL} : RegisterCallback(h, c)

Shutdown == shutdown_all_mloggers \/ \E h \in Handles : ShutdownRemove(h)

Message ==
    \E w \in Workers, severity \in Severities :
        mlogf(w, g_handle, severity) \/ \E h \in Handles : mlogf(w, h, severity)

\* The client has made all its calls, or the process has ended.
Ended ==
    /\ process # "running" \/ \A w \in Workers : pc[w] = "idle" /\ todo[w] = 0
    /\ UNCHANGED vars

Next ==
    \/ /\ process = "running"
       /\ Create \/ Configure \/ Shutdown \/ MainStep \/ Message
             \/ \E w \in Workers : MlogStep(w)
    \/ Ended

Spec == Init /\ [][Next]_vars

(***************************************************************************)
(* Every thread inside the library goes on; nobody has to make calls.      *)
(***************************************************************************)
FairSpec ==
    /\ Spec
    /\ WF_vars(process = "running" /\ MainStep)
    /\ \A w \in Workers : WF_vars(process = "running" /\ MlogStep(w))

-----------------------------------------------------------------------------
Record == [loggertype : Types \cup {"NONE"}, severity : Severities, logtime : Times,
           logfile : {"stdout", "stderr", "file", NULL},
           callback : Clients \cup {NULL}, cb_data : Clients \cup {NULL}]

\* The shape of the state.
TypeOK ==
    /\ next_handle \in 0 .. MaxHandles
    /\ mloggers \subseteq 0 .. next_handle - 1
    /\ logger \in [0 .. next_handle - 1 -> Record]
    /\ freed \subseteq 0 .. next_handle - 1
    /\ nloggers \in 0 .. MaxHandles
    /\ g_handle \in {-1} \cup Handles
    /\ logging_mutex \in Workers \cup {NULL}
    /\ pc \in [Workers -> {"idle", "lock", "find", "severity", "callback", "call", "time",
                           "type", "assert", "write", "unlock"}]
    /\ process \in {"running", "aborted"}

\* A worker between find_mlogger and the end of vmlogf holds a pointer.
HoldsLogger(w) == pc[w] \in {"severity", "callback", "call", "time", "type", "assert", "write"}

\* No worker ever reads a logger that has been freed, although shutdown_mlogger
\* frees it after it has released the mutex.
NoUseAfterFree == \A w \in Workers : HoldsLogger(w) => msg[w].handle \notin freed

\* nloggers counts the list, except for the node shutdown_mlogger has taken out
\* and not counted yet; g_handle is unset exactly when there are no loggers.
\* (The assert in shutdown_all_mloggers relies on it.)
CountInv ==
    /\ nloggers = Cardinality(mloggers) + (IF main.op = "shutdown" THEN 1 ELSE 0)
    /\ g_handle = -1 <=> nloggers = 0

\* No assertion of mlog.c fails.
NoAssertionFails == process # "aborted"

\* The one way to make an assertion of mlog.c fail, for a client that leaves loggers
\* alone while others log, is to ask for a log file without a path, as get_mlogger does
\* by itself: setloggertype returns 0 but keeps the type, and the first message finds no
\* file.  A logger whose file could not be opened is off, and shutdown_all_mloggers
\* finds the count right.
AssertFailsOnlyWithoutPath ==
    process = "aborted" =>
        \E w \in Workers : pc[w] = "assert" /\ <<msg[w].handle, NULL>> \in failed

\* A message reaches the logger's callback, or else its file, exactly if the
\* logger exists, is on, and the message is severe enough ("Only continue if
\* the severity of this message >= the logger severity").
Enabled(m) ==
    /\ m.handle \in mloggers
    /\ m.severity >= logger[m.handle].severity
    /\ logger[m.handle].callback # NULL \/ logger[m.handle].loggertype # "NONE"

DeliveredIfEnabled ==
    \A w \in Workers : pc[w] = "unlock" =>
        /\ out[w] # Nothing <=> Enabled(msg[w])
        /\ out[w].kind = "callback" => out[w].fn = Log(w).callback
        /\ out[w].kind = "file" => out[w].file = Log(w).logfile /\ Log(w).callback = NULL

\* A logger whose setloggertype returned 0 is off (mlog.h: "On any errors, the
\* logger type will be set to MLOG_NONE, and 0 will be returned").
ErrorsDisableLogger ==
    \A f \in failed : f[1] \in mloggers => logger[f[1]].loggertype = "NONE"

\* A callback is called with the data that was registered along with it.
CallbackGetsItsData ==
    \A w \in Workers : out[w].kind = "callback" => out[w].fn # NULL /\ out[w].data = out[w].fn

\* A time that is printed has been formatted in the same call.
TimeIsFormatted ==
    \A w \in Workers : out[w].kind = "file" /\ out[w].timebuf => stamped[w]

\* Every call of mlogf returns, unless an assertion ends the process.
MlogReturns == \A w \in Workers : pc[w] # "idle" ~> (pc[w] = "idle" \/ process = "aborted")
=============================================================================
