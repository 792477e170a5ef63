---------------------------- MODULE BundleCalls ----------------------------
(***************************************************************************)
(* What happens inside Python's lock while Bundles' threads load and run    *)
(* bundles (bundle_interface.rs, bundle_db.rs, bundle_logging.rs,           *)
(* thread_bundle_map.rs): the C-API calls, each of which may fail, the      *)
(* references the Rust code owns, Python's error indicator, the callbacks   *)
(* of _bundledb and _bundlelogging, and the bundle each thread stands for.  *)
(*                                                                          *)
(* PYTHON_MUTEX lets one thread in at a time, so one position, one set of   *)
(* references and one error indicator are enough. References are named after *)
(* the variables that own them. What a C-API call computes is left open,    *)
(* but it returns NULL exactly when it sets an error, as CPython promises.  *)
(***************************************************************************)
EXTENDS Bundles, Sequences

CONSTANT NoBundle

ASSUME CallsAssumption == NoBundle \notin BundleHashes

VARIABLES
    at,         \* the C-API call the thread in Python is about to make
    ret,        \* where the functions it is inside of return to
    refs,       \* references owned
    over,       \* a reference was released or given away that was not owned
    err,        \* the error indicator of the thread state
    cb,         \* the _bundledb method being called
    map,        \* THREAD_BUNDLE_HASH_MAP
    parts,      \* LINE_PARTS: the bundle whose text a thread's line begins with
    cut,        \* threads on which a bundle left a line unfinished
    errors,     \* keys of BUNDLE_DB_ERRORS; NoBundle stands for "unknown"
    left        \* how often a thread left a bundle's interpreter owning something

inPython == <<at, ret, refs, over, err, cb>>
registry == <<errors, left>>
lasting == <<map, parts, cut, registry>>
callVars == <<inPython, lasting>>
allVars == <<vars, callVars>>

Methods == {"create_or_update_job", "get_job_by_id", "delete_job", "PyInit_bundledb"}

(* The points between the C-API calls: in json_loads, json_dumps and          *)
(* print_last_python_exception, in BundleInterface::new and run, in           *)
(* PyInit_bundledb and the methods of _bundledb, and in their callers.       *)
LoadsAt == {"loads", "loadsTuple", "loadsValue", "loadsSet", "loadsCall", "loadsDone",
            "loadsFailed"}
DumpsAt == {"dumps", "dumpsTuple", "dumpsSet", "dumpsCall", "dumpsDone", "dumpsFailed"}
PrintAt == {"fetch", "typeName", "typeText", "repr", "reprText", "str", "strText",
            "frames", "framesTuple", "framesSet", "framesCall", "framesIter", "framesNext",
            "framesItem", "header", "headerTuple", "headerType", "headerSlot", "headerValue",
            "headerCall", "headerIter", "headerNext", "headerItem", "printed"}
NewAt == {"new", "builtins", "local", "redirect", "redirected", "json", "setJson",
          "traceback", "sysPath", "append", "import"}
RunAt == {"noDetails", "function", "callable", "tuple", "setDetails", "jobData",
          "setData", "guard", "call", "raised", "returned"}
InitAt == {"create", "exception", "add"}
RequestAt == {"dumped", "object", "send", "reply", "id", "setId", "error"}
MethodAt == InitAt \cup RequestAt \cup {"args", "load", "done", "null"}
CallerAt == {"out", "loaded", "failed", "result", "dispose", "end"}

Points == LoadsAt \cup DumpsAt \cup PrintAt \cup NewAt \cup RunAt \cup MethodAt \cup CallerAt

Frame == [ok : Points, null : Points]

References ==
    {"p_global", "p_local", "redirected", "json_module", "traceback_module",
     "p_bundle_path", "p_func", "p_args", "p_job_data", "p_result",
     "loads", "loads_args", "loads_value", "loaded", "dumps", "dumps_args",
     "dumps_obj", "dumps_value", "extype", "value", "traceback", "type_str", "str_obj",
     "format", "format_args", "lines", "iter", "item", "none", "job_id", "module", "exc"}

(* Each thread stands for a bundle or for none (thread_bundle_map.rs), and the  *)
(* references the Rust functions own between two C-API calls are named. Not    *)
(* named are those released or handed on at once: the ones                    *)
(* swallow_python_error fetches, the None a method returns and the bundle      *)
(* module, which goes straight into the BundleInterface.                     *)
CallsTypeOK ==
    /\ TypeOK
    /\ at \in Points
    /\ ret \in Seq(Frame)
    /\ refs \subseteq References
    /\ over \in BOOLEAN /\ err \in BOOLEAN
    /\ cb \in Methods \cup {"none"}
    /\ map \in [Threads -> BundleHashes \cup {NoBundle}]
    /\ parts \in [Threads -> BundleHashes \cup {NoBundle}]
    /\ cut \in [Threads -> BOOLEAN]
    /\ errors \subseteq BundleHashes \cup {NoBundle}
    /\ left \in [BundleHashes -> Nat]

CallsInit ==
    /\ Init
    /\ at = "out" /\ ret = <<>> /\ refs = {} /\ over = FALSE /\ err = FALSE
    /\ cb = "none"
    /\ map = [t \in Threads |-> NoBundle]
    /\ parts = [t \in Threads |-> NoBundle]
    /\ cut = [t \in Threads |-> FALSE]
    /\ errors = {}
    /\ left = [b \in BundleHashes |-> 0]

-----------------------------------------------------------------------------
(* C-API calls and the ways the Rust functions handle their failures.        *)

(* Py_DecRef of some references, or giving them away.                        *)
Release(R) == refs' = refs \ R /\ over' = (over \/ ~(R \subseteq refs))

Back(ok) ==
    /\ at' = IF ok THEN Head(ret).ok ELSE Head(ret).null
    /\ ret' = Tail(ret)

(* Calling a function that returns an object or NULL.                        *)
Into(f, ok, null) ==
    /\ at' = f
    /\ ret' = <<[ok |-> ok, null |-> null]>> \o ret

(* The function that is executing releases R and returns NULL; the error, if  *)
(* there was one, is cleared or printed.                                     *)
ReturnNull(R) == Release(R) /\ err' = FALSE /\ Back(FALSE)

(* A call that returns new references, or fails.                             *)
Try(here, next, new, R) ==
    /\ at = here
    /\ \/ at' = next /\ refs' = refs \cup new /\ UNCHANGED <<over, err, ret>>
       \/ ReturnNull(R)

(* A call after which the reference to item is gone whether it fails or not:   *)
(* PyTuple_SetItem takes it.                                                 *)
Give(here, next, item, R) ==
    /\ at = here
    /\ \/ at' = next /\ Release({item}) /\ UNCHANGED <<err, ret>>
       \/ ReturnNull({item} \cup R)

(* PyObject_CallObject returns new references, or an exception is printed      *)
(* before the function that is executing goes on at failed.                  *)
CallObject(here, next, new, failed) ==
    /\ at = here
    /\ \/ at' = next /\ refs' = refs \cup new /\ UNCHANGED <<over, err, ret>>
       \/ err' = TRUE /\ Into("fetch", failed, failed) /\ UNCHANGED <<refs, over>>

Leave(here, R, ok) ==
    /\ at = here
    /\ Release(R) /\ Back(ok)
    /\ UNCHANGED err

-----------------------------------------------------------------------------
JsonLoads ==
    \/ Try("loads", "loadsTuple", {"loads"}, {})
    \/ Try("loadsTuple", "loadsValue", {"loads_args"}, {"loads"})
    \/ Try("loadsValue", "loadsSet", {"loads_value"}, {"loads", "loads_args"})
    \/ Give("loadsSet", "loadsCall", "loads_value", {"loads", "loads_args"})
    \/ CallObject("loadsCall", "loadsDone", {"loaded"}, "loadsFailed")
    \/ Leave("loadsDone", {"loads", "loads_args"}, TRUE)
    \/ Leave("loadsFailed", {"loads", "loads_args"}, FALSE)

(* A text that cannot be read from the value counts as an empty one.         *)
JsonDumps ==
    \/ Try("dumps", "dumpsTuple", {"dumps"}, {})
    \/ Try("dumpsTuple", "dumpsSet", {"dumps_args", "dumps_obj"}, {"dumps"})
    \/ Give("dumpsSet", "dumpsCall", "dumps_obj", {"dumps", "dumps_args"})
    \/ CallObject("dumpsCall", "dumpsDone", {"dumps_value"}, "dumpsFailed")
    \/ Leave("dumpsDone", {"dumps", "dumps_args", "dumps_value"}, TRUE)
    \/ Leave("dumpsFailed", {"dumps", "dumps_args"}, FALSE)

(* print_last_python_exception: a call of its own returns new references, or   *)
(* its failure is swallowed, R released and the next part follows.           *)
Format(here, next, new, R, skip) ==
    /\ at = here
    /\ \/ at' = next /\ refs' = refs \cup new /\ UNCHANGED over
       \/ at' = skip /\ Release(R)
    /\ UNCHANGED <<err, ret>>

(* PyTuple_SetItem there takes the items, and R is released when it fails.   *)
SetItem(here, next, items, R, skip) ==
    /\ at = here
    /\ \/ at' = next /\ Release(items)
       \/ at' = skip /\ Release(items \cup R)
    /\ UNCHANGED <<err, ret>>

OnTo(here, next, R) == at = here /\ at' = next /\ Release(R) /\ UNCHANGED <<err, ret>>

(* PyErr_Fetch: the value and the traceback may be NULL.                     *)
Fetch ==
    /\ at = "fetch"
    /\ err' = FALSE
    /\ \E more \in SUBSET {"value", "traceback"} : refs' = refs \cup {"extype"} \cup more
    /\ at' = "typeName"
    /\ UNCHANGED <<over, ret>>

ExtractTypeName ==
    \/ Format("typeName", "typeText", {"type_str"}, {}, "repr")
    \/ OnTo("typeText", "repr", {"type_str"})

ExtractValueString(here, text, next) ==
    \/ "value" \notin refs /\ OnTo(here, next, {})
    \/ "value" \in refs /\ Format(here, text, {"str_obj"}, {}, next)
    \/ OnTo(text, next, {"str_obj"})

(* Its caller releases R afterwards.                                         *)
LogPythonLines(iter, next, item, R, done) ==
    \/ Format(iter, next, {"iter"}, R, done)
    \/ Format(next, item, {"item"}, {"iter"} \cup R, done)
    \/ OnTo(item, next, {"item"})

FormatCall == {"format", "format_args"}
Formatted == {"lines"} \cup FormatCall

(* format_tb of the traceback, if there is one.                              *)
Frames ==
    \/ "traceback" \notin refs /\ OnTo("frames", "header", {})
    \/ "traceback" \in refs /\ Format("frames", "framesTuple", {"format"}, {"traceback"}, "header")
    \/ Format("framesTuple", "framesSet", {"format_args"}, {"format", "traceback"}, "header")
    \/ SetItem("framesSet", "framesCall", {"traceback"}, FormatCall, "header")
    \/ Format("framesCall", "framesIter", {"lines"}, FormatCall, "header")
    \/ LogPythonLines("framesIter", "framesNext", "framesItem", Formatted, "header")

Value == refs \cap {"value"}

(* None takes the place of a NULL value.                                     *)
SetExceptionValueSlot ==
    \/ /\ at = "headerSlot" /\ at' = "headerValue"
       /\ refs' = IF Value = {} THEN refs \cup {"none"} ELSE refs
       /\ UNCHANGED <<over, err, ret>>
    \/ SetItem("headerValue", "headerCall", refs \cap {"value", "none"}, FormatCall, "printed")

(* Mutant: the value is forgotten when the type cannot be put in the tuple.  *)
HeaderArgumentsLeak ==
    \/ Format("header", "headerTuple", {"format"}, {"extype"} \cup Value, "printed")
    \/ Format("headerTuple", "headerType", {"format_args"},
              {"extype", "format"} \cup Value, "printed")
    \/ SetItem("headerType", "headerSlot", {"extype"}, FormatCall, "printed")
    \/ SetExceptionValueSlot

(* The arguments of format_exception_only: the type and the value.           *)
HeaderArguments ==
    \/ Format("header", "headerTuple", {"format"}, {"extype"} \cup Value, "printed")
    \/ Format("headerTuple", "headerType", {"format_args"},
              {"extype", "format"} \cup Value, "printed")
    \/ SetItem("headerType", "headerSlot", {"extype"}, FormatCall \cup Value, "printed")
    \/ SetExceptionValueSlot

Header ==
    \/ HeaderArguments
    \/ Format("headerCall", "headerIter", {"lines"}, FormatCall, "printed")
    \/ LogPythonLines("headerIter", "headerNext", "headerItem", Formatted, "printed")

PrintLastPythonException ==
    \/ Fetch \/ ExtractTypeName
    \/ ExtractValueString("repr", "reprText", "str")
    \/ ExtractValueString("str", "strText", "frames")
    \/ Frames \/ Header
    \/ Leave("printed", {}, TRUE)

-----------------------------------------------------------------------------
(* BundleInterface::new, in its ThreadScope                                  *)

Modules == {"json_module", "traceback_module"}

NewInterface ==
    \/ Try("new", "builtins", {"p_global"}, {})
    \/ Try("builtins", "local", {}, {"p_global"})
    \/ Try("local", "redirect", {"p_local"}, {"p_global"})
    \/ Try("redirect", "redirected", {"redirected"}, {"p_global", "p_local"})
    \/ /\ at = "redirected" /\ at' = "json"
       /\ Release({"redirected", "p_local"})
       /\ UNCHANGED <<err, ret>>
    \/ Try("json", "setJson", {"json_module"}, {"p_global"})
    \/ Try("setJson", "traceback", {}, {"p_global", "json_module"})
    \/ Try("traceback", "sysPath", {"traceback_module"}, {"p_global", "json_module"})

AppendBundlePath ==
    \/ Try("sysPath", "append", {"p_bundle_path"}, {"p_global"} \cup Modules)
    \/ Give("append", "import", "p_bundle_path", {"p_global"} \cup Modules)

(* The bundle module has been imported, or its exception is printed. The     *)
(* modules of a loaded bundle go into the BundleInterface. The globals        *)
(* dictionary does not, and is not released either.                          *)
Import ==
    /\ at = "import"
    /\ \/ Release(Modules) /\ Back(TRUE) /\ UNCHANGED err
       \/ ReturnNull({"p_global"} \cup Modules)

-----------------------------------------------------------------------------
(* run and the conversions of its result                                     *)

Call == {"p_func", "p_args"}

(* The arguments of the function. A tuple that cannot be allocated leaves its *)
(* error set.                                                                *)
RunArguments ==
    \/ Leave("noDetails", {}, FALSE)
    \/ Try("function", "callable", {"p_func"}, {"loaded"})
    \/ Try("callable", "tuple", {}, {"p_func", "loaded"})
    \/ /\ at = "tuple"
       /\ \/ /\ at' = "setDetails" /\ refs' = refs \cup {"p_args"}
             /\ UNCHANGED <<over, err, ret>>
          \/ Release({"p_func", "loaded"}) /\ err' = TRUE /\ Back(FALSE)
    \/ Give("setDetails", "jobData", "loaded", Call)
    \/ Try("jobData", "setData", {"p_job_data"}, Call)
    \/ Give("setData", "guard", "p_job_data", Call)

(* run_bundle_json dumps the result, the others convert it; then it is       *)
(* disposed of.                                                              *)
Convert ==
    \/ /\ at = "result"
       /\ \/ at' = "dispose" /\ UNCHANGED ret
          \/ Into("dumps", "dispose", "dispose")
       /\ UNCHANGED <<refs, over, err>>
    \/ /\ at = "dispose" /\ at' = "end"
       /\ Release({"p_result"})
       /\ UNCHANGED <<err, ret>>

(* Mutant: the thread is not given its bundle.                               *)
GuardMissing(t) ==
    /\ at = "guard" /\ at' = "call"
    /\ UNCHANGED <<ret, refs, over, err, cb, lasting>>

(* The ThreadBundleGuard of run.                                             *)
Guard(t) ==
    /\ at = "guard" /\ at' = "call"
    /\ map' = [map EXCEPT ![t] = hash[t]]
    /\ UNCHANGED <<ret, refs, over, err, cb, parts, cut, registry>>

(* PyObject_CallObject comes back with a result or with an exception.        *)
FunctionEnds == CallObject("call", "returned", {"p_result"}, "raised")

Unguard(t) == map' = [map EXCEPT ![t] = NoBundle]

(* Its result, unless that is None, goes to the caller.                      *)
RunReturns(t) ==
    /\ \/ Leave("raised", Call, FALSE)
       \/ Leave("returned", Call, TRUE)
       \/ Leave("returned", Call \cup {"p_result"}, FALSE)
    /\ Unguard(t)
    /\ UNCHANGED <<cb, parts, cut, registry>>

-----------------------------------------------------------------------------
(* The methods Python code calls. PyInit_bundledb need not come first: what     *)
(* CPython does to import _bundledb into one more interpreter is left open.   *)

Code == {"call", "import"}

CallMethod(t, m) ==
    /\ at \in Code
    /\ hash[t] \in CallbackBundles
    /\ cb' = m
    /\ Into(IF m = "PyInit_bundledb" THEN "create" ELSE "args", at, at)
    /\ UNCHANGED <<refs, over, err, lasting, vars>>

(* A C-API call has failed, with its own error or the one of set_py_error:    *)
(* NULL is to be returned.                                                   *)
Fails(R) == err' = TRUE /\ at' = "null" /\ Release(R) /\ UNCHANGED ret

OrFails(here, next, new, R) ==
    /\ at = here
    /\ \/ at' = next /\ refs' = refs \cup new /\ UNCHANGED <<over, err, ret>>
       \/ Fails(R)

(* The exception object of the module is stored for the thread's bundle.     *)
InitBundleDb(t) ==
    \/ OrFails("create", "exception", {"module"}, {}) /\ UNCHANGED errors
    \/ OrFails("exception", "add", {"exc"}, {"module"}) /\ UNCHANGED errors
    \/ /\ at = "add"
       /\ \/ /\ at' = "done" /\ Release({"exc"}) /\ UNCHANGED <<err, ret>>
             /\ errors' = errors \cup ({map[t]} \ {NoBundle})
          \/ Fails({"exc", "module"}) /\ UNCHANGED errors

(* The bundle's exception object is the stored one, or one that is made and    *)
(* stored now. When none can be made the method returns NULL, and sets no      *)
(* error of its own; PyErr_NewException may have.                            *)
GetBundleDbErrorOrAbort(t, found, raised) ==
    /\ \/ errors' = errors \cup {map[t]} /\ at' = found /\ err' = raised
       \/ map[t] \notin errors /\ UNCHANGED errors /\ at' = "null" /\ err' \in BOOLEAN
    /\ UNCHANGED <<ret, refs, over>>

(* Two methods get it before their request, to have it when that fails; the   *)
(* others when something has failed.                                         *)
ErrorObject(t) ==
    \/ at = "object" /\ GetBundleDbErrorOrAbort(t, "send", FALSE)
    \/ at = "error" /\ GetBundleDbErrorOrAbort(t, "null", TRUE)

(* An argument is missing, or the job id no integer, which clears that error; *)
(* or the bundle is looked up.                                               *)
ReadArguments(t) ==
    /\ at = "args"
    /\ \/ Fails({}) /\ UNCHANGED vars
       \/ /\ cb = "get_job_by_id" /\ at' = "error"
          /\ UNCHANGED <<ret, refs, over, err, vars>>
       \/ Callback(t) /\ at' = "load" /\ UNCHANGED <<ret, refs, over, err>>
    /\ UNCHANGED <<cb, lasting>>

LoadBundleAndJobId(t) ==
    /\ at = "load"
    /\ CallbackLoad(t)
    /\ IF cb = "get_job_by_id"
       THEN at' = "object" /\ UNCHANGED ret
       ELSE Into("dumps", "dumped", "error")
    /\ UNCHANGED <<refs, over, err, cb, lasting>>

(* The object a method returns to Python; None otherwise.                    *)
Returned ==
    CASE cb = "get_job_by_id" -> {"loaded"}
      [] cb = "PyInit_bundledb" -> {"module"}
      [] OTHER -> {}

(* Mutant: a request that failed returns NULL and no error.                  *)
SendAndWaitSilent ==
    /\ at = "send"
    /\ \/ at' = IF cb = "delete_job" THEN "done" ELSE "reply"
       \/ at' = "null"
    /\ UNCHANGED <<ret, refs, over, err>>

(* send_and_wait: a reply, or an error.                                      *)
SendAndWait ==
    /\ at = "send"
    /\ \/ at' = IF cb = "delete_job" THEN "done" ELSE "reply"
       \/ at' = "error"
    /\ UNCHANGED <<ret, refs, over, err>>

SetJobIdInDict ==
    \/ OrFails("id", "setId", {"job_id"}, Returned)
    \/ /\ at = "setId"
       /\ \/ at' = "done" /\ Release({"job_id"}) /\ UNCHANGED <<err, ret>>
          \/ Fails({"job_id"} \cup Returned)

(* Between the lookup and the return: the job id delete_job must have, the    *)
(* request, and what the server answered.                                    *)
Request ==
    \/ /\ at = "dumped"
       /\ IF cb = "delete_job" THEN at' \in {"send", "error"} ELSE at' = "object"
       /\ UNCHANGED <<ret, refs, over, err>>
    \/ SendAndWait
    \/ /\ at = "reply"
       /\ \/ at' = "error" /\ UNCHANGED ret
          \/ IF cb = "get_job_by_id"
             THEN Into("loads", "id", "error")
             ELSE at' = "id" /\ UNCHANGED ret
       /\ UNCHANGED <<refs, over, err>>
    \/ SetJobIdInDict

(* Python goes on with the object or, after NULL, with the exception, which    *)
(* is a SystemError when none was set.                                       *)
MethodReturns(t) ==
    /\ at \in {"done", "null"}
    /\ Back(TRUE)
    /\ Release(IF at = "done" THEN Returned ELSE {})
    /\ err' = FALSE
    /\ cb' = "none"
    /\ \/ CallbackRequest(t)
       \/ pc[t] \in {"running", "importing"} /\ UNCHANGED vars
    /\ UNCHANGED lasting

(* write_log collects the parts of a line and logs it at its end under the    *)
(* name of the thread's bundle.                                              *)
WriteLog(t) ==
    /\ at \in Code
    /\ \/ parts[t] = NoBundle /\ parts' = [parts EXCEPT ![t] = hash[t]] /\ UNCHANGED cut
       \/ parts' = [parts EXCEPT ![t] = NoBundle] /\ cut' = [cut EXCEPT ![t] = FALSE]
    /\ UNCHANGED <<inPython, map, registry, vars>>

-----------------------------------------------------------------------------
(* Composition with Bundles                                                  *)

(* Steps outside Python.                                                     *)
Outside(t) ==
    /\ \/ \E b \in BundleHashes : RunBundle(t, b)
       \/ ReadCache(t) \/ LockCache(t) \/ Recheck(t) \/ Restore(t) \/ LockRun(t)
    /\ UNCHANGED callVars

(* The ThreadBundleGuard of BundleInterface::new.                            *)
GuardNew(t) ==
    /\ LockNew(t)
    /\ map' = [map EXCEPT ![t] = hash[t]]
    /\ UNCHANGED <<inPython, parts, cut, registry>>

(* A failure before any Python code runs.                                    *)
GiveUpNew(t) == pc'[t] = "idle" /\ Unguard(t) /\ UNCHANGED <<inPython, parts, cut, registry>>

CreateInterpreter(t) ==
    /\ NewInterpreter(t)
    /\ GiveUpNew(t) \/ (pc'[t] = "enter" /\ UNCHANGED callVars)

Enter(f) == f /\ UNCHANGED <<refs, over, err, cb, lasting>>

BeginNew(t) ==
    /\ EnterImport(t)
    /\ \/ GiveUpNew(t)
       \/ pc'[t] = "importing" /\ Enter(Into("new", "loaded", "failed"))

(* run starts with json_loads of the details.                                *)
BeginRun(t) ==
    /\ EnterScope(t)
    /\ \/ pc'[t] = "idle" /\ UNCHANGED callVars
       \/ /\ pc'[t] = "running"
          /\ Enter(/\ at' = "loads"
                   /\ ret' = <<[ok |-> "function", null |-> "noDetails"],
                               [ok |-> "result", null |-> "end"]>>)

(* The thread state goes, and with it an error that is still set. What is     *)
(* still owned stays in the bundle's interpreter.                            *)
LeavePython(t) ==
    /\ at' = "out" /\ err' = FALSE
    /\ refs' = {}
    /\ left' = IF refs = {} THEN left ELSE [left EXCEPT ![hash[t]] = @ + 1]
    /\ cut' = [cut EXCEPT ![t] = parts[t] # NoBundle]
    /\ UNCHANGED <<ret, over, cb, parts, errors>>

EndNew(t) ==
    /\ ImportEnds(t)
    /\ at = IF hash[t] \in cached' THEN "loaded" ELSE "failed"
    /\ LeavePython(t) /\ Unguard(t)

EndRun(t) == at = "end" /\ RunEnds(t) /\ LeavePython(t) /\ UNCHANGED map

(* What the C-API is asked for.                                              *)
InApi(t) ==
    /\ gil = t
    /\ \/ /\ \/ JsonLoads \/ JsonDumps \/ PrintLastPythonException
             \/ NewInterface \/ AppendBundlePath \/ RunArguments \/ Convert \/ Request
          /\ UNCHANGED errors
       \/ InitBundleDb(t) \/ ErrorObject(t)
    /\ UNCHANGED <<cb, map, parts, cut, left, vars>>

(* The code of the bundle comes to its end.                                  *)
CodeEnds(t) ==
    /\ gil = t
    /\ FunctionEnds \/ Import
    /\ UNCHANGED <<cb, lasting, vars>>

InCode(t) ==
    /\ gil = t
    /\ WriteLog(t) \/ \E m \in Methods : CallMethod(t, m)

InMethod(t) ==
    gil = t /\ (ReadArguments(t) \/ LoadBundleAndJobId(t) \/ MethodReturns(t))

InRun(t) == gil = t /\ (Guard(t) \/ RunReturns(t)) /\ UNCHANGED vars

CallProceed(t) ==
    \/ GuardNew(t) \/ CreateInterpreter(t) \/ BeginNew(t) \/ EndNew(t)
    \/ BeginRun(t) \/ EndRun(t)
    \/ InApi(t) \/ CodeEnds(t) \/ InMethod(t) \/ InRun(t)
    \/ Outside(t) /\ pc[t] # "idle"

CallsNext ==
    \E t \in Threads :
        \/ CallProceed(t) \/ InCode(t)
        \/ Outside(t) /\ pc[t] = "idle"

CallsSpec == CallsInit /\ [][CallsNext]_allVars

(* The text of an exception has so many lines and no more.                   *)
LinesEnd(t) == at \in {"framesNext", "headerNext"} /\ InApi(t) /\ at' \in {"header", "printed"}

(* Threads run, locks are handed on, the code of a bundle comes to its end    *)
(* however often it writes or calls back, and so do the lines of an exception. *)
CallsFairSpec ==
    /\ CallsSpec
    /\ \A t \in Threads :
        WF_allVars(CallProceed(t)) /\ SF_allVars(CodeEnds(t)) /\ SF_allVars(LinesEnd(t))

-----------------------------------------------------------------------------
(* Properties                                                                *)

(* On every path through the C-API calls, failures included, what the Rust     *)
(* functions own is released or given away exactly once, except the globals   *)
(* dictionary of a bundle that has been loaded: nothing is released twice,    *)
(* nothing else is owned when a thread leaves Python, and however often a      *)
(* bundle's load fails, is repeated or raced, one such dictionary is left in   *)
(* its interpreter once it is cached and none before.                        *)
ReferencesBalanced ==
    /\ ~over
    /\ at \in {"out", "end", "failed"} => refs = {}
    /\ at = "loaded" => refs = {"p_global"}
    /\ \A b \in BundleHashes : left[b] = IF b \in cached THEN 1 ELSE 0

(* A method returns NULL to Python without an error only when no exception     *)
(* object could be made for its bundle, which has none stored: once a bundle   *)
(* has one, every failure of its methods reaches it as an exception. A method  *)
(* that returns an object has set no error, and no Python code and no C-API    *)
(* call that could fail starts with an error of an earlier one still set. Only *)
(* run may leave one, when it cannot allocate its tuple, and ends.           *)
ErrorsHandled ==
    /\ at = "null" /\ ~err => map[gil] \notin errors
    /\ err => at \in {"null", "fetch", "end"}

(* While code of a bundle runs, the thread stands for that bundle, and the    *)
(* line it is writing holds no text of another one, unless a bundle left a    *)
(* line unfinished on this thread. A thread that is not working stands for    *)
(* no bundle.                                                                *)
LinesAttributed ==
    \A t \in Threads :
        /\ gil = t /\ at \in Code \cup {"args", "load"} => map[t] = hash[t]
        /\ cut[t] \/ parts[t] \in {hash[t], NoBundle}
        /\ pc[t] = "idle" => map[t] = NoBundle
=============================================================================
