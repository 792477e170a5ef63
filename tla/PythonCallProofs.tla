-------------------------- MODULE PythonCallProofs --------------------------
(***************************************************************************)
(* What one step of the thread that is in Python keeps: it is where the stack *)
(* of the functions it executes says, it owns the references those functions *)
(* own there, and an error is set only while it is on its way to a handler.  *)
(* BundlesProofs puts the steps together.                                    *)
(***************************************************************************)
EXTENDS BundleCalls, TLAPS

-----------------------------------------------------------------------------
(* Where a thread in Python can be: the functions it executes, and the stack   *)
(* of their return addresses.                                                *)

Addresses(ok, null) == [ok |-> ok, null |-> null]

Push(f, s) == <<f>> \o s
Top(s) == Head(s)
Below(s) == Tail(s)
Bottom == <<>>

(* run, BundleInterface::new, and a method that the code run by either calls.  *)
RunStack == Push(Addresses("result", "end"), Bottom)
NewStack == Push(Addresses("loaded", "failed"), Bottom)
CallStack == Push(Addresses("call", "call"), RunStack)
ImportStack == Push(Addresses("import", "import"), NewStack)

(* json_loads is called by run and by get_job_by_id, json_dumps for a result   *)
(* and by the methods that are given a job.                                  *)
LoadsFits(s, c) ==
    \/ s = Push(Addresses("function", "noDetails"), RunStack)
    \/ s = Push(Addresses("id", "error"), CallStack) /\ c = "get_job_by_id"
DumpsFits(s, c) ==
    \/ s = Push(Addresses("dispose", "dispose"), Bottom)
    \/ s = Push(Addresses("dumped", "error"), CallStack) /\ c \in {"create_or_update_job", "delete_job"}
PrintFits(s, c) ==
    \/ s = Push(Addresses("raised", "raised"), RunStack)
    \/ s = Push(Addresses("loadsFailed", "loadsFailed"), Below(s)) /\ LoadsFits(Below(s), c)
    \/ s = Push(Addresses("dumpsFailed", "dumpsFailed"), Below(s)) /\ DumpsFits(Below(s), c)
MethodFits(a, s, c) ==
    /\ s = CallStack \/ (s = ImportStack /\ a \notin RequestAt \ {"error"})
    /\ c \in Methods
    /\ a \in InitAt => c = "PyInit_bundledb"
    /\ a \in RequestAt \cup {"args", "load"} => c # "PyInit_bundledb"

Fits(a, s, c) ==
    \/ a \in CallerAt /\ s = Bottom
    \/ a \in NewAt /\ s = NewStack
    \/ a \in RunAt /\ s = RunStack
    \/ a \in LoadsAt /\ LoadsFits(s, c)
    \/ a \in DumpsAt /\ DumpsFits(s, c)
    \/ a \in PrintAt /\ PrintFits(s, c)
    \/ a \in MethodAt /\ MethodFits(a, s, c)

-----------------------------------------------------------------------------
(* What the function at a owns, and what those below it on the stack own.    *)

Globals == {"p_global"} \cup Modules

LoadsOwns(a) ==
    CASE a = "loads" -> {}
      [] a = "loadsTuple" -> {"loads"}
      [] a = "loadsSet" -> {"loads", "loads_args", "loads_value"}
      [] a = "loadsDone" -> {"loads", "loads_args", "loaded"}
      [] OTHER -> {"loads", "loads_args"}
DumpsOwns(a) ==
    CASE a = "dumps" -> {}
      [] a = "dumpsTuple" -> {"dumps"}
      [] a = "dumpsSet" -> {"dumps", "dumps_args", "dumps_obj"}
      [] a = "dumpsDone" -> {"dumps", "dumps_args", "dumps_value"}
      [] OTHER -> {"dumps", "dumps_args"}
NewOwns(a) ==
    CASE a = "new" -> {}
      [] a \in {"builtins", "local", "json"} -> {"p_global"}
      [] a = "redirect" -> {"p_global", "p_local"}
      [] a = "redirected" -> {"p_global", "p_local", "redirected"}
      [] a \in {"setJson", "traceback"} -> {"p_global", "json_module"}
      [] a = "append" -> Globals \cup {"p_bundle_path"}
      [] OTHER -> Globals
RunOwns(a) ==
    CASE a = "noDetails" -> {}
      [] a = "function" -> {"loaded"}
      [] a \in {"callable", "tuple"} -> {"p_func", "loaded"}
      [] a = "setDetails" -> Call \cup {"loaded"}
      [] a = "setData" -> Call \cup {"p_job_data"}
      [] a = "returned" -> Call \cup {"p_result"}
      [] OTHER -> Call
PrintOwns(a) ==
    CASE a \in {"typeName", "repr", "str", "frames", "header"} -> {"extype"}
      [] a = "typeText" -> {"extype", "type_str"}
      [] a \in {"reprText", "strText"} -> {"extype", "str_obj"}
      [] a = "framesTuple" -> {"extype", "traceback", "format"}
      [] a = "framesSet" -> {"extype", "traceback"} \cup FormatCall
      [] a \in {"framesCall", "headerType"} -> {"extype"} \cup FormatCall
      [] a = "framesIter" -> {"extype"} \cup Formatted
      [] a = "framesNext" -> {"extype", "iter"} \cup Formatted
      [] a = "framesItem" -> {"extype", "iter", "item"} \cup Formatted
      [] a = "headerTuple" -> {"extype", "format"}
      [] a \in {"headerSlot", "headerValue", "headerCall"} -> FormatCall
      [] a = "headerIter" -> Formatted
      [] a = "headerNext" -> {"iter"} \cup Formatted
      [] a = "headerItem" -> {"iter", "item"} \cup Formatted
      [] OTHER -> {}
Result(c) ==
    CASE c = "get_job_by_id" -> {"loaded"}
      [] c = "PyInit_bundledb" -> {"module"}
      [] OTHER -> {}
MethodOwns(a, c) ==
    CASE a = "exception" -> {"module"}
      [] a = "add" -> {"module", "exc"}
      [] a \in {"id", "done"} -> Result(c)
      [] a = "setId" -> Result(c) \cup {"job_id"}
      [] OTHER -> {}

Owns(a, c) ==
    CASE a \in LoadsAt -> LoadsOwns(a)
      [] a \in DumpsAt -> DumpsOwns(a)
      [] a \in NewAt -> NewOwns(a)
      [] a \in RunAt -> RunOwns(a)
      [] a \in PrintAt -> PrintOwns(a)
      [] a \in MethodAt -> MethodOwns(a, c)
      [] a \in {"result", "dispose"} -> {"p_result"}
      [] a = "loaded" -> {"p_global"}
      [] OTHER -> {}

(* An exception has a value and a traceback, or not; None stands for no value.  *)
MayOwn(a) ==
    CASE a \in {"typeName", "typeText", "repr", "reprText", "str", "strText", "frames"} ->
            {"value", "traceback"}
      [] a \in {"framesTuple", "framesSet", "framesCall", "framesIter", "framesNext",
                "framesItem", "header", "headerTuple", "headerType", "headerSlot"} -> {"value"}
      [] a = "headerValue" -> {"value", "none"}
      [] OTHER -> {}

Marks(s) == {s[i].ok : i \in 1 .. Len(s)}

Held(s) ==
    (IF "call" \in Marks(s) \/ "raised" \in Marks(s) THEN Call ELSE {})
    \cup (IF "import" \in Marks(s) THEN Globals ELSE {})
    \cup (IF "dispose" \in Marks(s) THEN {"p_result"} ELSE {})
    \cup (IF "loadsFailed" \in Marks(s) THEN {"loads", "loads_args"} ELSE {})
    \cup (IF "dumpsFailed" \in Marks(s) THEN {"dumps", "dumps_args"} ELSE {})

Owned(a, s, c, R) == \E X \in SUBSET MayOwn(a) : R = Owns(a, c) \cup X \cup Held(s)

-----------------------------------------------------------------------------
(* The inductive invariant                                                   *)

Balanced == Owned(at, ret, cb, refs) /\ over = FALSE

(* The bundle that the thread in Python stands for has no exception object.  *)
Unknown == map[gil] \notin errors

Errors ==
    /\ at = "fetch" => err
    /\ at = "null" => err \/ Unknown
    /\ err => at \in {"null", "fetch", "end"}

(* What the thread in Python is doing.                                       *)
Mode(a, s) ==
    IF a = "out" THEN "out"
    ELSE IF a \in NewAt \cup {"loaded", "failed"} \/ "loaded" \in Marks(s) THEN "import"
    ELSE IF \/ a \in {"call", "raised", "returned"}
            \/ "call" \in Marks(s) \/ "raised" \in Marks(s) THEN "function"
    ELSE "run"

ImportPCs == {"importing", "importLoad"}
RunPCs == {"running", "load", "request"}
NewPCs == {"restore", "newInterp", "enter"} \cup ImportPCs

Where ==
    /\ Mode(at, ret) = "out" => \A t \in Threads : pc[t] \notin ImportPCs \cup RunPCs
    /\ Mode(at, ret) = "import" => gil \in Threads /\ pc[gil] \in ImportPCs
    /\ Mode(at, ret) \in {"run", "function"} => gil \in Threads /\ pc[gil] \in RunPCs

Stands ==
    \A t \in Threads :
        IF pc[t] \in NewPCs \/ (gil = t /\ Mode(at, ret) = "function")
        THEN map[t] = hash[t] ELSE map[t] = NoBundle

Lines ==
    \A t \in Threads :
        /\ cut[t] \/ parts[t] \in {hash[t], NoBundle}
        /\ pc[t] \notin ImportPCs \cup RunPCs => cut[t] \/ parts[t] = NoBundle

LogTypeOK ==
    /\ map \in [Threads -> BundleHashes \cup {NoBundle}]
    /\ parts \in [Threads -> BundleHashes \cup {NoBundle}]
    /\ cut \in [Threads -> BOOLEAN]

PyInv ==
    /\ Fits(at, ret, cb) /\ cb \in Methods \cup {"none"} /\ err \in BOOLEAN
    /\ Balanced /\ Errors

CallsInv == PyInv /\ LogTypeOK /\ Where /\ Stands /\ Lines

-----------------------------------------------------------------------------
(* Stacks                                                                    *)

(* Calling a function puts its return addresses on the stack.                *)
LEMMA PushFacts ==
  ASSUME NEW f \in Frame, NEW s \in Seq(Frame)
  PROVE  /\ Push(f, s) \in Seq(Frame)
         /\ Top(Push(f, s)) = f /\ Below(Push(f, s)) = s
         /\ Marks(Push(f, s)) = {f.ok} \cup Marks(s)
<1>1. <<f>> \in Seq(Frame)
  OBVIOUS
<1>2. /\ Push(f, s) \in Seq(Frame) /\ Len(Push(f, s)) = 1 + Len(s)
      /\ Push(f, s)[1] = f /\ \A i \in 1 .. Len(s) : Push(f, s)[i + 1] = s[i]
  BY <1>1 DEF Push
<1>3. Top(Push(f, s)) = f /\ Below(Push(f, s)) = s
  BY <1>1, <1>2 DEF Push, Top, Below
<1>4. Marks(Push(f, s)) = {f.ok} \cup Marks(s)
  <2>1. ASSUME NEW x \in Marks(Push(f, s))
        PROVE  x \in {f.ok} \cup Marks(s)
    <3>1. PICK i \in 1 .. Len(Push(f, s)) : x = Push(f, s)[i].ok
      BY <2>1 DEF Marks
    <3>2. CASE i = 1
      BY <3>1, <3>2, <1>2
    <3>3. CASE i # 1
      <4>1. i - 1 \in 1 .. Len(s) /\ (i - 1) + 1 = i /\ Len(s) \in Nat
        BY <3>1, <3>3, <1>2
      <4>2. Push(f, s)[i] = s[i - 1]
        BY <4>1, <1>2
      <4> QED
        BY <3>1, <4>1, <4>2 DEF Marks
    <3> QED
      BY <3>2, <3>3
  <2>2. f.ok \in Marks(Push(f, s))
    <3>1. 1 \in 1 .. Len(Push(f, s))
      BY <1>2
    <3> QED
      BY <3>1, <1>2 DEF Marks
  <2>3. ASSUME NEW x \in Marks(s)
        PROVE  x \in Marks(Push(f, s))
    <3>1. PICK i \in 1 .. Len(s) : x = s[i].ok
      BY <2>3 DEF Marks
    <3>2. i + 1 \in 1 .. Len(Push(f, s)) /\ Push(f, s)[i + 1] = s[i]
      BY <1>2
    <3> QED
      BY <3>1, <3>2 DEF Marks
  <2> QED
    BY <2>1, <2>2, <2>3
<1> QED
  BY <1>2, <1>3, <1>4

(* Return addresses are what they were made of.                              *)
LEMMA AddressesFacts ==
  ASSUME NEW o \in Points, NEW n \in Points
  PROVE  /\ Addresses(o, n) \in Frame
         /\ Addresses(o, n).ok = o /\ Addresses(o, n).null = n
BY DEF Addresses, Frame

(* A function that was called returns where its caller asked it to.          *)
LEMMA CallFacts ==
  ASSUME NEW o \in Points, NEW n \in Points, NEW s \in Seq(Frame)
  PROVE  /\ Push(Addresses(o, n), s) \in Seq(Frame)
         /\ Top(Push(Addresses(o, n), s)).ok = o
         /\ Top(Push(Addresses(o, n), s)).null = n
         /\ Below(Push(Addresses(o, n), s)) = s
         /\ Marks(Push(Addresses(o, n), s)) = {o} \cup Marks(s)
BY AddressesFacts, PushFacts

(* The stacks of run, BundleInterface::new and the methods.                  *)
LEMMA BaseStacks ==
  /\ Bottom \in Seq(Frame) /\ Marks(Bottom) = {}
  /\ RunStack \in Seq(Frame) /\ Top(RunStack).ok = "result" /\ Top(RunStack).null = "end"
  /\ Below(RunStack) = Bottom /\ Marks(RunStack) = {"result"}
  /\ NewStack \in Seq(Frame) /\ Top(NewStack).ok = "loaded" /\ Top(NewStack).null = "failed"
  /\ Below(NewStack) = Bottom /\ Marks(NewStack) = {"loaded"}
  /\ CallStack \in Seq(Frame) /\ Top(CallStack).ok = "call" /\ Top(CallStack).null = "call"
  /\ Below(CallStack) = RunStack /\ Marks(CallStack) = {"call", "result"}
  /\ ImportStack \in Seq(Frame)
  /\ Top(ImportStack).ok = "import" /\ Top(ImportStack).null = "import"
  /\ Below(ImportStack) = NewStack /\ Marks(ImportStack) = {"import", "loaded"}
<1>p. {"result", "end", "loaded", "failed", "call", "import"} \subseteq Points
  BY DEF Points, CallerAt, RunAt, NewAt
<1>1. Bottom \in Seq(Frame) /\ Marks(Bottom) = {}
  BY DEF Marks, Bottom
<1>2. /\ RunStack \in Seq(Frame) /\ Top(RunStack).ok = "result" /\ Top(RunStack).null = "end"
      /\ Below(RunStack) = Bottom /\ Marks(RunStack) = {"result"}
  BY <1>1, <1>p, CallFacts DEF RunStack
<1>3. /\ NewStack \in Seq(Frame) /\ Top(NewStack).ok = "loaded" /\ Top(NewStack).null = "failed"
      /\ Below(NewStack) = Bottom /\ Marks(NewStack) = {"loaded"}
  BY <1>1, <1>p, CallFacts DEF NewStack
<1>4. /\ CallStack \in Seq(Frame) /\ Top(CallStack).ok = "call" /\ Top(CallStack).null = "call"
      /\ Below(CallStack) = RunStack /\ Marks(CallStack) = {"call", "result"}
  BY <1>2, <1>p, CallFacts DEF CallStack
<1>5. /\ ImportStack \in Seq(Frame)
      /\ Top(ImportStack).ok = "import" /\ Top(ImportStack).null = "import"
      /\ Below(ImportStack) = NewStack /\ Marks(ImportStack) = {"import", "loaded"}
  BY <1>3, <1>p, CallFacts DEF ImportStack
<1> QED
  BY <1>1, <1>2, <1>3, <1>4, <1>5

(* json_loads returns to run or to get_job_by_id.                            *)
LEMMA LoadsStacks ==
  ASSUME NEW s, NEW c, LoadsFits(s, c)
  PROVE  /\ s \in Seq(Frame)
         /\ \/ /\ Top(s).ok = "function" /\ Top(s).null = "noDetails"
               /\ Below(s) = RunStack /\ Marks(s) = {"function", "result"}
            \/ /\ Top(s).ok = "id" /\ Top(s).null = "error" /\ c = "get_job_by_id"
               /\ Below(s) = CallStack /\ Marks(s) = {"id", "call", "result"}
<1>1. "function" \in Points /\ "noDetails" \in Points /\ "id" \in Points /\ "error" \in Points
  BY DEF Points, RunAt, MethodAt, RequestAt
<1>2. CASE s = Push(Addresses("function", "noDetails"), RunStack)
  <2>1. /\ s \in Seq(Frame) /\ Top(s).ok = "function" /\ Top(s).null = "noDetails"
        /\ Below(s) = RunStack /\ Marks(s) = {"function"} \cup Marks(RunStack)
    BY <1>1, <1>2, BaseStacks, CallFacts
  <2> QED
    BY <2>1, BaseStacks
<1>3. CASE s = Push(Addresses("id", "error"), CallStack) /\ c = "get_job_by_id"
  <2>1. /\ s \in Seq(Frame) /\ Top(s).ok = "id" /\ Top(s).null = "error"
        /\ Below(s) = CallStack /\ Marks(s) = {"id"} \cup Marks(CallStack)
    BY <1>1, <1>3, BaseStacks, CallFacts
  <2> QED
    BY <1>3, <2>1, BaseStacks
<1> QED
  BY <1>2, <1>3 DEF LoadsFits

(* json_dumps returns to run_bundle_json or to a method that was given a job.  *)
LEMMA DumpsStacks ==
  ASSUME NEW s, NEW c, DumpsFits(s, c)
  PROVE  /\ s \in Seq(Frame)
         /\ \/ /\ Top(s).ok = "dispose" /\ Top(s).null = "dispose"
               /\ Below(s) = Bottom /\ Marks(s) = {"dispose"}
            \/ /\ Top(s).ok = "dumped" /\ Top(s).null = "error"
               /\ c \in {"create_or_update_job", "delete_job"}
               /\ Below(s) = CallStack /\ Marks(s) = {"dumped", "call", "result"}
<1>1. "dispose" \in Points /\ "dumped" \in Points /\ "error" \in Points
  BY DEF Points, CallerAt, MethodAt, RequestAt
<1>2. CASE s = Push(Addresses("dispose", "dispose"), Bottom)
  BY <1>1, <1>2, BaseStacks, CallFacts
<1>3. CASE /\ s = Push(Addresses("dumped", "error"), CallStack)
           /\ c \in {"create_or_update_job", "delete_job"}
  BY <1>1, <1>3, BaseStacks, CallFacts
<1> QED
  BY <1>2, <1>3 DEF DumpsFits

(* print_last_python_exception returns to whoever called Python.             *)
LEMMA PrintStacks ==
  ASSUME NEW s, NEW c, PrintFits(s, c)
  PROVE  /\ s \in Seq(Frame)
         /\ \/ /\ Top(s).ok = "raised" /\ Below(s) = RunStack /\ Marks(s) = {"raised", "result"}
            \/ /\ Top(s).ok = "loadsFailed" /\ LoadsFits(Below(s), c)
               /\ Marks(s) = {"loadsFailed"} \cup Marks(Below(s))
            \/ /\ Top(s).ok = "dumpsFailed" /\ DumpsFits(Below(s), c)
               /\ Marks(s) = {"dumpsFailed"} \cup Marks(Below(s))
<1>1. "raised" \in Points /\ "loadsFailed" \in Points /\ "dumpsFailed" \in Points
  BY DEF Points, RunAt, LoadsAt, DumpsAt
<1>2. CASE s = Push(Addresses("raised", "raised"), RunStack)
  <2>1. /\ s \in Seq(Frame) /\ Top(s).ok = "raised"
        /\ Below(s) = RunStack /\ Marks(s) = {"raised"} \cup Marks(RunStack)
    BY <1>1, <1>2, BaseStacks, CallFacts
  <2> QED
    BY <2>1, BaseStacks
<1>3. CASE s = Push(Addresses("loadsFailed", "loadsFailed"), Below(s)) /\ LoadsFits(Below(s), c)
  <2>1. Below(s) \in Seq(Frame)
    BY <1>3, LoadsStacks
  <2>2. s \in Seq(Frame) /\ Top(s).ok = "loadsFailed"
    BY <1>1, <1>3, <2>1, CallFacts
  <2>3. Marks(s) = {"loadsFailed"} \cup Marks(Below(s))
    BY <1>1, <1>3, <2>1, CallFacts
  <2> QED
    BY <1>3, <2>2, <2>3
<1>4. CASE s = Push(Addresses("dumpsFailed", "dumpsFailed"), Below(s)) /\ DumpsFits(Below(s), c)
  <2>1. Below(s) \in Seq(Frame)
    BY <1>4, DumpsStacks
  <2>2. s \in Seq(Frame) /\ Top(s).ok = "dumpsFailed"
    BY <1>1, <1>4, <2>1, CallFacts
  <2>3. Marks(s) = {"dumpsFailed"} \cup Marks(Below(s))
    BY <1>1, <1>4, <2>1, CallFacts
  <2> QED
    BY <1>4, <2>2, <2>3
<1> QED
  BY <1>2, <1>3, <1>4 DEF PrintFits

-----------------------------------------------------------------------------
(* Returning                                                                 *)

Plain == LoadsAt \cup DumpsAt \cup NewAt \cup RunAt

(* A function that has released all it owns and returns NULL leaves its      *)
(* caller with what that owned: the caller's own references and no others.   *)
ReturnsNull(a, s, c) ==
    /\ MayOwn(a) = {} /\ MayOwn(Top(s).null) = {}
    /\ Owns(a, c) \cap Held(s) = {}
    /\ Owns(Top(s).null, c) \cup Held(Below(s)) = Held(s)
    /\ Fits(Top(s).null, Below(s), c)
    /\ Top(s).null \notin {"null", "fetch"}
    /\ a \notin {"call", "raised", "returned"} => Mode(Top(s).null, Below(s)) = Mode(a, s)

(* json_loads returns NULL to run or to get_job_by_id: what it owned is      *)
(* released and the caller goes on where it checks for NULL.                 *)
LEMMA LoadsReturnsNull ==
  ASSUME NEW a \in LoadsAt, NEW s, NEW c, LoadsFits(s, c)
  PROVE  ReturnsNull(a, s, c)
<1>1. MayOwn(a) = {} /\ MayOwn("noDetails") = {} /\ MayOwn("error") = {}
  BY DEF MayOwn, LoadsAt, PrintAt
<1>2. Owns(a, c) \subseteq {"loads", "loads_args", "loads_value", "loaded"}
  <2>1. Owns(a, c) = LoadsOwns(a)
    BY DEF Owns, LoadsAt, DumpsAt, NewAt, RunAt, PrintAt, MethodAt, InitAt, RequestAt
  <2> QED
    BY <2>1 DEF LoadsOwns, LoadsAt
<1>3. Owns("noDetails", c) = {} /\ Owns("error", c) = {}
  BY DEF Owns, LoadsAt, DumpsAt, NewAt, RunAt, PrintAt, MethodAt, InitAt, RequestAt, RunOwns, MethodOwns
<1>4. CASE /\ Top(s).null = "noDetails"
           /\ Below(s) = RunStack /\ Marks(s) = {"function", "result"}
  <2>1. Held(s) = {} /\ Held(RunStack) = {}
    BY <1>4, BaseStacks DEF Held
  <2>2. Fits("noDetails", RunStack, c)
    BY DEF Fits, RunAt
  <2>3. Mode("noDetails", RunStack) = "run" /\ Mode(a, s) = "run"
    BY <1>4, BaseStacks DEF Mode, LoadsAt, NewAt
  <2> QED
    BY <1>1, <1>2, <1>3, <1>4, <2>1, <2>2, <2>3 DEF ReturnsNull
<1>5. CASE /\ Top(s).null = "error" /\ c = "get_job_by_id"
           /\ Below(s) = CallStack /\ Marks(s) = {"id", "call", "result"}
  <2>1. Held(s) = Call /\ Held(CallStack) = Call
    BY <1>5, BaseStacks DEF Held
  <2>2. Fits("error", CallStack, c)
    BY <1>5 DEF Fits, MethodFits, Methods, MethodAt, InitAt, RequestAt
  <2>3. Mode("error", CallStack) = "function" /\ Mode(a, s) = "function"
    BY <1>5, BaseStacks DEF Mode, LoadsAt, NewAt
  <2> QED
    BY <1>1, <1>2, <1>3, <1>5, <2>1, <2>2, <2>3 DEF ReturnsNull, Call
<1> QED
  BY <1>4, <1>5, LoadsStacks

(* json_dumps returns NULL to run, whose caller disposes of the result, or    *)
(* to a method that was given a job.                                         *)
LEMMA DumpsReturnsNull ==
  ASSUME NEW a \in DumpsAt, NEW s, NEW c, DumpsFits(s, c)
  PROVE  ReturnsNull(a, s, c)
<1>1. MayOwn(a) = {} /\ MayOwn("dispose") = {} /\ MayOwn("error") = {}
  BY DEF MayOwn, DumpsAt, PrintAt
<1>2. Owns(a, c) \subseteq {"dumps", "dumps_args", "dumps_obj", "dumps_value"}
  <2>1. Owns(a, c) = DumpsOwns(a)
    BY DEF Owns, LoadsAt, DumpsAt, NewAt, RunAt, PrintAt, MethodAt, InitAt, RequestAt
  <2> QED
    BY <2>1 DEF DumpsOwns, DumpsAt
<1>3. Owns("dispose", c) = {"p_result"} /\ Owns("error", c) = {}
  BY DEF Owns, LoadsAt, DumpsAt, NewAt, RunAt, PrintAt, MethodAt, InitAt, RequestAt, MethodOwns
<1>4. CASE /\ Top(s).null = "dispose"
           /\ Below(s) = Bottom /\ Marks(s) = {"dispose"}
  <2>1. Held(s) = {"p_result"} /\ Held(Bottom) = {}
    BY <1>4, BaseStacks DEF Held
  <2>2. Fits("dispose", Bottom, c)
    BY DEF Fits, CallerAt
  <2>3. Mode("dispose", Bottom) = "run" /\ Mode(a, s) = "run"
    BY <1>4, BaseStacks DEF Mode, DumpsAt, NewAt
  <2> QED
    BY <1>1, <1>2, <1>3, <1>4, <2>1, <2>2, <2>3 DEF ReturnsNull
<1>5. CASE /\ Top(s).null = "error" /\ c \in {"create_or_update_job", "delete_job"}
           /\ Below(s) = CallStack /\ Marks(s) = {"dumped", "call", "result"}
  <2>1. Held(s) = Call /\ Held(CallStack) = Call
    BY <1>5, BaseStacks DEF Held
  <2>2. Fits("error", CallStack, c)
    BY <1>5 DEF Fits, MethodFits, Methods, MethodAt, InitAt, RequestAt
  <2>3. Mode("error", CallStack) = "function" /\ Mode(a, s) = "function"
    BY <1>5, BaseStacks DEF Mode, DumpsAt, NewAt
  <2> QED
    BY <1>1, <1>2, <1>3, <1>5, <2>1, <2>2, <2>3 DEF ReturnsNull, Call
<1> QED
  BY <1>4, <1>5, DumpsStacks

(* BundleInterface::new fails: its caller leaves the interpreter.            *)
LEMMA NewReturnsNull ==
  ASSUME NEW a \in NewAt, NEW c
  PROVE  ReturnsNull(a, NewStack, c)
<1>1. MayOwn(a) = {} /\ MayOwn("failed") = {}
  BY DEF MayOwn, NewAt, PrintAt
<1>2. Owns("failed", c) = {}
  BY DEF Owns, LoadsAt, DumpsAt, NewAt, RunAt, PrintAt, MethodAt, InitAt, RequestAt
<1>3. Held(NewStack) = {} /\ Held(Bottom) = {}
  BY BaseStacks DEF Held
<1>4. Fits("failed", Bottom, c)
  BY DEF Fits, CallerAt
<1>5. Mode("failed", Bottom) = "import" /\ Mode(a, NewStack) = "import"
  BY BaseStacks DEF Mode, NewAt
<1> QED
  BY <1>1, <1>2, <1>3, <1>4, <1>5, BaseStacks DEF ReturnsNull

(* run gives up: its caller leaves the interpreter.                          *)
LEMMA RunReturnsNull ==
  ASSUME NEW a \in RunAt, NEW c
  PROVE  ReturnsNull(a, RunStack, c)
<1>1. MayOwn(a) = {} /\ MayOwn("end") = {}
  BY DEF MayOwn, RunAt, PrintAt
<1>2. Owns("end", c) = {}
  BY DEF Owns, LoadsAt, DumpsAt, NewAt, RunAt, PrintAt, MethodAt, InitAt, RequestAt
<1>3. Held(RunStack) = {} /\ Held(Bottom) = {}
  BY BaseStacks DEF Held
<1>4. Fits("end", Bottom, c)
  BY DEF Fits, CallerAt
<1>5. /\ Mode("end", Bottom) = "run"
      /\ a \notin {"call", "raised", "returned"} => Mode(a, RunStack) = "run"
  BY BaseStacks DEF Mode, RunAt, NewAt
<1> QED
  BY <1>1, <1>2, <1>3, <1>4, <1>5, BaseStacks DEF ReturnsNull

(* Every point belongs to one function, whose stack is known.                *)
LEMMA FitsFacts ==
  ASSUME NEW a, NEW s, NEW c, Fits(a, s, c)
  PROVE  /\ a \in LoadsAt => LoadsFits(s, c)
         /\ a \in DumpsAt => DumpsFits(s, c)
         /\ a \in NewAt => s = NewStack
         /\ a \in RunAt => s = RunStack
         /\ a \in PrintAt => PrintFits(s, c)
         /\ a \in MethodAt => MethodFits(a, s, c)
         /\ a \in CallerAt => s = Bottom
         /\ a \in Points /\ s \in Seq(Frame)
<1>1. /\ a \in LoadsAt => LoadsFits(s, c)
      /\ a \in DumpsAt => DumpsFits(s, c)
      /\ a \in NewAt => s = NewStack
      /\ a \in RunAt => s = RunStack
      /\ a \in PrintAt => PrintFits(s, c)
      /\ a \in MethodAt => MethodFits(a, s, c)
      /\ a \in CallerAt => s = Bottom
  BY DEF Fits, LoadsAt, DumpsAt, NewAt, RunAt, PrintAt, MethodAt, InitAt, RequestAt, CallerAt
<1>2. a \in Points
  BY DEF Fits, Points
<1>3. s \in Seq(Frame)
  <2>1. MethodFits(a, s, c) => s \in Seq(Frame)
    BY BaseStacks DEF MethodFits
  <2> QED
    BY <2>1, BaseStacks, LoadsStacks, DumpsStacks, PrintStacks DEF Fits
<1> QED
  BY <1>1, <1>2, <1>3

(* A failure in one of these functions returns NULL to its caller.           *)
LEMMA PlainReturnsNull ==
  ASSUME NEW a \in Plain, NEW s, NEW c, Fits(a, s, c)
  PROVE  ReturnsNull(a, s, c)
BY FitsFacts, LoadsReturnsNull, DumpsReturnsNull, NewReturnsNull, RunReturnsNull DEF Plain

Guarded == {"call", "raised", "returned"}

Kept == PyInv' /\ Mode(at', ret') = Mode(at, ret)

(* Returning NULL after releasing what the function owned.                   *)
LEMMA NullKeeps ==
  ASSUME PyInv, at \in Plain, UNCHANGED cb, NEW R, R = Owns(at, cb), Release(R), Back(FALSE),
         err' \in BOOLEAN, err' => at' = "end"
  PROVE  PyInv' /\ (at \notin Guarded => Kept)
<1>1. ReturnsNull(at, ret, cb)
  BY PlainReturnsNull DEF PyInv
<1>2. at' = Top(ret).null /\ ret' = Below(ret)
  BY DEF Back, Top, Below
<1>3. refs = Owns(at, cb) \cup Held(ret) /\ over = FALSE
  BY <1>1 DEF PyInv, Balanced, Owned, ReturnsNull
<1>4. refs' = Held(ret) /\ over' = FALSE
  <2>1. refs' = refs \ R /\ over' = (over \/ ~(R \subseteq refs))
    BY DEF Release
  <2>2. R \subseteq refs /\ refs \ R = Held(ret)
    BY <1>1, <1>3 DEF ReturnsNull
  <2> QED
    BY Zenon, <1>3, <2>1, <2>2
<1>5. Balanced'
  <2>1. refs' = Owns(at', cb') \cup {} \cup Held(ret')
    BY <1>1, <1>2, <1>4 DEF ReturnsNull
  <2> QED
    BY Zenon, <1>4, <2>1 DEF Balanced, Owned
<1>6. Fits(at', ret', cb') /\ at' \notin {"null", "fetch"}
  BY <1>1, <1>2 DEF ReturnsNull
<1>7. PyInv'
  BY <1>5, <1>6 DEF PyInv, Errors
<1>8. at \notin Guarded => Mode(at', ret') = Mode(at, ret)
  BY <1>1, <1>2 DEF ReturnsNull, Guarded
<1> QED
  BY <1>7, <1>8 DEF Kept

(* Two points of one function.                                               *)
Together(a, b) ==
    \/ a \in LoadsAt /\ b \in LoadsAt
    \/ a \in DumpsAt /\ b \in DumpsAt
    \/ a \in NewAt /\ b \in NewAt
    \/ a \in RunAt \ Guarded /\ b \in RunAt \ Guarded

(* Two points of one function have the same stack and the same caller.        *)
LEMMA TogetherFacts ==
  ASSUME NEW a, NEW b, Together(a, b), NEW s, NEW c, Fits(a, s, c)
  PROVE  /\ a \in Plain \ Guarded /\ Fits(b, s, c) /\ Mode(b, s) = Mode(a, s)
         /\ MayOwn(a) = {} /\ MayOwn(b) = {}
         /\ {a, b} \cap {"null", "fetch", "end"} = {}
<1>1. Fits(b, s, c)
  BY FitsFacts DEF Together, Fits
<1>2. Mode(b, s) = Mode(a, s)
  BY DEF Together, Mode, LoadsAt, DumpsAt, NewAt, RunAt, Guarded
<1>3. {a, b} \cap {"null", "fetch", "end"} = {} /\ a \in Plain \ Guarded
  BY DEF Together, LoadsAt, DumpsAt, NewAt, RunAt, Guarded, Plain
<1>4. MayOwn(a) = {} /\ MayOwn(b) = {}
  BY DEF Together, MayOwn, PrintAt, LoadsAt, DumpsAt, NewAt, RunAt, Guarded
<1> QED
  BY <1>1, <1>2, <1>3, <1>4

(* A step from one point of a function to another of it.                     *)
LEMMA OnKeeps ==
  ASSUME PyInv, Together(at, at'), UNCHANGED <<cb, err, ret>>, over' = FALSE,
         refs' = Owns(at', cb) \cup Held(ret)
  PROVE  Kept
<1>1. Fits(at, ret, cb)
  BY DEF PyInv
<1>2. /\ Fits(at', ret, cb) /\ Mode(at', ret) = Mode(at, ret)
      /\ {at, at'} \cap {"null", "fetch", "end"} = {}
  BY <1>1, TogetherFacts
<1>3. Balanced'
  <2>1. refs' = Owns(at', cb') \cup {} \cup Held(ret')
    OBVIOUS
  <2> QED
    BY Zenon, <2>1 DEF Balanced, Owned
<1> QED
  BY Zenon, <1>2, <1>3 DEF Kept, PyInv, Errors

(* A call that returns new references, or returns NULL after which the        *)
(* function releases R and returns NULL.                                     *)
LEMMA TryKeeps ==
  ASSUME PyInv, UNCHANGED cb, NEW here, NEW next, NEW new, NEW R, Try(here, next, new, R),
         Together(here, next), R = Owns(here, cb), Owns(next, cb) = R \cup new
  PROVE  Kept
<1>1. Fits(at, ret, cb) /\ at = here
  BY DEF PyInv, Try
<1>2. at \in Plain \ Guarded /\ MayOwn(at) = {}
  BY <1>1, TogetherFacts
<1>3. CASE at' = next /\ refs' = refs \cup new /\ UNCHANGED <<over, err, ret>>
  <2>1. refs = Owns(at, cb) \cup Held(ret) /\ over = FALSE
    BY <1>2 DEF PyInv, Balanced, Owned
  <2> QED
    BY Zenon, <1>1, <1>3, <2>1, OnKeeps
<1>4. CASE ReturnNull(R)
  BY Zenon, <1>1, <1>2, <1>4, NullKeeps DEF ReturnNull
<1> QED
  BY <1>3, <1>4 DEF Try

(* A call that takes over the reference to item, as PyTuple_SetItem does, on  *)
(* success and on failure.                                                   *)
LEMMA GiveKeeps ==
  ASSUME PyInv, UNCHANGED cb, NEW here, NEW next, NEW item, NEW R, Give(here, next, item, R),
         Together(here, next), {item} \cup R = Owns(here, cb), Owns(next, cb) = R, item \notin R
  PROVE  Kept
<1>1. Fits(at, ret, cb) /\ at = here
  BY DEF PyInv, Give
<1>2. at \in Plain \ Guarded /\ MayOwn(at) = {}
  BY <1>1, TogetherFacts
<1>3. CASE at' = next /\ Release({item}) /\ UNCHANGED <<err, ret>>
  <2>1. refs = Owns(at, cb) \cup Held(ret) /\ over = FALSE
    BY <1>2 DEF PyInv, Balanced, Owned
  <2>2. Owns(at, cb) \cap Held(ret) = {}
    BY <1>1, <1>2, PlainReturnsNull DEF ReturnsNull
  <2>3. refs' = refs \ {item} /\ over' = (over \/ ~({item} \subseteq refs))
    BY <1>3 DEF Release
  <2>4. refs' = Owns(next, cb) \cup Held(ret) /\ {item} \subseteq refs
    BY <1>1, <2>1, <2>2, <2>3
  <2> QED
    BY Zenon, <1>1, <1>3, <2>1, <2>3, <2>4, OnKeeps
<1>4. CASE ReturnNull({item} \cup R)
  BY Zenon, <1>1, <1>2, <1>4, NullKeeps DEF ReturnNull
<1> QED
  BY <1>3, <1>4 DEF Give

(* What json_loads owns, from call to call.                                  *)
LEMMA LoadsTable ==
  ASSUME NEW c
  PROVE  /\ Owns("loads", c) = {}
         /\ Owns("loadsTuple", c) = {"loads"}
         /\ Owns("loadsValue", c) = {"loads", "loads_args"}
         /\ Owns("loadsSet", c) = {"loads", "loads_args", "loads_value"}
         /\ Owns("loadsCall", c) = {"loads", "loads_args"}
         /\ Owns("loadsDone", c) = {"loads", "loads_args", "loaded"}
         /\ Owns("loadsFailed", c) = {"loads", "loads_args"}
<1>1. \A a \in LoadsAt : Owns(a, c) = LoadsOwns(a)
  BY DEF Owns, LoadsAt, DumpsAt, NewAt, RunAt, PrintAt, MethodAt, InitAt, RequestAt
<1> QED
  BY <1>1 DEF LoadsOwns, LoadsAt

(* What json_dumps owns.                                                     *)
LEMMA DumpsTable ==
  ASSUME NEW c
  PROVE  /\ Owns("dumps", c) = {}
         /\ Owns("dumpsTuple", c) = {"dumps"}
         /\ Owns("dumpsSet", c) = {"dumps", "dumps_args", "dumps_obj"}
         /\ Owns("dumpsCall", c) = {"dumps", "dumps_args"}
         /\ Owns("dumpsDone", c) = {"dumps", "dumps_args", "dumps_value"}
         /\ Owns("dumpsFailed", c) = {"dumps", "dumps_args"}
<1>1. \A a \in DumpsAt : Owns(a, c) = DumpsOwns(a)
  BY DEF Owns, LoadsAt, DumpsAt, NewAt, RunAt, PrintAt, MethodAt, InitAt, RequestAt
<1> QED
  BY <1>1 DEF DumpsOwns, DumpsAt

(* What BundleInterface::new owns.                                           *)
LEMMA NewTable ==
  ASSUME NEW c
  PROVE  /\ Owns("new", c) = {}
         /\ Owns("builtins", c) = {"p_global"}
         /\ Owns("local", c) = {"p_global"}
         /\ Owns("redirect", c) = {"p_global", "p_local"}
         /\ Owns("redirected", c) = {"p_global", "p_local", "redirected"}
         /\ Owns("json", c) = {"p_global"}
         /\ Owns("setJson", c) = {"p_global", "json_module"}
         /\ Owns("traceback", c) = {"p_global", "json_module"}
         /\ Owns("sysPath", c) = Globals
         /\ Owns("append", c) = Globals \cup {"p_bundle_path"}
         /\ Owns("import", c) = Globals
<1>1. \A a \in NewAt : Owns(a, c) = NewOwns(a)
  BY DEF Owns, LoadsAt, DumpsAt, NewAt, RunAt, PrintAt, MethodAt, InitAt, RequestAt
<1> QED
  BY <1>1 DEF NewOwns, NewAt

(* What run owns.                                                            *)
LEMMA RunTable ==
  ASSUME NEW c
  PROVE  /\ Owns("noDetails", c) = {}
         /\ Owns("function", c) = {"loaded"}
         /\ Owns("callable", c) = {"p_func", "loaded"}
         /\ Owns("tuple", c) = {"p_func", "loaded"}
         /\ Owns("setDetails", c) = Call \cup {"loaded"}
         /\ Owns("jobData", c) = Call
         /\ Owns("setData", c) = Call \cup {"p_job_data"}
         /\ Owns("guard", c) = Call
         /\ Owns("call", c) = Call
         /\ Owns("raised", c) = Call
         /\ Owns("returned", c) = Call \cup {"p_result"}
<1>1. \A a \in RunAt : Owns(a, c) = RunOwns(a)
  BY DEF Owns, LoadsAt, DumpsAt, NewAt, RunAt, PrintAt, MethodAt, InitAt, RequestAt
<1> QED
  BY <1>1 DEF RunOwns, RunAt

(* What print_last_python_exception owns, a value or traceback aside.        *)
LEMMA PrintTable ==
  ASSUME NEW c
  PROVE  /\ \A a \in PrintAt : Owns(a, c) = PrintOwns(a)
         /\ Owns("fetch", c) = {} /\ Owns("printed", c) = {}
<1>1. \A a \in PrintAt : Owns(a, c) = PrintOwns(a)
  BY DEF Owns, LoadsAt, DumpsAt, NewAt, RunAt, PrintAt, MethodAt, InitAt, RequestAt
<1> QED
  BY <1>1 DEF PrintOwns, PrintAt

(* What PyInit_bundledb and the methods own.                                 *)
LEMMA MethodTable ==
  ASSUME NEW c
  PROVE  /\ Owns("create", c) = {}
         /\ Owns("args", c) = {}
         /\ Owns("load", c) = {}
         /\ Owns("dumped", c) = {}
         /\ Owns("object", c) = {}
         /\ Owns("send", c) = {}
         /\ Owns("reply", c) = {}
         /\ Owns("error", c) = {}
         /\ Owns("null", c) = {}
         /\ Owns("exception", c) = {"module"}
         /\ Owns("add", c) = {"module", "exc"}
         /\ Owns("id", c) = Result(c)
         /\ Owns("done", c) = Result(c)
         /\ Owns("setId", c) = Result(c) \cup {"job_id"}
<1>1. \A a \in MethodAt : Owns(a, c) = MethodOwns(a, c)
  BY DEF Owns, LoadsAt, DumpsAt, NewAt, RunAt, PrintAt, MethodAt, InitAt, RequestAt
<1> QED
  BY <1>1 DEF MethodOwns, MethodAt, InitAt, RequestAt

(* What the callers of run and of BundleInterface::new own.                  *)
LEMMA CallerTable ==
  ASSUME NEW c
  PROVE  /\ Owns("out", c) = {} /\ Owns("loaded", c) = {"p_global"} /\ Owns("failed", c) = {}
         /\ Owns("end", c) = {}
         /\ Owns("result", c) = {"p_result"} /\ Owns("dispose", c) = {"p_result"}
BY DEF Owns, LoadsAt, DumpsAt, NewAt, RunAt, PrintAt, MethodAt, InitAt, RequestAt

(* What is owned only now and then belongs to print_last_python_exception,    *)
(* between PyErr_Fetch and its end.                                          *)
LEMMA MayOwnTable ==
  \A a \in (Points \ PrintAt) \cup {"fetch", "printed"} : MayOwn(a) = {}
<1> SUFFICES ASSUME NEW a \in (Points \ PrintAt) \cup {"fetch", "printed"}
             PROVE  MayOwn(a) = {}
  OBVIOUS
<1>1. a \notin PrintAt \ {"fetch", "printed"}
  BY DEF PrintAt
<1> QED
  BY <1>1 DEF MayOwn, PrintAt

-----------------------------------------------------------------------------
(* Steps inside the functions                                                *)

(* A call into Python has raised: its exception is printed before the        *)
(* function goes on at f.                                                    *)
LEMMA RaiseKeeps ==
  ASSUME PyInv, UNCHANGED <<cb, refs, over>>, err' = TRUE, NEW f, Into("fetch", f, f),
         MayOwn(at) = {}, PrintFits(Push(Addresses(f, f), ret), cb),
         Held(Push(Addresses(f, f), ret)) = Owns(at, cb) \cup Held(ret),
         Mode("fetch", Push(Addresses(f, f), ret)) = Mode(at, ret)
  PROVE  Kept
<1>1. at' = "fetch" /\ ret' = Push(Addresses(f, f), ret)
  BY DEF Into, Push, Addresses
<1>2. Fits(at', ret', cb')
  BY <1>1 DEF Fits, PrintAt
<1>3. refs = Owns(at, cb) \cup Held(ret) /\ over = FALSE
  BY DEF PyInv, Balanced, Owned
<1>4. Balanced'
  <2>1. Owns("fetch", cb) = {} /\ MayOwn("fetch") = {}
    BY PrintTable, MayOwnTable
  <2>2. refs' = Owns(at', cb') \cup {} \cup Held(ret')
    BY <1>1, <1>3, <2>1
  <2> QED
    BY <1>3, <2>2 DEF Balanced, Owned
<1> QED
  BY <1>1, <1>2, <1>4 DEF Kept, PyInv, Errors

(* A function returns an object to its caller.                               *)
LEMMA OkKeeps ==
  ASSUME PyInv, UNCHANGED <<cb, err>>, Back(TRUE), over' = FALSE, ~err,
         Fits(Top(ret).ok, Below(ret), cb), Top(ret).ok \notin {"null", "fetch"},
         refs' = Owns(Top(ret).ok, cb) \cup Held(Below(ret))
  PROVE  PyInv' /\ (Mode(Top(ret).ok, Below(ret)) = Mode(at, ret) => Kept)
<1>1. at' = Top(ret).ok /\ ret' = Below(ret)
  BY DEF Back, Top, Below
<1>2. Balanced'
  <2>1. refs' = Owns(at', cb') \cup {} \cup Held(ret')
    BY <1>1
  <2> QED
    BY Zenon, <2>1 DEF Balanced, Owned
<1> QED
  BY <1>1, <1>2 DEF Kept, PyInv, Errors

(* json_loads, wherever it is called.                                        *)
LEMMA JsonLoadsKeeps ==
  ASSUME PyInv, UNCHANGED cb, JsonLoads
  PROVE  Kept
<1>t. \A a, b \in LoadsAt : Together(a, b)
  BY DEF Together
<1>m. LoadsAt = {"loads", "loadsTuple", "loadsValue", "loadsSet", "loadsCall", "loadsDone",
                 "loadsFailed"}
  BY DEF LoadsAt
<1>1. CASE Try("loads", "loadsTuple", {"loads"}, {})
  <2>1. Owns("loads", cb) = {} /\ Owns("loadsTuple", cb) = {} \cup {"loads"}
    BY LoadsTable
  <2> QED
    BY <1>1, <2>1, <1>t, <1>m, TryKeeps
<1>2. CASE Try("loadsTuple", "loadsValue", {"loads_args"}, {"loads"})
  BY <1>2, <1>t, <1>m, TryKeeps, LoadsTable
<1>3. CASE Try("loadsValue", "loadsSet", {"loads_value"}, {"loads", "loads_args"})
  <2>1. Owns("loadsSet", cb) = {"loads", "loads_args"} \cup {"loads_value"}
    BY LoadsTable
  <2> QED
    BY Zenon, <1>3, <2>1, <1>t, <1>m, TryKeeps, LoadsTable
<1>4. CASE Give("loadsSet", "loadsCall", "loads_value", {"loads", "loads_args"})
  BY <1>4, <1>t, <1>m, GiveKeeps, LoadsTable
<1>5. CASE CallObject("loadsCall", "loadsDone", {"loaded"}, "loadsFailed")
  <2>1. at = "loadsCall" /\ Fits(at, ret, cb) /\ LoadsFits(ret, cb)
    BY <1>5, <1>m, FitsFacts DEF CallObject, PyInv
  <2>2. ReturnsNull(at, ret, cb)
    BY <2>1, <1>m, LoadsReturnsNull
  <2>3. refs = {"loads", "loads_args"} \cup Held(ret) /\ over = FALSE
    BY <2>1, <2>2, LoadsTable DEF PyInv, Balanced, Owned, ReturnsNull
  <2>4. CASE at' = "loadsDone" /\ refs' = refs \cup {"loaded"} /\ UNCHANGED <<over, err, ret>>
    <3>1. refs' = Owns("loadsDone", cb) \cup Held(ret)
      BY <2>3, <2>4, LoadsTable
    <3> QED
      BY Zenon, <2>1, <2>3, <2>4, <3>1, <1>t, <1>m, OnKeeps
  <2>5. CASE /\ err' = TRUE /\ Into("fetch", "loadsFailed", "loadsFailed")
             /\ UNCHANGED <<refs, over>>
    <3> DEFINE r == Push(Addresses("loadsFailed", "loadsFailed"), ret)
    <3>1. "loadsFailed" \in Points /\ ret \in Seq(Frame)
      BY <2>1, <1>m, FitsFacts DEF Points
    <3>2. Below(r) = ret /\ Marks(r) = {"loadsFailed"} \cup Marks(ret)
      BY <3>1, CallFacts
    <3>3. PrintFits(r, cb)
      BY <2>1, <3>2 DEF PrintFits
    <3>4. Held(r) = {"loads", "loads_args"} \cup Held(ret)
      BY <2>1, <3>2, LoadsStacks DEF Held
    <3>5. Mode("fetch", r) = Mode(at, ret)
      BY <2>1, <3>2, LoadsStacks DEF Mode, NewAt
    <3>6. MayOwn(at) = {} /\ Owns(at, cb) = {"loads", "loads_args"}
      BY <2>1, <2>2, LoadsTable DEF ReturnsNull
    <3> HIDE DEF r
    <3> QED
      BY <2>5, <3>3, <3>4, <3>5, <3>6, RaiseKeeps DEF r
  <2> QED
    BY Zenon, <1>5, <2>4, <2>5 DEF CallObject
<1>6. CASE Leave("loadsDone", {"loads", "loads_args"}, TRUE)
  <2>1. at = "loadsDone" /\ Fits(at, ret, cb) /\ LoadsFits(ret, cb)
    BY <1>6, <1>m, FitsFacts DEF Leave, PyInv
  <2>2. ReturnsNull(at, ret, cb)
    BY <2>1, <1>m, LoadsReturnsNull
  <2>3. /\ refs = {"loads", "loads_args", "loaded"} \cup Held(ret) /\ over = FALSE
        /\ {"loads", "loads_args", "loaded"} \cap Held(ret) = {}
    BY <2>1, <2>2, LoadsTable DEF PyInv, Balanced, Owned, ReturnsNull
  <2>4. Back(TRUE) /\ UNCHANGED err /\ ~err
    BY Zenon, <1>6, <2>1 DEF Leave, PyInv, Errors
  <2>5. refs' = Held(ret) \cup {"loaded"} /\ over' = FALSE
    <3>1. refs' = refs \ {"loads", "loads_args"} /\ over' = (over \/ ~({"loads", "loads_args"} \subseteq refs))
      BY <1>6 DEF Leave, Release
    <3> QED
      BY Zenon, <2>3, <3>1
  <2>6. CASE Top(ret).ok = "function" /\ Below(ret) = RunStack /\ Marks(ret) = {"function", "result"}
    <3>1. Held(ret) = {} /\ Held(RunStack) = {} /\ Owns("function", cb) = {"loaded"}
      BY <2>6, BaseStacks, RunTable DEF Held
    <3>2. Fits("function", RunStack, cb)
      BY DEF Fits, RunAt
    <3>3. Mode("function", RunStack) = "run" /\ Mode(at, ret) = "run"
      BY <2>1, <2>6, BaseStacks DEF Mode, NewAt
    <3>4. refs' = Owns("function", cb) \cup Held(RunStack)
      BY <2>5, <3>1
    <3> QED
      BY Zenon, <2>4, <2>5, <2>6, <3>2, <3>3, <3>4, OkKeeps
  <2>7. CASE /\ Top(ret).ok = "id" /\ cb = "get_job_by_id"
             /\ Below(ret) = CallStack /\ Marks(ret) = {"id", "call", "result"}
    <3>1. Held(ret) = Call /\ Held(CallStack) = Call /\ Owns("id", cb) = {"loaded"}
      BY <2>7, BaseStacks, MethodTable DEF Held, Result
    <3>2. Fits("id", CallStack, cb)
      BY <2>7 DEF Fits, MethodFits, Methods, MethodAt, InitAt, RequestAt
    <3>3. Mode("id", CallStack) = "function" /\ Mode(at, ret) = "function"
      BY <2>1, <2>7, BaseStacks DEF Mode, NewAt
    <3>4. refs' = Owns("id", cb) \cup Held(CallStack)
      BY <2>5, <3>1
    <3> QED
      BY Zenon, <2>4, <2>5, <2>7, <3>2, <3>3, <3>4, OkKeeps
  <2> QED
    BY <2>1, <2>6, <2>7, LoadsStacks
<1>7. CASE Leave("loadsFailed", {"loads", "loads_args"}, FALSE)
  <2>1. at = "loadsFailed" /\ ~err /\ err \in BOOLEAN
    BY <1>7 DEF Leave, PyInv, Errors
  <2>2. at \in Plain /\ at \notin Guarded
    BY <2>1 DEF Plain, LoadsAt, Guarded
  <2> QED
    BY Zenon, <1>7, <2>1, <2>2, NullKeeps, LoadsTable DEF Leave
<1> QED
  BY Zenon, <1>1, <1>2, <1>3, <1>4, <1>5, <1>7, <1>6 DEF JsonLoads

(* json_dumps, wherever it is called.                                        *)
LEMMA JsonDumpsKeeps ==
  ASSUME PyInv, UNCHANGED cb, JsonDumps
  PROVE  Kept
<1>t. \A a, b \in DumpsAt : Together(a, b)
  BY DEF Together
<1>m. DumpsAt = {"dumps", "dumpsTuple", "dumpsSet", "dumpsCall", "dumpsDone", "dumpsFailed"}
  BY DEF DumpsAt
<1>1. CASE Try("dumps", "dumpsTuple", {"dumps"}, {})
  BY <1>1, <1>t, <1>m, TryKeeps, DumpsTable
<1>2. CASE Try("dumpsTuple", "dumpsSet", {"dumps_args", "dumps_obj"}, {"dumps"})
  <2>1. Owns("dumpsSet", cb) = {"dumps"} \cup {"dumps_args", "dumps_obj"}
    BY DumpsTable
  <2> QED
    BY <1>2, <2>1, <1>t, <1>m, TryKeeps, DumpsTable
<1>3. CASE Give("dumpsSet", "dumpsCall", "dumps_obj", {"dumps", "dumps_args"})
  BY <1>3, <1>t, <1>m, GiveKeeps, DumpsTable
<1>4. CASE CallObject("dumpsCall", "dumpsDone", {"dumps_value"}, "dumpsFailed")
  <2>1. at = "dumpsCall" /\ Fits(at, ret, cb) /\ DumpsFits(ret, cb)
    BY <1>4, <1>m, FitsFacts DEF CallObject, PyInv
  <2>2. ReturnsNull(at, ret, cb)
    BY <2>1, <1>m, DumpsReturnsNull
  <2>3. refs = {"dumps", "dumps_args"} \cup Held(ret) /\ over = FALSE
    BY <2>1, <2>2, DumpsTable DEF PyInv, Balanced, Owned, ReturnsNull
  <2>4. CASE at' = "dumpsDone" /\ refs' = refs \cup {"dumps_value"} /\ UNCHANGED <<over, err, ret>>
    <3>1. refs' = Owns("dumpsDone", cb) \cup Held(ret)
      BY <2>3, <2>4, DumpsTable
    <3> QED
      BY Zenon, <2>1, <2>3, <2>4, <3>1, <1>t, <1>m, OnKeeps
  <2>5. CASE /\ err' = TRUE /\ Into("fetch", "dumpsFailed", "dumpsFailed")
             /\ UNCHANGED <<refs, over>>
    <3> DEFINE r == Push(Addresses("dumpsFailed", "dumpsFailed"), ret)
    <3>1. "dumpsFailed" \in Points /\ ret \in Seq(Frame)
      BY <2>1, <1>m, FitsFacts DEF Points
    <3>2. Below(r) = ret /\ Marks(r) = {"dumpsFailed"} \cup Marks(ret)
      BY <3>1, CallFacts
    <3>3. PrintFits(r, cb)
      BY <2>1, <3>2 DEF PrintFits
    <3>4. Held(r) = {"dumps", "dumps_args"} \cup Held(ret)
      BY <2>1, <3>2, DumpsStacks DEF Held
    <3>5. Mode("fetch", r) = Mode(at, ret)
      BY <2>1, <3>2, DumpsStacks DEF Mode, NewAt
    <3>6. MayOwn(at) = {} /\ Owns(at, cb) = {"dumps", "dumps_args"}
      BY <2>1, <2>2, DumpsTable DEF ReturnsNull
    <3> HIDE DEF r
    <3> QED
      BY <2>5, <3>3, <3>4, <3>5, <3>6, RaiseKeeps DEF r
  <2> QED
    BY Zenon, <1>4, <2>4, <2>5 DEF CallObject
<1>5. CASE Leave("dumpsDone", {"dumps", "dumps_args", "dumps_value"}, TRUE)
  <2>1. at = "dumpsDone" /\ Fits(at, ret, cb) /\ DumpsFits(ret, cb)
    BY <1>5, <1>m, FitsFacts DEF Leave, PyInv
  <2>2. ReturnsNull(at, ret, cb)
    BY <2>1, <1>m, DumpsReturnsNull
  <2>3. /\ refs = {"dumps", "dumps_args", "dumps_value"} \cup Held(ret) /\ over = FALSE
        /\ {"dumps", "dumps_args", "dumps_value"} \cap Held(ret) = {}
    BY <2>1, <2>2, DumpsTable DEF PyInv, Balanced, Owned, ReturnsNull
  <2>4. Back(TRUE) /\ UNCHANGED err /\ ~err
    BY Zenon, <1>5, <2>1 DEF Leave, PyInv, Errors
  <2>5. refs' = Held(ret) /\ over' = FALSE
    <3>1. refs' = refs \ {"dumps", "dumps_args", "dumps_value"} /\ over' = (over \/ ~({"dumps", "dumps_args", "dumps_value"} \subseteq refs))
      BY <1>5 DEF Leave, Release
    <3> QED
      BY Zenon, <2>3, <3>1
  <2>6. CASE Top(ret).ok = "dispose" /\ Below(ret) = Bottom /\ Marks(ret) = {"dispose"}
    <3>1. Held(ret) = {"p_result"} /\ Held(Bottom) = {} /\ Owns("dispose", cb) = {"p_result"}
      BY <2>6, BaseStacks, CallerTable DEF Held
    <3>2. Fits("dispose", Bottom, cb)
      BY DEF Fits, CallerAt
    <3>3. Mode("dispose", Bottom) = "run" /\ Mode(at, ret) = "run"
      BY <2>1, <2>6, BaseStacks DEF Mode, NewAt
    <3>4. refs' = Owns("dispose", cb) \cup Held(Bottom)
      BY <2>5, <3>1
    <3> QED
      BY Zenon, <2>4, <2>5, <2>6, <3>2, <3>3, <3>4, OkKeeps
  <2>7. CASE /\ Top(ret).ok = "dumped" /\ cb \in {"create_or_update_job", "delete_job"}
             /\ Below(ret) = CallStack /\ Marks(ret) = {"dumped", "call", "result"}
    <3>1. Held(ret) = Call /\ Held(CallStack) = Call /\ Owns("dumped", cb) = {}
      BY <2>7, BaseStacks, MethodTable DEF Held
    <3>2. Fits("dumped", CallStack, cb)
      BY <2>7 DEF Fits, MethodFits, Methods, MethodAt, InitAt, RequestAt
    <3>3. Mode("dumped", CallStack) = "function" /\ Mode(at, ret) = "function"
      BY <2>1, <2>7, BaseStacks DEF Mode, NewAt
    <3>4. refs' = Owns("dumped", cb) \cup Held(CallStack)
      BY <2>5, <3>1
    <3> QED
      BY Zenon, <2>4, <2>5, <2>7, <3>2, <3>3, <3>4, OkKeeps
  <2> QED
    BY <2>1, <2>6, <2>7, DumpsStacks
<1>6. CASE Leave("dumpsFailed", {"dumps", "dumps_args"}, FALSE)
  <2>1. at = "dumpsFailed" /\ ~err /\ err \in BOOLEAN
    BY <1>6 DEF Leave, PyInv, Errors
  <2>2. at \in Plain /\ at \notin Guarded
    BY <2>1 DEF Plain, DumpsAt, Guarded
  <2> QED
    BY Zenon, <1>6, <2>1, <2>2, NullKeeps, DumpsTable DEF Leave
<1> QED
  BY Zenon, <1>1, <1>2, <1>3, <1>4, <1>5, <1>6 DEF JsonDumps

(* BundleInterface::new up to the import.                                    *)
LEMMA NewInterfaceKeeps ==
  ASSUME PyInv, UNCHANGED cb, NewInterface \/ AppendBundlePath
  PROVE  Kept
<1>t. \A a, b \in NewAt : Together(a, b)
  BY DEF Together
<1>m. NewAt = {"new", "builtins", "local", "redirect", "redirected", "json", "setJson",
               "traceback", "sysPath", "append", "import"}
  BY DEF NewAt
<1>1. CASE Try("new", "builtins", {"p_global"}, {})
  <2>1. Owns("new", cb) = {} /\ Owns("builtins", cb) = {} \cup {"p_global"}
    BY NewTable
  <2> QED
    BY <1>1, <2>1, <1>t, <1>m, TryKeeps
<1>2. CASE Try("builtins", "local", {}, {"p_global"})
  <2>1. Owns("builtins", cb) = {"p_global"} /\ Owns("local", cb) = {"p_global"} \cup {}
    BY NewTable
  <2> QED
    BY Zenon, <1>2, <2>1, <1>t, <1>m, TryKeeps
<1>3. CASE Try("local", "redirect", {"p_local"}, {"p_global"})
  <2>1. Owns("local", cb) = {"p_global"} /\ Owns("redirect", cb) = {"p_global"} \cup {"p_local"}
    BY NewTable
  <2> QED
    BY <1>3, <2>1, <1>t, <1>m, TryKeeps
<1>4. CASE Try("redirect", "redirected", {"redirected"}, {"p_global", "p_local"})
  <2>1. Owns("redirected", cb) = {"p_global", "p_local"} \cup {"redirected"}
    BY NewTable
  <2> QED
    BY Zenon, <1>4, <2>1, <1>t, <1>m, TryKeeps, NewTable
<1>5. CASE /\ at = "redirected" /\ at' = "json"
           /\ Release({"redirected", "p_local"})
           /\ UNCHANGED <<err, ret>>
  <2>1. Fits(at, ret, cb) /\ ReturnsNull(at, ret, cb)
    BY <1>5, <1>m, PlainReturnsNull DEF PyInv, Plain
  <2>2. refs = {"p_global", "p_local", "redirected"} \cup Held(ret) /\ over = FALSE
    BY <1>5, <2>1, NewTable DEF PyInv, Balanced, Owned, ReturnsNull
  <2>3. {"p_global", "p_local", "redirected"} \cap Held(ret) = {}
    BY <1>5, <2>1, NewTable DEF ReturnsNull
  <2>4. /\ refs' = refs \ {"redirected", "p_local"}
        /\ over' = (over \/ ~({"redirected", "p_local"} \subseteq refs))
    BY <1>5 DEF Release
  <2>5. refs' = {"p_global"} \cup Held(ret) /\ over' = FALSE
    BY Zenon, <2>2, <2>3, <2>4
  <2> QED
    BY Zenon, <1>5, <2>5, <1>t, <1>m, OnKeeps, NewTable
<1>6. CASE Try("json", "setJson", {"json_module"}, {"p_global"})
  <2>1. Owns("json", cb) = {"p_global"} /\ Owns("setJson", cb) = {"p_global"} \cup {"json_module"}
    BY NewTable
  <2> QED
    BY <1>6, <2>1, <1>t, <1>m, TryKeeps
<1>7. CASE Try("setJson", "traceback", {}, {"p_global", "json_module"})
  <2>1. Owns("setJson", cb) = {"p_global", "json_module"} /\ Owns("traceback", cb) = {"p_global", "json_module"} \cup {}
    BY NewTable
  <2> QED
    BY <1>7, <2>1, <1>t, <1>m, TryKeeps
<1>8. CASE Try("traceback", "sysPath", {"traceback_module"}, {"p_global", "json_module"})
  <2>1. Owns("sysPath", cb) = {"p_global", "json_module"} \cup {"traceback_module"}
    BY NewTable DEF Globals, Modules
  <2> QED
    BY Zenon, <1>8, <2>1, <1>t, <1>m, TryKeeps, NewTable
<1>9. CASE Try("sysPath", "append", {"p_bundle_path"}, {"p_global"} \cup Modules)
  BY Zenon, <1>9, <1>t, <1>m, TryKeeps, NewTable DEF Globals
<1>10. CASE Give("append", "import", "p_bundle_path", {"p_global"} \cup Modules)
  <2>1. /\ {"p_bundle_path"} \cup ({"p_global"} \cup Modules) = Owns("append", cb)
        /\ "p_bundle_path" \notin {"p_global"} \cup Modules
    BY NewTable DEF Globals, Modules
  <2> QED
    BY Zenon, <1>10, <2>1, <1>t, <1>m, GiveKeeps, NewTable DEF Globals
<1> QED
  BY <1>1, <1>2, <1>3, <1>4, <1>5, <1>6, <1>7, <1>8, <1>9, <1>10 DEF NewInterface, AppendBundlePath

(* run up to the call of the function.                                       *)
LEMMA RunArgumentsKeeps ==
  ASSUME PyInv, UNCHANGED cb, RunArguments
  PROVE  Kept
<1>m. RunAt \ Guarded = {"noDetails", "function", "callable", "tuple", "setDetails", "jobData",
                         "setData", "guard"}
  BY DEF RunAt, Guarded
<1>t. \A a, b \in RunAt \ Guarded : Together(a, b)
  BY DEF Together
<1>1. CASE Leave("noDetails", {}, FALSE)
  <2>1. at = "noDetails" /\ ~err /\ err \in BOOLEAN
    BY <1>1 DEF Leave, PyInv, Errors
  <2>2. at \in Plain /\ at \notin Guarded
    BY <2>1 DEF Plain, RunAt, Guarded
  <2> QED
    BY Zenon, <1>1, <2>1, <2>2, NullKeeps, RunTable DEF Leave
<1>2. CASE Try("function", "callable", {"p_func"}, {"loaded"})
  <2>1. Owns("callable", cb) = {"loaded"} \cup {"p_func"}
    BY RunTable
  <2> QED
    BY <1>2, <2>1, <1>t, <1>m, TryKeeps, RunTable
<1>3. CASE Try("callable", "tuple", {}, {"p_func", "loaded"})
  <2>1. Owns("callable", cb) = {"p_func", "loaded"} /\ Owns("tuple", cb) = {"p_func", "loaded"} \cup {}
    BY RunTable
  <2> QED
    BY <1>3, <2>1, <1>t, <1>m, TryKeeps
<1>4. CASE /\ at = "tuple"
           /\ \/ /\ at' = "setDetails" /\ refs' = refs \cup {"p_args"}
                 /\ UNCHANGED <<over, err, ret>>
              \/ Release({"p_func", "loaded"}) /\ err' = TRUE /\ Back(FALSE)
  <2>1. Fits(at, ret, cb) /\ at \in Plain /\ at \notin Guarded /\ ret = RunStack
    BY <1>4, FitsFacts DEF PyInv, Plain, RunAt, Guarded
  <2>2. CASE at' = "setDetails" /\ refs' = refs \cup {"p_args"} /\ UNCHANGED <<over, err, ret>>
    <3>1. refs = {"p_func", "loaded"} \cup Held(ret) /\ over = FALSE
      BY <1>4, <2>1, PlainReturnsNull, RunTable DEF PyInv, Balanced, Owned, ReturnsNull
    <3>2. refs' = Owns("setDetails", cb) \cup Held(ret)
      BY <2>2, <3>1, RunTable DEF Call
    <3> QED
      BY Zenon, <1>4, <2>2, <3>1, <3>2, <1>t, <1>m, OnKeeps
  <2>3. CASE Release({"p_func", "loaded"}) /\ err' = TRUE /\ Back(FALSE)
    <3>1. at' = "end"
      BY <2>1, <2>3, BaseStacks DEF Back, Top
    <3> QED
      BY Zenon, <1>4, <2>1, <2>3, <3>1, NullKeeps, RunTable
  <2> QED
    BY Zenon, <1>4, <2>2, <2>3
<1>5. CASE Give("setDetails", "jobData", "loaded", Call)
  <2>1. {"loaded"} \cup Call = Owns("setDetails", cb) /\ "loaded" \notin Call
    BY RunTable DEF Call
  <2> QED
    BY <1>5, <2>1, <1>t, <1>m, GiveKeeps, RunTable
<1>6. CASE Try("jobData", "setData", {"p_job_data"}, Call)
  BY <1>6, <1>t, <1>m, TryKeeps, RunTable
<1>7. CASE Give("setData", "guard", "p_job_data", Call)
  <2>1. {"p_job_data"} \cup Call = Owns("setData", cb) /\ "p_job_data" \notin Call
    BY RunTable DEF Call
  <2> QED
    BY <1>7, <2>1, <1>t, <1>m, GiveKeeps, RunTable
<1> QED
  BY Zenon, <1>1, <1>2, <1>3, <1>4, <1>5, <1>6, <1>7 DEF RunArguments

(* What a step has to establish.                                             *)
LEMMA ToKeeps ==
  ASSUME Fits(at', ret', cb'), cb' \in Methods \cup {"none"}, err' \in BOOLEAN, over' = FALSE,
         NEW X \in SUBSET MayOwn(at'), refs' = Owns(at', cb') \cup X \cup Held(ret'),
         at' = "fetch" => err', at' = "null" => err' \/ Unknown', err' => at' \in {"null", "fetch", "end"}
  PROVE  PyInv'
BY DEF PyInv, Balanced, Owned, Errors

(* run_bundle_json and the other conversions of a result.                    *)
LEMMA ConvertKeeps ==
  ASSUME PyInv, UNCHANGED cb, Convert
  PROVE  Kept
<1>1. at \in {"result", "dispose"}
  BY DEF Convert
<1>2. ret = Bottom /\ MayOwn(at) = {} /\ cb \in Methods \cup {"none"} /\ err = FALSE
  BY <1>1, FitsFacts, MayOwnTable DEF PyInv, CallerAt, Points, PrintAt, Errors
<1>3. refs = {"p_result"} /\ over = FALSE
  <2>1. Held(Bottom) = {} /\ Owns(at, cb) = {"p_result"}
    BY <1>1, BaseStacks, CallerTable DEF Held
  <2> QED
    BY <1>2, <2>1 DEF PyInv, Balanced, Owned
<1>4. CASE at = "result" /\ at' = "dispose" /\ UNCHANGED <<ret, refs, over, err>>
  <2>1. Fits(at', ret', cb') /\ Mode(at', ret') = Mode(at, ret)
    BY <1>2, <1>4, BaseStacks DEF Fits, CallerAt, Mode, NewAt
  <2>2. refs' = Owns(at', cb') \cup {} \cup Held(ret')
    BY <1>2, <1>3, <1>4, BaseStacks, CallerTable DEF Held
  <2>3. PyInv'
    BY Zenon, <1>2, <1>3, <1>4, <2>1, <2>2, ToKeeps
  <2> QED
    BY <2>1, <2>3 DEF Kept
<1>5. CASE at = "result" /\ Into("dumps", "dispose", "dispose") /\ UNCHANGED <<refs, over, err>>
  <2>1. at' = "dumps" /\ ret' = Push(Addresses("dispose", "dispose"), Bottom)
    BY <1>2, <1>5 DEF Into, Push, Addresses
  <2>2. DumpsFits(ret', cb')
    BY <2>1 DEF DumpsFits
  <2>3. Marks(ret') = {"dispose"}
    <3>1. "dispose" \in Points
      BY DEF Points, CallerAt
    <3>2. Marks(Push(Addresses("dispose", "dispose"), Bottom)) = {"dispose"} \cup Marks(Bottom)
      BY <3>1, BaseStacks, CallFacts
    <3> QED
      BY <2>1, <3>2, BaseStacks
  <2>4. Fits(at', ret', cb') /\ Mode(at', ret') = Mode(at, ret)
    BY <1>2, <1>5, <2>1, <2>2, <2>3, BaseStacks DEF Fits, DumpsAt, Mode, NewAt
  <2>5. refs' = Owns(at', cb') \cup {} \cup Held(ret')
    BY <1>3, <1>5, <2>1, <2>3, DumpsTable DEF Held
  <2>6. PyInv'
    BY Zenon, <1>2, <1>3, <1>5, <2>1, <2>4, <2>5, ToKeeps
  <2> QED
    BY <2>4, <2>6 DEF Kept
<1>6. CASE at = "dispose" /\ at' = "end" /\ Release({"p_result"}) /\ UNCHANGED <<err, ret>>
  <2>1. Fits(at', ret', cb') /\ Mode(at', ret') = Mode(at, ret)
    BY <1>2, <1>6, BaseStacks DEF Fits, CallerAt, Mode, NewAt
  <2>2. refs' = {} /\ over' = FALSE
    BY Zenon, <1>3, <1>6 DEF Release
  <2>3. refs' = Owns(at', cb') \cup {} \cup Held(ret')
    BY <1>2, <1>6, <2>2, BaseStacks, CallerTable DEF Held
  <2>4. PyInv'
    BY Zenon, <1>2, <1>6, <2>1, <2>2, <2>3, ToKeeps
  <2> QED
    BY <2>1, <2>4 DEF Kept
<1> QED
  BY <1>4, <1>5, <1>6 DEF Convert

(* Nothing of print_last_python_exception is owned further down the stack.   *)
LEMMA HeldBound ==
  ASSUME NEW s
  PROVE  Held(s) \subseteq {"p_func", "p_args", "p_global", "json_module", "traceback_module",
                            "p_result", "loads", "loads_args", "dumps", "dumps_args"}
BY DEF Held, Call, Globals, Modules

(* O is what print_last_python_exception owns at a.                          *)
Has(O, a) == PrintOwns(a) \subseteq O /\ O \subseteq PrintOwns(a) \cup MayOwn(a)

PrintReferences == {"extype", "value", "traceback", "type_str", "str_obj", "format", "format_args",
                    "lines", "iter", "item", "none"}

(* What it owns from call to call, in the parts that render the type and the  *)
(* value.                                                                    *)
LEMMA TextTable ==
  ASSUME NEW O
  PROVE  /\ Has(O, "typeName") <=> {"extype"} \subseteq O /\ O \subseteq {"extype", "value", "traceback"}
         /\ Has(O, "typeText") <=> /\ {"extype", "type_str"} \subseteq O
                                   /\ O \subseteq {"extype", "type_str", "value", "traceback"}
         /\ Has(O, "repr") <=> {"extype"} \subseteq O /\ O \subseteq {"extype", "value", "traceback"}
         /\ Has(O, "reprText") <=> /\ {"extype", "str_obj"} \subseteq O
                                   /\ O \subseteq {"extype", "str_obj", "value", "traceback"}
         /\ Has(O, "str") <=> {"extype"} \subseteq O /\ O \subseteq {"extype", "value", "traceback"}
         /\ Has(O, "strText") <=> /\ {"extype", "str_obj"} \subseteq O
                                  /\ O \subseteq {"extype", "str_obj", "value", "traceback"}
         /\ Has(O, "frames") <=> {"extype"} \subseteq O /\ O \subseteq {"extype", "value", "traceback"}
BY DEF Has, PrintOwns, MayOwn

(* In the part that formats the traceback.                                   *)
LEMMA FramesTable ==
  ASSUME NEW O
  PROVE  /\ Has(O, "framesTuple") <=> /\ {"extype", "traceback", "format"} \subseteq O
                                      /\ O \subseteq {"extype", "traceback", "format", "value"}
         /\ Has(O, "framesSet") <=>
                /\ {"extype", "traceback", "format", "format_args"} \subseteq O
                /\ O \subseteq {"extype", "traceback", "format", "format_args", "value"}
         /\ Has(O, "framesCall") <=> /\ {"extype", "format", "format_args"} \subseteq O
                                     /\ O \subseteq {"extype", "format", "format_args", "value"}
         /\ Has(O, "framesIter") <=>
                /\ {"extype", "lines", "format", "format_args"} \subseteq O
                /\ O \subseteq {"extype", "lines", "format", "format_args", "value"}
         /\ Has(O, "framesNext") <=>
                /\ {"extype", "iter", "lines", "format", "format_args"} \subseteq O
                /\ O \subseteq {"extype", "iter", "lines", "format", "format_args", "value"}
         /\ Has(O, "framesItem") <=>
                /\ {"extype", "iter", "item", "lines", "format", "format_args"} \subseteq O
                /\ O \subseteq {"extype", "iter", "item", "lines", "format", "format_args", "value"}
BY DEF Has, PrintOwns, MayOwn, Formatted, FormatCall

(* In the part that formats the exception itself.                            *)
LEMMA HeaderTable ==
  ASSUME NEW O
  PROVE  /\ Has(O, "header") <=> {"extype"} \subseteq O /\ O \subseteq {"extype", "value"}
         /\ Has(O, "headerTuple") <=> /\ {"extype", "format"} \subseteq O
                                      /\ O \subseteq {"extype", "format", "value"}
         /\ Has(O, "headerType") <=> /\ {"extype", "format", "format_args"} \subseteq O
                                     /\ O \subseteq {"extype", "format", "format_args", "value"}
         /\ Has(O, "headerSlot") <=> /\ {"format", "format_args"} \subseteq O
                                     /\ O \subseteq {"format", "format_args", "value"}
         /\ Has(O, "headerValue") <=> /\ {"format", "format_args"} \subseteq O
                                      /\ O \subseteq {"format", "format_args", "value", "none"}
         /\ Has(O, "headerCall") <=> O = {"format", "format_args"}
         /\ Has(O, "headerIter") <=> O = {"lines", "format", "format_args"}
         /\ Has(O, "headerNext") <=> O = {"iter", "lines", "format", "format_args"}
         /\ Has(O, "headerItem") <=> O = {"iter", "item", "lines", "format", "format_args"}
         /\ Has(O, "printed") <=> O = {}
BY DEF Has, PrintOwns, MayOwn, Formatted, FormatCall

(* What it owns anywhere.                                                    *)
LEMMA PrintBound ==
  ASSUME NEW a \in PrintAt, NEW O, Has(O, a)
  PROVE  O \subseteq PrintReferences
<1>1. PrintOwns(a) \subseteq PrintReferences
  BY DEF PrintOwns, PrintReferences, Formatted, FormatCall
<1>2. MayOwn(a) \subseteq PrintReferences
  BY DEF MayOwn, PrintReferences
<1> QED
  BY <1>1, <1>2 DEF Has

(* A step within print_last_python_exception.                                *)
LEMMA PrintOnKeeps ==
  ASSUME PyInv, at \in PrintAt, at' \in PrintAt \ {"fetch"}, UNCHANGED <<cb, ret>>,
         err' = FALSE, over' = FALSE, NEW O, Has(O, at'), refs' = O \cup Held(ret)
  PROVE  Kept
<1>1. PrintFits(ret, cb) /\ cb \in Methods \cup {"none"}
  BY FitsFacts DEF PyInv
<1>2. Fits(at', ret', cb')
  BY <1>1 DEF Fits
<1>3. Mode(at', ret') = Mode(at, ret)
  BY DEF Mode, PrintAt, NewAt
<1>4. Owns(at', cb') = PrintOwns(at')
  BY PrintTable
<1> DEFINE X == O \ PrintOwns(at')
<1>5. X \in SUBSET MayOwn(at') /\ O = PrintOwns(at') \cup X
  BY DEF Has
<1>6. refs' = Owns(at', cb') \cup X \cup Held(ret')
  BY <1>4, <1>5
<1> HIDE DEF X
<1>7. PyInv'
  BY Zenon, <1>1, <1>2, <1>5, <1>6, ToKeeps DEF PrintAt
<1> QED
  BY <1>3, <1>7 DEF Kept

(* Releasing some of what is owned here leaves the rest.                     *)
LEMMA ReleaseFacts ==
  ASSUME NEW O, NEW H, refs = O \cup H, O \cap H = {}, over = FALSE,
         NEW R \in SUBSET O, Release(R)
  PROVE  refs' = (O \ R) \cup H /\ over' = FALSE
<1>1. refs' = refs \ R /\ over' = (over \/ ~(R \subseteq refs))
  BY DEF Release
<1>2. R \subseteq refs /\ refs \ R = (O \ R) \cup H
  OBVIOUS
<1> QED
  BY Zenon, <1>1, <1>2

(* Where print_last_python_exception is when it has fetched the exception,    *)
(* and what it owns.                                                         *)
Printing(O) ==
    /\ PyInv /\ at \in PrintAt \ {"fetch"}
    /\ Has(O, at) /\ refs = O \cup Held(ret)

(* A step of it that releases R.                                             *)
LEMMA PrintReleases ==
  ASSUME NEW O, Printing(O), UNCHANGED <<cb, err, ret>>, at' \in PrintAt \ {"fetch"},
         NEW R \in SUBSET O, Release(R), Has(O \ R, at')
  PROVE  Kept
<1>1. PyInv /\ at \in PrintAt /\ over = FALSE /\ err = FALSE
  BY DEF Printing, PyInv, Balanced, Errors, PrintAt
<1>2. O \cap Held(ret) = {} /\ refs = O \cup Held(ret)
  BY PrintBound, HeldBound DEF Printing, PrintReferences
<1>3. refs' = (O \ R) \cup Held(ret) /\ over' = FALSE
  BY Zenon, <1>1, <1>2, ReleaseFacts
<1> QED
  BY Zenon, <1>1, <1>3, PrintOnKeeps

(* A step of it that is given new references.                                *)
LEMMA PrintAcquires ==
  ASSUME NEW O, Printing(O), UNCHANGED <<cb, over, err, ret>>, at' \in PrintAt \ {"fetch"},
         NEW new, refs' = refs \cup new, Has(O \cup new, at')
  PROVE  Kept
<1>1. PyInv /\ at \in PrintAt /\ over = FALSE /\ err = FALSE
  BY DEF Printing, PyInv, Balanced, Errors, PrintAt
<1>2. refs' = (O \cup new) \cup Held(ret)
  BY DEF Printing
<1> QED
  BY Zenon, <1>1, <1>2, PrintOnKeeps

(* A call of its own succeeds, or fails and R is released.                   *)
LEMMA FormatKeeps ==
  ASSUME NEW O, Printing(O), UNCHANGED cb, NEW here, NEW next, NEW new, NEW R, NEW skip,
         Format(here, next, new, R, skip), {next, skip} \subseteq PrintAt \ {"fetch"},
         Has(O \cup new, next), R \subseteq O, Has(O \ R, skip)
  PROVE  Kept
<1>1. CASE at' = next /\ refs' = refs \cup new /\ UNCHANGED over
  BY Zenon, <1>1, PrintAcquires DEF Format
<1>2. CASE at' = skip /\ Release(R)
  BY Zenon, <1>2, PrintReleases DEF Format
<1> QED
  BY <1>1, <1>2 DEF Format

(* PyTuple_SetItem takes the items.                                          *)
LEMMA SetItemKeeps ==
  ASSUME NEW O, Printing(O), UNCHANGED cb, NEW here, NEW next, NEW items, NEW R, NEW skip,
         SetItem(here, next, items, R, skip), {next, skip} \subseteq PrintAt \ {"fetch"},
         items \cup R \subseteq O, Has(O \ items, next), Has(O \ (items \cup R), skip)
  PROVE  Kept
<1>1. CASE at' = next /\ Release(items)
  BY Zenon, <1>1, PrintReleases DEF SetItem
<1>2. CASE at' = skip /\ Release(items \cup R)
  BY Zenon, <1>2, PrintReleases DEF SetItem
<1> QED
  BY <1>1, <1>2 DEF SetItem

(* It goes on and releases R.                                                *)
LEMMA OnToKeeps ==
  ASSUME NEW O, Printing(O), UNCHANGED cb, NEW here, NEW next, NEW R,
         OnTo(here, next, R), next \in PrintAt \ {"fetch"}, R \subseteq O, Has(O \ R, next)
  PROVE  Kept
BY Zenon, PrintReleases DEF OnTo

(* extract_value_string, of repr and of str.                                 *)
LEMMA ValueStringKeeps ==
  ASSUME NEW O, Printing(O), UNCHANGED cb, NEW a, NEW text, NEW b, ExtractValueString(a, text, b),
         {a, text, b} \subseteq PrintAt \ {"fetch"},
         at = a => Has(O \cup {"str_obj"}, text) /\ Has(O, b),
         at = text => {"str_obj"} \subseteq O /\ Has(O \ {"str_obj"}, b)
  PROVE  Kept
<1>0. {text, b} \subseteq PrintAt \ {"fetch"} /\ b \in PrintAt \ {"fetch"}
  OBVIOUS
<1>1. CASE OnTo(a, b, {})
  <2>1. {} \subseteq O /\ Has(O \ {}, b)
    BY <1>1 DEF OnTo, Has
  <2> QED
    BY Zenon, <1>0, <1>1, <2>1, OnToKeeps
<1>2. CASE Format(a, text, {"str_obj"}, {}, b)
  <2>1. {} \subseteq O /\ Has(O \ {}, b) /\ Has(O \cup {"str_obj"}, text)
    BY <1>2 DEF Format, Has
  <2> QED
    BY <1>0, <1>2, <2>1, FormatKeeps
<1>3. CASE OnTo(text, b, {"str_obj"})
  <2>1. {"str_obj"} \subseteq O /\ Has(O \ {"str_obj"}, b)
    BY <1>3 DEF OnTo
  <2> QED
    BY <1>0, <1>3, <2>1, OnToKeeps
<1> QED
  BY Zenon, <1>1, <1>2, <1>3 DEF ExtractValueString

(* extract_type_name and extract_value_string.                               *)
LEMMA TextKeeps ==
  ASSUME NEW O, Printing(O), UNCHANGED cb,
         \/ ExtractTypeName
         \/ ExtractValueString("repr", "reprText", "str")
         \/ ExtractValueString("str", "strText", "frames")
  PROVE  Kept
<1>f. {"typeName", "typeText", "repr", "reprText", "str", "strText", "frames"} \subseteq PrintAt \ {"fetch"}
  BY DEF PrintAt
<1>h. Has(O, at)
  BY DEF Printing
<1>1. CASE Format("typeName", "typeText", {"type_str"}, {}, "repr")
  <2>1. at = "typeName"
    BY <1>1 DEF Format
  <2>2. Has(O \cup {"type_str"}, "typeText") /\ Has(O \ {}, "repr")
    BY <1>h, <2>1, TextTable
  <2> QED
    BY <1>1, <1>f, <2>2, FormatKeeps
<1>2. CASE OnTo("typeText", "repr", {"type_str"})
  <2>1. at = "typeText"
    BY <1>2 DEF OnTo
  <2>2. {"type_str"} \subseteq O /\ Has(O \ {"type_str"}, "repr")
    BY <1>h, <2>1, TextTable
  <2> QED
    BY <1>2, <1>f, <2>2, OnToKeeps
<1>3. CASE ExtractValueString("repr", "reprText", "str")
  <2>1. /\ at = "repr" => Has(O \cup {"str_obj"}, "reprText") /\ Has(O, "str")
        /\ at = "reprText" => {"str_obj"} \subseteq O /\ Has(O \ {"str_obj"}, "str")
    BY <1>h, TextTable
  <2>2. {"repr", "reprText", "str"} \subseteq PrintAt \ {"fetch"}
    BY <1>f
  <2> QED
    BY Zenon, <1>3, <2>1, <2>2, ValueStringKeeps
<1>4. CASE ExtractValueString("str", "strText", "frames")
  <2>1. /\ at = "str" => Has(O \cup {"str_obj"}, "strText") /\ Has(O, "frames")
        /\ at = "strText" => {"str_obj"} \subseteq O /\ Has(O \ {"str_obj"}, "frames")
    BY <1>h, TextTable
  <2>2. {"str", "strText", "frames"} \subseteq PrintAt \ {"fetch"}
    BY <1>f
  <2> QED
    BY Zenon, <1>4, <2>1, <2>2, ValueStringKeeps
<1> QED
  BY Zenon, <1>1, <1>2, <1>3, <1>4 DEF ExtractTypeName

(* log_python_lines, wherever it is called.                                  *)
LEMMA LogLinesKeeps ==
  ASSUME NEW O, Printing(O), UNCHANGED cb, NEW iter, NEW next, NEW item, NEW R, NEW done,
         LogPythonLines(iter, next, item, R, done),
         {iter, next, item, done} \subseteq PrintAt \ {"fetch"},
         at = iter => Has(O \cup {"iter"}, next) /\ R \subseteq O /\ Has(O \ R, done),
         at = next => /\ Has(O \cup {"item"}, item) /\ {"iter"} \cup R \subseteq O
                      /\ Has(O \ ({"iter"} \cup R), done),
         at = item => {"item"} \subseteq O /\ Has(O \ {"item"}, next)
  PROVE  Kept
<1>1. CASE Format(iter, next, {"iter"}, R, done)
  <2>1. at = iter
    BY <1>1 DEF Format
  <2> QED
    BY Zenon, <1>1, <2>1, FormatKeeps
<1>2. CASE Format(next, item, {"item"}, {"iter"} \cup R, done)
  <2>1. at = next
    BY <1>2 DEF Format
  <2> QED
    BY Zenon, <1>2, <2>1, FormatKeeps
<1>3. CASE OnTo(item, next, {"item"})
  <2>1. at = item
    BY <1>3 DEF OnTo
  <2> QED
    BY Zenon, <1>3, <2>1, OnToKeeps
<1> QED
  BY Zenon, <1>1, <1>2, <1>3 DEF LogPythonLines

(* The value and the traceback the function has are its own.                 *)
LEMMA PrintValue ==
  ASSUME NEW O, Printing(O)
  PROVE  /\ "traceback" \in refs <=> "traceback" \in O
         /\ Value = O \cap {"value"}
         /\ refs \cap {"value", "none"} = O \cap {"value", "none"}
<1>1. refs = O \cup Held(ret)
  BY DEF Printing
<1>2. {"value", "none", "traceback"} \cap Held(ret) = {}
  BY HeldBound
<1> QED
  BY <1>1, <1>2 DEF Value

(* format_tb of the traceback.                                               *)
LEMMA FramesKeeps ==
  ASSUME NEW O, Printing(O), UNCHANGED cb, Frames
  PROVE  Kept
<1>f. {"frames", "framesTuple", "framesSet", "framesCall", "framesIter", "framesNext", "framesItem",
       "header"} \subseteq PrintAt \ {"fetch"}
  BY DEF PrintAt
<1>h. Has(O, at)
  BY DEF Printing
<1>1. CASE "traceback" \notin refs /\ OnTo("frames", "header", {})
  <2>1. at = "frames" /\ "traceback" \notin O
    BY <1>1, PrintValue DEF OnTo
  <2>2. {} \subseteq O /\ Has(O \ {}, "header")
    BY <1>h, <2>1, TextTable, HeaderTable
  <2> QED
    BY <1>1, <1>f, <2>2, OnToKeeps
<1>2. CASE /\ "traceback" \in refs
           /\ Format("frames", "framesTuple", {"format"}, {"traceback"}, "header")
  <2>1. at = "frames" /\ "traceback" \in O
    BY <1>2, PrintValue DEF Format
  <2>2. /\ Has(O \cup {"format"}, "framesTuple") /\ {"traceback"} \subseteq O
        /\ Has(O \ {"traceback"}, "header")
    BY <1>h, <2>1, TextTable, FramesTable, HeaderTable
  <2> QED
    BY <1>2, <1>f, <2>2, FormatKeeps
<1>3. CASE Format("framesTuple", "framesSet", {"format_args"}, {"format", "traceback"}, "header")
  <2>1. at = "framesTuple"
    BY <1>3 DEF Format
  <2>2. /\ Has(O \cup {"format_args"}, "framesSet") /\ {"format", "traceback"} \subseteq O
        /\ Has(O \ {"format", "traceback"}, "header")
    BY <1>h, <2>1, FramesTable, HeaderTable
  <2> QED
    BY <1>3, <1>f, <2>2, FormatKeeps
<1>4. CASE SetItem("framesSet", "framesCall", {"traceback"}, FormatCall, "header")
  <2>1. at = "framesSet"
    BY <1>4 DEF SetItem
  <2>2. /\ {"traceback"} \cup FormatCall \subseteq O
        /\ Has(O \ {"traceback"}, "framesCall") /\ Has(O \ ({"traceback"} \cup FormatCall), "header")
    BY <1>h, <2>1, FramesTable, HeaderTable DEF FormatCall
  <2> QED
    BY <1>4, <1>f, <2>2, SetItemKeeps
<1>5. CASE Format("framesCall", "framesIter", {"lines"}, FormatCall, "header")
  <2>1. at = "framesCall"
    BY <1>5 DEF Format
  <2>2. /\ Has(O \cup {"lines"}, "framesIter") /\ FormatCall \subseteq O
        /\ Has(O \ FormatCall, "header")
    BY <1>h, <2>1, FramesTable, HeaderTable DEF FormatCall
  <2> QED
    BY <1>5, <1>f, <2>2, FormatKeeps
<1>6. CASE LogPythonLines("framesIter", "framesNext", "framesItem", Formatted, "header")
  <2>1. at = "framesIter" => /\ Has(O \cup {"iter"}, "framesNext") /\ Formatted \subseteq O
                             /\ Has(O \ Formatted, "header")
    BY <1>h, FramesTable, HeaderTable DEF Formatted, FormatCall
  <2>2. at = "framesNext" => /\ Has(O \cup {"item"}, "framesItem") /\ {"iter"} \cup Formatted \subseteq O
                             /\ Has(O \ ({"iter"} \cup Formatted), "header")
    BY <1>h, FramesTable, HeaderTable DEF Formatted, FormatCall
  <2>3. at = "framesItem" => {"item"} \subseteq O /\ Has(O \ {"item"}, "framesNext")
    BY <1>h, FramesTable
  <2> QED
    BY Zenon, <1>6, <1>f, <2>1, <2>2, <2>3, LogLinesKeeps
<1> QED
  BY Zenon, <1>1, <1>2, <1>3, <1>4, <1>5, <1>6 DEF Frames

(* format_exception_only of the type and the value.                          *)
LEMMA HeaderKeeps ==
  ASSUME NEW O, Printing(O), UNCHANGED cb, Header
  PROVE  Kept
<1>f. {"header", "headerTuple", "headerType", "headerSlot", "headerValue", "headerCall",
       "headerIter", "headerNext", "headerItem", "printed"} \subseteq PrintAt \ {"fetch"}
  BY DEF PrintAt
<1>h. Has(O, at)
  BY DEF Printing
<1>v. Value = O \cap {"value"} /\ refs \cap {"value", "none"} = O \cap {"value", "none"}
  BY PrintValue
<1>1. CASE Format("header", "headerTuple", {"format"}, {"extype"} \cup Value, "printed")
  <2>1. at = "header"
    BY <1>1 DEF Format
  <2>2. /\ Has(O \cup {"format"}, "headerTuple") /\ {"extype"} \cup Value \subseteq O
        /\ Has(O \ ({"extype"} \cup Value), "printed")
    BY <1>h, <1>v, <2>1, HeaderTable
  <2> QED
    BY <1>1, <1>f, <2>2, FormatKeeps
<1>2. CASE Format("headerTuple", "headerType", {"format_args"}, {"extype", "format"} \cup Value,
                  "printed")
  <2>1. at = "headerTuple"
    BY <1>2 DEF Format
  <2>2. /\ Has(O \cup {"format_args"}, "headerType") /\ {"extype", "format"} \cup Value \subseteq O
        /\ Has(O \ ({"extype", "format"} \cup Value), "printed")
    BY <1>h, <1>v, <2>1, HeaderTable
  <2> QED
    BY <1>2, <1>f, <2>2, FormatKeeps
<1>3. CASE SetItem("headerType", "headerSlot", {"extype"}, FormatCall \cup Value, "printed")
  <2>1. at = "headerType"
    BY <1>3 DEF SetItem
  <2>2. /\ {"extype"} \cup (FormatCall \cup Value) \subseteq O /\ Has(O \ {"extype"}, "headerSlot")
        /\ Has(O \ ({"extype"} \cup (FormatCall \cup Value)), "printed")
    BY <1>h, <1>v, <2>1, HeaderTable DEF FormatCall
  <2> QED
    BY <1>3, <1>f, <2>2, SetItemKeeps
<1>4. CASE /\ at = "headerSlot" /\ at' = "headerValue"
           /\ refs' = IF Value = {} THEN refs \cup {"none"} ELSE refs
           /\ UNCHANGED <<over, err, ret>>
  <2> DEFINE new == IF Value = {} THEN {"none"} ELSE {}
  <2>1. refs' = refs \cup new
    BY <1>4
  <2>2. Has(O \cup new, "headerValue")
    BY <1>h, <1>4, HeaderTable
  <2> HIDE DEF new
  <2> QED
    BY Zenon, <1>4, <1>f, <2>1, <2>2, PrintAcquires
<1>5. CASE SetItem("headerValue", "headerCall", refs \cap {"value", "none"}, FormatCall, "printed")
  <2>1. at = "headerValue"
    BY <1>5 DEF SetItem
  <2> DEFINE items == O \cap {"value", "none"}
  <2>2. items \cup FormatCall \subseteq O /\ O \ items = {"format", "format_args"}
    BY <1>h, <2>1, HeaderTable DEF FormatCall
  <2>3. O \ (items \cup FormatCall) = {}
    BY <2>2 DEF FormatCall
  <2>4. Has(O \ items, "headerCall") /\ Has(O \ (items \cup FormatCall), "printed")
    BY <2>2, <2>3, HeaderTable
  <2>5. SetItem("headerValue", "headerCall", items, FormatCall, "printed")
    BY <1>5, <1>v
  <2> HIDE DEF items
  <2> QED
    BY <1>f, <2>2, <2>4, <2>5, SetItemKeeps
<1>6. CASE Format("headerCall", "headerIter", {"lines"}, FormatCall, "printed")
  <2>1. at = "headerCall"
    BY <1>6 DEF Format
  <2>2. /\ Has(O \cup {"lines"}, "headerIter") /\ FormatCall \subseteq O
        /\ Has(O \ FormatCall, "printed")
    BY <1>h, <2>1, HeaderTable DEF FormatCall
  <2> QED
    BY <1>6, <1>f, <2>2, FormatKeeps
<1>7. CASE LogPythonLines("headerIter", "headerNext", "headerItem", Formatted, "printed")
  <2>1. at = "headerIter" => /\ Has(O \cup {"iter"}, "headerNext") /\ Formatted \subseteq O
                             /\ Has(O \ Formatted, "printed")
    BY <1>h, HeaderTable DEF Formatted, FormatCall
  <2>2. at = "headerNext" => /\ Has(O \cup {"item"}, "headerItem") /\ {"iter"} \cup Formatted \subseteq O
                             /\ Has(O \ ({"iter"} \cup Formatted), "printed")
    BY <1>h, HeaderTable DEF Formatted, FormatCall
  <2>3. at = "headerItem" => {"item"} \subseteq O /\ Has(O \ {"item"}, "headerNext")
    BY <1>h, HeaderTable
  <2> QED
    BY Zenon, <1>7, <1>f, <2>1, <2>2, <2>3, LogLinesKeeps
<1> QED
  BY Zenon, <1>1, <1>2, <1>3, <1>4, <1>5, <1>6, <1>7 DEF Header, HeaderArguments,
         SetExceptionValueSlot

(* print_last_python_exception, whatever of its own calls fails.             *)
LEMMA PrintKeeps ==
  ASSUME PyInv, UNCHANGED cb, PrintLastPythonException
  PROVE  Kept
<1>1. at \in PrintAt /\ PrintFits(ret, cb) /\ cb \in Methods \cup {"none"}
  <2>1. at \in PrintAt
    BY Zenon DEF PrintLastPythonException, Fetch, ExtractTypeName, ExtractValueString, Frames, Header,
           HeaderArguments, SetExceptionValueSlot, LogPythonLines, Format, SetItem, OnTo,
           Leave, PrintAt
  <2> QED
    BY <2>1, FitsFacts DEF PyInv
<1>2. PICK X \in SUBSET MayOwn(at) : refs = Owns(at, cb) \cup X \cup Held(ret)
  BY DEF PyInv, Balanced, Owned
<1>3. over = FALSE /\ (at # "fetch" => err = FALSE)
  BY <1>1 DEF PyInv, Balanced, Errors, PrintAt
<1>4. CASE Fetch
  <2>1. PICK more \in SUBSET {"value", "traceback"} : refs' = refs \cup {"extype"} \cup more
    BY <1>4 DEF Fetch
  <2>2. at = "fetch" /\ at' = "typeName" /\ err' = FALSE /\ UNCHANGED <<over, ret>>
    BY <1>4 DEF Fetch
  <2>3. refs = Held(ret)
    BY <1>2, <2>2, PrintTable, MayOwnTable
  <2>4. refs' = ({"extype"} \cup more) \cup Held(ret)
    BY <2>1, <2>3
  <2>5. Has({"extype"} \cup more, at') /\ at' \in PrintAt \ {"fetch"}
    BY Zenon, <2>2, TextTable DEF PrintAt
  <2> QED
    BY Zenon, <1>1, <1>3, <2>2, <2>4, <2>5, PrintOnKeeps
<1>5. ASSUME at # "fetch"
      PROVE  \E O : Printing(O)
  <2>1. Has(Owns(at, cb) \cup X, at)
    BY <1>1, <1>2, PrintTable DEF Has
  <2> QED
    BY Zenon, <1>1, <1>2, <1>5, <2>1 DEF Printing
<1>7. CASE \/ ExtractTypeName
           \/ ExtractValueString("repr", "reprText", "str")
           \/ ExtractValueString("str", "strText", "frames")
  <2>1. at # "fetch"
    BY <1>7 DEF ExtractTypeName, ExtractValueString, Format, OnTo
  <2> QED
    BY Zenon, <1>5, <1>7, <2>1, TextKeeps
<1>8. CASE Frames
  <2>1. at # "fetch"
    BY <1>8 DEF Frames, LogPythonLines, Format, SetItem, OnTo
  <2> QED
    BY Zenon, <1>5, <1>8, <2>1, FramesKeeps
<1>9. CASE Header
  <2>1. at # "fetch"
    BY <1>9 DEF Header, HeaderArguments, SetExceptionValueSlot, LogPythonLines, Format,
           SetItem, OnTo
  <2> QED
    BY Zenon, <1>5, <1>9, <2>1, HeaderKeeps
<1>6. CASE Leave("printed", {}, TRUE)
  <2>1. at = "printed" /\ Release({}) /\ Back(TRUE) /\ UNCHANGED err
    BY Zenon, <1>6 DEF Leave
  <2>2. refs' = Held(ret) /\ over' = FALSE /\ err = FALSE
    BY Zenon, <1>2, <1>3, <2>1, PrintTable, MayOwnTable DEF Release
  <2>3. CASE Top(ret).ok = "raised" /\ Below(ret) = RunStack /\ Marks(ret) = {"raised", "result"}
    <3>1. Held(ret) = Call /\ Held(RunStack) = {} /\ Owns("raised", cb) = Call
      BY <2>3, BaseStacks, RunTable DEF Held
    <3>2. Fits("raised", RunStack, cb)
      BY DEF Fits, RunAt
    <3>3. Mode("raised", RunStack) = "function" /\ Mode(at, ret) = "function"
      BY <2>1, <2>3, BaseStacks DEF Mode, NewAt
    <3>4. refs' = Owns("raised", cb) \cup Held(RunStack)
      BY <2>2, <3>1
    <3> QED
      BY Zenon, <2>1, <2>2, <2>3, <3>2, <3>3, <3>4, OkKeeps
  <2>4. CASE /\ Top(ret).ok = "loadsFailed" /\ LoadsFits(Below(ret), cb)
             /\ Marks(ret) = {"loadsFailed"} \cup Marks(Below(ret))
    <3>1. Held(ret) = {"loads", "loads_args"} \cup Held(Below(ret))
      BY <2>4, LoadsStacks DEF Held
    <3>2. Fits("loadsFailed", Below(ret), cb)
      BY <2>4 DEF Fits, LoadsAt
    <3>3. Mode("loadsFailed", Below(ret)) = Mode(at, ret)
      BY <2>1, <2>4, LoadsStacks DEF Mode, NewAt
    <3>4. refs' = Owns("loadsFailed", cb) \cup Held(Below(ret))
      BY <2>2, <3>1, LoadsTable
    <3> QED
      BY Zenon, <2>1, <2>2, <2>4, <3>2, <3>3, <3>4, OkKeeps
  <2>5. CASE /\ Top(ret).ok = "dumpsFailed" /\ DumpsFits(Below(ret), cb)
             /\ Marks(ret) = {"dumpsFailed"} \cup Marks(Below(ret))
    <3>1. Held(ret) = {"dumps", "dumps_args"} \cup Held(Below(ret))
      BY <2>5, DumpsStacks DEF Held
    <3>2. Fits("dumpsFailed", Below(ret), cb)
      BY <2>5 DEF Fits, DumpsAt
    <3>3. Mode("dumpsFailed", Below(ret)) = Mode(at, ret)
      BY <2>1, <2>5, DumpsStacks DEF Mode, NewAt
    <3>4. refs' = Owns("dumpsFailed", cb) \cup Held(Below(ret))
      BY <2>2, <3>1, DumpsTable
    <3> QED
      BY Zenon, <2>1, <2>2, <2>5, <3>2, <3>3, <3>4, OkKeeps
  <2> QED
    BY <1>1, <2>3, <2>4, <2>5, PrintStacks
<1> QED
  BY Zenon, <1>4, <1>6, <1>7, <1>8, <1>9 DEF PrintLastPythonException

(* Inside a method nothing of the callers' is owned here.                    *)
LEMMA MethodFacts ==
  ASSUME PyInv, at \in MethodAt
  PROVE  /\ MethodFits(at, ret, cb) /\ cb \in Methods /\ Result(cb) = Returned
         /\ refs = Owns(at, cb) \cup Held(ret) /\ over = FALSE
         /\ Owns(at, cb) \cap Held(ret) = {}
         /\ at # "null" => err = FALSE
<1>1. MethodFits(at, ret, cb)
  BY FitsFacts DEF PyInv
<1>2. cb \in Methods /\ Result(cb) = Returned
  BY <1>1 DEF MethodFits, Result, Returned
<1>3. MayOwn(at) = {}
  BY MayOwnTable DEF Points, PrintAt, MethodAt, InitAt, RequestAt
<1>4. refs = Owns(at, cb) \cup Held(ret) /\ over = FALSE
  BY <1>3 DEF PyInv, Balanced, Owned
<1>5. Owns(at, cb) \cap Held(ret) = {}
  <2>1. Result(cb) \subseteq {"loaded", "module"}
    BY DEF Result
  <2>2. Owns(at, cb) \subseteq {"module", "exc", "loaded", "job_id"}
    BY <2>1, MethodTable DEF MethodAt, InitAt, RequestAt
  <2> QED
    BY <2>2, HeldBound
<1>6. at # "null" => err = FALSE
  BY DEF PyInv, Errors, MethodAt, InitAt, RequestAt
<1> QED
  BY <1>1, <1>2, <1>4, <1>5, <1>6

(* A step within a method.                                                   *)
LEMMA MethodOnKeeps ==
  ASSUME PyInv, at \in MethodAt, at' \in MethodAt, UNCHANGED <<cb, ret>>, MethodFits(at', ret, cb),
         err' \in BOOLEAN, at' = "null" => err' \/ Unknown', err' => at' = "null", over' = FALSE,
         refs' = Owns(at', cb) \cup Held(ret)
  PROVE  Kept
<1>1. Fits(at', ret', cb') /\ cb' \in Methods
  BY MethodFacts DEF Fits
<1>2. Mode(at', ret') = Mode(at, ret)
  BY DEF Mode, MethodAt, InitAt, RequestAt, NewAt
<1>3. at' # "fetch"
  BY DEF MethodAt, InitAt, RequestAt
<1>4. PyInv'
  <2>1. refs' = Owns(at', cb') \cup {} \cup Held(ret')
    OBVIOUS
  <2>2. {} \in SUBSET MayOwn(at')
    OBVIOUS
  <2> QED
    BY Zenon, <1>1, <1>3, <2>1, <2>2, ToKeeps
<1> QED
  BY <1>2, <1>4 DEF Kept

(* A method that gives up sets an error and has released everything.         *)
LEMMA FailsKeeps ==
  ASSUME PyInv, at \in MethodAt, UNCHANGED cb, NEW R, R = Owns(at, cb), Fails(R)
  PROVE  Kept
<1>1. at' = "null" /\ err' = TRUE /\ UNCHANGED ret /\ Release(R)
  BY DEF Fails
<1>2. /\ MethodFits(at, ret, cb) /\ refs = R \cup Held(ret) /\ R \cap Held(ret) = {}
      /\ over = FALSE
  BY MethodFacts
<1>3. refs' = Held(ret) /\ over' = FALSE
  <2>1. refs' = refs \ R /\ over' = (over \/ ~(R \subseteq refs))
    BY <1>1 DEF Release
  <2>2. R \subseteq refs /\ refs \ R = Held(ret)
    BY <1>2
  <2> QED
    BY Zenon, <1>2, <2>1, <2>2
<1>4. MethodFits("null", ret, cb) /\ "null" \in MethodAt /\ Owns("null", cb) = {}
  BY <1>2, MethodTable DEF MethodFits, MethodAt, InitAt, RequestAt
<1> QED
  BY Zenon, <1>1, <1>3, <1>4, MethodOnKeeps

(* A call of a method of _bundledb that returns new references, or fails with *)
(* an error set, after which the method releases R and returns NULL.         *)
LEMMA OrFailsKeeps ==
  ASSUME PyInv, UNCHANGED cb, NEW here, NEW next, NEW new, NEW R, OrFails(here, next, new, R),
         here \in MethodAt \ {"null"}, next \in MethodAt \ {"null"}, MethodFits(next, ret, cb),
         R = Owns(here, cb), Owns(next, cb) = R \cup new
  PROVE  Kept
<1>1. at = here
  BY DEF OrFails
<1>2. CASE at' = next /\ refs' = refs \cup new /\ UNCHANGED <<over, err, ret>>
  <2>1. refs = R \cup Held(ret) /\ over = FALSE /\ err = FALSE
    BY <1>1, MethodFacts
  <2>2. refs' = Owns(at', cb) \cup Held(ret)
    BY <1>2, <2>1
  <2> QED
    BY Zenon, <1>1, <1>2, <2>1, <2>2, MethodOnKeeps
<1>3. CASE Fails(R)
  BY <1>1, <1>3, FailsKeeps
<1> QED
  BY <1>2, <1>3 DEF OrFails

(* Giving one reference away, or failing.                                    *)
LEMMA GiveOrFailKeeps ==
  ASSUME PyInv, UNCHANGED cb, NEW item, NEW R, at \in MethodAt \ {"null"},
         \/ at' = "done" /\ Release({item}) /\ UNCHANGED <<err, ret>>
         \/ Fails({item} \cup R),
         MethodFits("done", ret, cb), {item} \cup R = Owns(at, cb), item \notin R,
         Owns("done", cb) = R
  PROVE  Kept
<1>1. CASE at' = "done" /\ Release({item}) /\ UNCHANGED <<err, ret>>
  <2>1. /\ refs = Owns(at, cb) \cup Held(ret) /\ Owns(at, cb) \cap Held(ret) = {}
        /\ over = FALSE /\ err = FALSE
    BY MethodFacts
  <2>2. refs' = (Owns(at, cb) \ {item}) \cup Held(ret) /\ over' = FALSE
    BY Zenon, <1>1, <2>1, ReleaseFacts
  <2>3. refs' = Owns(at', cb) \cup Held(ret)
    BY <1>1, <2>2
  <2>4. "done" \in MethodAt
    BY DEF MethodAt
  <2> QED
    BY Zenon, <1>1, <2>1, <2>2, <2>3, <2>4, MethodOnKeeps
<1>2. CASE Fails({item} \cup R)
  BY <1>2, FailsKeeps
<1> QED
  BY <1>1, <1>2

(* PyInit_bundledb.                                                          *)
LEMMA InitBundleDbKeeps ==
  ASSUME PyInv, UNCHANGED cb, NEW t, InitBundleDb(t)
  PROVE  Kept
<1>1. at \in InitAt /\ InitAt \subseteq MethodAt \ {"null"}
  BY DEF InitBundleDb, OrFails, InitAt, MethodAt
<1>2. MethodFits(at, ret, cb) /\ cb = "PyInit_bundledb" /\ Result(cb) = {"module"}
  BY Zenon, <1>1, MethodFacts DEF MethodFits, Result
<1>3. /\ MethodFits("exception", ret, cb) /\ MethodFits("add", ret, cb)
      /\ MethodFits("done", ret, cb)
  BY <1>1, <1>2 DEF MethodFits, InitAt, RequestAt
<1>m. {"create", "exception", "add"} \subseteq MethodAt \ {"null"}
  BY <1>1 DEF InitAt
<1>4. CASE OrFails("create", "exception", {"module"}, {})
  <2>1. Owns("create", cb) = {} /\ Owns("exception", cb) = {} \cup {"module"}
    BY MethodTable
  <2> QED
    BY <1>m, <1>3, <1>4, <2>1, OrFailsKeeps
<1>5. CASE OrFails("exception", "add", {"exc"}, {"module"})
  <2>1. Owns("exception", cb) = {"module"} /\ Owns("add", cb) = {"module"} \cup {"exc"}
    BY MethodTable
  <2> QED
    BY <1>m, <1>3, <1>5, <2>1, OrFailsKeeps
<1>6. CASE /\ at = "add"
           /\ \/ at' = "done" /\ Release({"exc"}) /\ UNCHANGED <<err, ret>>
              \/ Fails({"exc", "module"})
  <2>1. /\ {"exc"} \cup {"module"} = Owns(at, cb) /\ Owns("done", cb) = {"module"}
        /\ {"exc"} \cup {"module"} = {"exc", "module"} /\ "exc" \notin {"module"}
    BY <1>2, <1>6, MethodTable
  <2> QED
    BY Zenon, <1>m, <1>3, <1>6, <2>1, GiveOrFailKeeps
<1> QED
  BY <1>4, <1>5, <1>6 DEF InitBundleDb

(* A method has its exception object, or returns NULL.                       *)
LEMMA ErrorObjectKeeps ==
  ASSUME PyInv, UNCHANGED cb, NEW t, ErrorObject(t), gil = t, UNCHANGED <<map, gil>>
  PROVE  Kept
<1>1. /\ at \in {"object", "error"} /\ UNCHANGED <<ret, refs, over>> /\ err' \in BOOLEAN
      /\ \/ at' = "null" /\ (err' \/ Unknown')
         \/ at = "object" /\ at' = "send" /\ err' = FALSE
  BY Zenon DEF ErrorObject, GetBundleDbErrorOrAbort, Unknown
<1>2. at \in MethodAt /\ at' \in MethodAt
  BY <1>1 DEF MethodAt, RequestAt
<1>3. MethodFits(at, ret, cb) /\ refs = Owns(at, cb) \cup Held(ret) /\ over = FALSE
  BY <1>2, MethodFacts
<1>4. MethodFits(at', ret, cb)
  BY <1>1, <1>3 DEF MethodFits, InitAt, RequestAt
<1>5. refs' = Owns(at', cb) \cup Held(ret) /\ over' = FALSE
  BY <1>1, <1>3, MethodTable
<1> QED
  BY Zenon, <1>1, <1>2, <1>4, <1>5, MethodOnKeeps

(* The methods that ask the server.                                          *)
LEMMA RequestKeeps ==
  ASSUME PyInv, UNCHANGED cb, Request
  PROVE  Kept
<1>1. at \in RequestAt \ {"error"}
  BY DEF Request, SendAndWait, SetJobIdInDict, OrFails, RequestAt
<1>2. /\ RequestAt \cup {"done"} \subseteq MethodAt \ {"null"}
      /\ RequestAt = {"dumped", "object", "send", "reply", "id", "setId", "error"}
  BY DEF MethodAt, RequestAt
<1>3. /\ MethodFits(at, ret, cb) /\ Result(cb) = Returned
      /\ refs = Owns(at, cb) \cup Held(ret) /\ over = FALSE /\ err = FALSE
      /\ Owns(at, cb) \cap Held(ret) = {}
  BY Zenon, <1>1, <1>2, MethodFacts
<1>4. ret = CallStack /\ cb \in Methods /\ cb # "PyInit_bundledb"
  BY <1>1, <1>3 DEF MethodFits
<1>5. \A a \in RequestAt \cup {"done"} : MethodFits(a, ret, cb)
  BY <1>2, <1>4 DEF MethodFits, InitAt
<1>6. ASSUME at' \in RequestAt \cup {"done"}, UNCHANGED <<ret, refs, over, err>>,
             Owns(at, cb) = Owns(at', cb)
      PROVE  Kept
  BY Zenon, <1>1, <1>2, <1>3, <1>5, <1>6, MethodOnKeeps
<1>7. CASE /\ at = "dumped"
           /\ IF cb = "delete_job" THEN at' \in {"send", "error"} ELSE at' = "object"
           /\ UNCHANGED <<ret, refs, over, err>>
  BY Zenon, <1>2, <1>6, <1>7, MethodTable
<1>8. CASE SendAndWait
  <2>1. /\ at = "send" /\ UNCHANGED <<ret, refs, over, err>>
        /\ at' \in {"reply", "error"} \/ (at' = "done" /\ cb = "delete_job")
    BY <1>8 DEF SendAndWait
  <2>2. cb = "delete_job" => Result(cb) = {}
    BY DEF Result
  <2> QED
    BY <1>2, <1>6, <2>1, <2>2, MethodTable
<1>9. CASE /\ at = "reply"
           /\ \/ at' = "error" /\ UNCHANGED ret
              \/ cb # "get_job_by_id" /\ at' = "id" /\ UNCHANGED ret
           /\ UNCHANGED <<refs, over, err>>
  <2>1. cb # "get_job_by_id" => Result(cb) = {}
    BY <1>4 DEF Result
  <2> QED
    BY <1>2, <1>6, <1>9, <2>1, MethodTable
<1>10. CASE /\ at = "reply" /\ cb = "get_job_by_id" /\ Into("loads", "id", "error")
            /\ UNCHANGED <<refs, over, err>>
  <2>1. at' = "loads" /\ ret' = Push(Addresses("id", "error"), CallStack)
    BY <1>4, <1>10 DEF Into, Push, Addresses
  <2>2. LoadsFits(ret', cb')
    BY <1>10, <2>1 DEF LoadsFits
  <2>3. Marks(ret') = {"id"} \cup Marks(CallStack)
    <3>1. "id" \in Points /\ "error" \in Points
      BY DEF Points, MethodAt, RequestAt
    <3> QED
      BY <2>1, <3>1, BaseStacks, CallFacts
  <2>4. Held(ret') = Held(ret)
    BY <1>4, <2>3, BaseStacks DEF Held
  <2>5. Fits(at', ret', cb') /\ Mode(at', ret') = Mode(at, ret)
    BY <1>4, <1>10, <2>1, <2>2, <2>3, BaseStacks DEF Fits, LoadsAt, Mode, NewAt
  <2>6. refs' = Owns(at', cb') \cup {} \cup Held(ret')
    BY <1>3, <1>10, <2>1, <2>4, LoadsTable, MethodTable
  <2>7. PyInv'
    BY Zenon, <1>3, <1>4, <1>10, <2>1, <2>5, <2>6, ToKeeps
  <2> QED
    BY <2>5, <2>7 DEF Kept
<1>11. CASE OrFails("id", "setId", {"job_id"}, Returned)
  BY <1>2, <1>3, <1>5, <1>11, MethodTable, OrFailsKeeps
<1>12. CASE /\ at = "setId"
            /\ \/ at' = "done" /\ Release({"job_id"}) /\ UNCHANGED <<err, ret>>
               \/ Fails({"job_id"} \cup Returned)
  <2>1. /\ {"job_id"} \cup Returned = Owns(at, cb) /\ Owns("done", cb) = Returned
        /\ "job_id" \notin Returned
    BY Zenon, <1>3, <1>12, MethodTable DEF Result
  <2> QED
    BY <1>2, <1>5, <1>12, <2>1, GiveOrFailKeeps
<1> QED
  BY <1>7, <1>8, <1>9, <1>10, <1>11, <1>12 DEF Request, SetJobIdInDict

-----------------------------------------------------------------------------
(* Steps of the bundle's own code and in and out of it                       *)

(* Where Python code runs, its caller owns what run or new keep meanwhile.    *)
LEMMA CodeFacts ==
  ASSUME PyInv, at \in Code
  PROVE  /\ at = "call" => ret = RunStack /\ refs = Call
         /\ at = "import" => ret = NewStack /\ refs = Globals
         /\ over = FALSE /\ err = FALSE
<1>1. at = "call" => ret = RunStack
  BY FitsFacts DEF PyInv, RunAt
<1>2. at = "import" => ret = NewStack
  BY FitsFacts DEF PyInv, NewAt
<1>3. MayOwn(at) = {}
  BY MayOwnTable DEF Code, Points, RunAt, NewAt, PrintAt
<1>4. Held(RunStack) = {} /\ Held(NewStack) = {}
  BY BaseStacks DEF Held
<1>5. refs = Owns(at, cb) \cup Held(ret) /\ over = FALSE
  BY <1>3 DEF PyInv, Balanced, Owned
<1>6. err = FALSE
  BY DEF PyInv, Errors, Code
<1> QED
  BY <1>1, <1>2, <1>4, <1>5, <1>6, RunTable, NewTable DEF Code

(* The function of the bundle returns or raises.                             *)
LEMMA FunctionEndsKeeps ==
  ASSUME PyInv, UNCHANGED cb, FunctionEnds
  PROVE  Kept
<1>1. at = "call" /\ ret = RunStack /\ refs = Call /\ over = FALSE /\ err = FALSE
  BY CodeFacts DEF FunctionEnds, CallObject, Code
<1>2. cb \in Methods \cup {"none"} /\ MayOwn(at) = {} /\ Owns(at, cb) = Call /\ Held(ret) = {}
  BY Zenon, <1>1, RunTable, MayOwnTable, BaseStacks DEF PyInv, Points, RunAt, PrintAt, Held
<1>3. CASE at' = "returned" /\ refs' = refs \cup {"p_result"} /\ UNCHANGED <<over, err, ret>>
  <2>1. Fits(at', ret', cb') /\ Mode(at', ret') = Mode(at, ret)
    BY <1>1, <1>3, BaseStacks DEF Fits, RunAt, Mode, NewAt
  <2>2. refs' = Owns(at', cb') \cup {} \cup Held(ret')
    BY <1>1, <1>2, <1>3, RunTable
  <2>3. {} \in SUBSET MayOwn(at')
    OBVIOUS
  <2>4. PyInv'
    BY Zenon, <1>1, <1>2, <1>3, <2>1, <2>2, <2>3, ToKeeps
  <2> QED
    BY <2>1, <2>4 DEF Kept
<1>4. CASE err' = TRUE /\ Into("fetch", "raised", "raised") /\ UNCHANGED <<refs, over>>
  <2> DEFINE r == Push(Addresses("raised", "raised"), ret)
  <2>1. PrintFits(r, cb)
    BY <1>1 DEF PrintFits
  <2>2. Marks(r) = {"raised"} \cup Marks(ret)
    <3>1. "raised" \in Points
      BY DEF Points, RunAt
    <3> QED
      BY <1>1, <3>1, BaseStacks, CallFacts
  <2>3. Held(r) = Call
    BY Zenon, <1>1, <2>2, BaseStacks DEF Held
  <2>4. Mode("fetch", r) = Mode(at, ret)
    BY <1>1, <2>2, BaseStacks DEF Mode, NewAt
  <2>5. Held(r) = Owns(at, cb) \cup Held(ret)
    BY <1>2, <2>3
  <2> HIDE DEF r
  <2> QED
    BY <1>2, <1>4, <2>1, <2>4, <2>5, RaiseKeeps DEF r
<1> QED
  BY Zenon, <1>3, <1>4 DEF FunctionEnds, CallObject

(* The bundle module has been imported or has raised.                        *)
LEMMA ImportKeeps ==
  ASSUME PyInv, UNCHANGED cb, Import
  PROVE  Kept
<1>1. at = "import" /\ ret = NewStack /\ refs = Globals /\ over = FALSE /\ err = FALSE
  BY CodeFacts DEF Import, Code
<1>2. CASE Release(Modules) /\ Back(TRUE) /\ UNCHANGED err
  <2>1. Fits("loaded", Bottom, cb) /\ Mode("loaded", Bottom) = Mode(at, ret)
    BY <1>1, BaseStacks DEF Fits, CallerAt, Mode, NewAt
  <2>2. refs' = {"p_global"} /\ over' = FALSE
    BY Zenon, <1>1, <1>2 DEF Release, Globals, Modules
  <2>4. refs' = Owns("loaded", cb) \cup Held(Bottom)
    BY <2>2, BaseStacks, CallerTable DEF Held
  <2>3. Top(ret).ok = "loaded" /\ Below(ret) = Bottom
    BY <1>1, BaseStacks
  <2> QED
    BY Zenon, <1>1, <1>2, <2>1, <2>2, <2>3, <2>4, OkKeeps
<1>3. CASE ReturnNull({"p_global"} \cup Modules)
  <2>1. at \in Plain /\ at \notin Guarded /\ {"p_global"} \cup Modules = Owns(at, cb)
    BY <1>1, NewTable DEF Plain, NewAt, Guarded, Globals
  <2> QED
    BY Zenon, <1>3, <2>1, NullKeeps DEF ReturnNull
<1> QED
  BY Zenon, <1>2, <1>3 DEF Import

(* Python code calls a method of _bundledb.                                  *)
LEMMA CallMethodKeeps ==
  ASSUME PyInv, NEW t, NEW m \in Methods, CallMethod(t, m)
  PROVE  Kept
<1>1. /\ at \in Code /\ cb' = m /\ UNCHANGED <<refs, over, err>>
      /\ at' = IF m = "PyInit_bundledb" THEN "create" ELSE "args"
      /\ ret' = Push(Addresses(at, at), ret)
  BY DEF CallMethod, Into, Push, Addresses
<1>2. /\ at = "call" => ret' = CallStack /\ refs = Call
      /\ at = "import" => ret' = ImportStack /\ refs = Globals
      /\ over = FALSE /\ err = FALSE
  BY <1>1, CodeFacts DEF CallStack, ImportStack
<1>3. Fits(at', ret', cb')
  BY <1>1, <1>2 DEF Fits, MethodFits, MethodAt, InitAt, RequestAt, Code
<1>4. Mode(at', ret') = Mode(at, ret)
  BY Zenon, <1>1, <1>2, CodeFacts, BaseStacks DEF Mode, NewAt, Code
<1>5. refs' = Held(ret')
  <2>1. Held(CallStack) = Call /\ Held(ImportStack) = Globals
    BY BaseStacks DEF Held
  <2> QED
    BY <1>1, <1>2, <2>1 DEF Code
<1>6. Owns(at', cb') = {} /\ {} \in SUBSET MayOwn(at')
  BY <1>1, MethodTable
<1>7. PyInv'
  BY Zenon, <1>1, <1>2, <1>3, <1>5, <1>6, ToKeeps
<1> QED
  BY <1>4, <1>7 DEF Kept

(* A method reads its arguments, and may not get them.                       *)
LEMMA ReadArgumentsKeeps ==
  ASSUME PyInv, NEW t, ReadArguments(t)
  PROVE  Kept
<1>1. at = "args" /\ UNCHANGED cb /\ at \in MethodAt
  BY DEF ReadArguments, MethodAt
<1>2. CASE Fails({})
  BY <1>1, <1>2, MethodTable, FailsKeeps
<1>3. CASE /\ at' = "load" \/ (cb = "get_job_by_id" /\ at' = "error")
           /\ UNCHANGED <<ret, refs, over, err>>
  <2>1. /\ MethodFits(at, ret, cb) /\ refs = Owns(at, cb) \cup Held(ret) /\ over = FALSE
        /\ err = FALSE
    BY <1>1, MethodFacts
  <2>2. MethodFits(at', ret, cb) /\ at' \in MethodAt
    BY <1>1, <1>3, <2>1 DEF MethodFits, MethodAt, RequestAt, InitAt
  <2> QED
    BY Zenon, <1>1, <1>3, <2>1, <2>2, MethodTable, MethodOnKeeps
<1> QED
  BY <1>2, <1>3 DEF ReadArguments

(* A method of a running function has found its bundle.                      *)
LEMMA LoadKeeps ==
  ASSUME PyInv, NEW t, LoadBundleAndJobId(t), ret = CallStack
  PROVE  Kept
<1>1. at = "load" /\ UNCHANGED <<refs, over, err, cb>> /\ at \in MethodAt
  BY DEF LoadBundleAndJobId, MethodAt
<1>2. /\ MethodFits(at, ret, cb) /\ refs = Held(ret) /\ over = FALSE /\ err = FALSE
      /\ cb \in Methods /\ cb # "PyInit_bundledb"
  BY Zenon, <1>1, MethodFacts, MethodTable DEF MethodFits
<1>3. CASE cb = "get_job_by_id" /\ at' = "object" /\ UNCHANGED ret
  <2>1. MethodFits("object", ret, cb) /\ "object" \in MethodAt
    BY <1>2 DEF MethodFits, MethodAt, RequestAt, InitAt
  <2> QED
    BY Zenon, <1>1, <1>2, <1>3, <2>1, MethodTable, MethodOnKeeps
<1>4. CASE cb # "get_job_by_id" /\ Into("dumps", "dumped", "error")
  <2>1. at' = "dumps" /\ ret' = Push(Addresses("dumped", "error"), CallStack)
    BY <1>4 DEF Into, Push, Addresses
  <2>2. DumpsFits(ret', cb')
    BY <1>1, <1>2, <1>4, <2>1 DEF DumpsFits, Methods
  <2>3. Marks(ret') = {"dumped"} \cup Marks(CallStack)
    <3>1. "dumped" \in Points /\ "error" \in Points
      BY DEF Points, MethodAt, RequestAt
    <3> QED
      BY <2>1, <3>1, BaseStacks, CallFacts
  <2>4. Held(ret') = Held(ret)
    BY <2>3, BaseStacks DEF Held
  <2>5. Fits(at', ret', cb') /\ Mode(at', ret') = Mode(at, ret)
    BY Zenon, <1>1, <2>1, <2>2, <2>3, BaseStacks DEF Fits, DumpsAt, Mode, NewAt
  <2>6. refs' = Owns(at', cb') \cup {} \cup Held(ret')
    BY <1>1, <1>2, <2>1, <2>4, DumpsTable
  <2>7. {} \in SUBSET MayOwn(at')
    OBVIOUS
  <2>8. PyInv'
    BY Zenon, <1>1, <1>2, <2>1, <2>5, <2>6, <2>7, ToKeeps
  <2> QED
    BY <2>5, <2>8 DEF Kept
<1> QED
  BY <1>3, <1>4 DEF LoadBundleAndJobId

(* A method returns its object or NULL to Python.                            *)
LEMMA MethodReturnsKeeps ==
  ASSUME PyInv, NEW t, MethodReturns(t)
  PROVE  Kept
<1>1. /\ at \in {"done", "null"} /\ Back(TRUE) /\ err' = FALSE /\ cb' = "none"
      /\ Release(IF at = "done" THEN Returned ELSE {})
  BY Zenon DEF MethodReturns
<1>2. at \in MethodAt
  BY <1>1 DEF MethodAt
<1>3. /\ MethodFits(at, ret, cb) /\ refs = Owns(at, cb) \cup Held(ret) /\ over = FALSE
      /\ Owns(at, cb) \cap Held(ret) = {}
      /\ Owns(at, cb) = IF at = "done" THEN Returned ELSE {}
  BY <1>1, <1>2, MethodFacts, MethodTable
<1>4. refs' = Held(ret) /\ over' = FALSE
  <2>1. refs' = refs \ Owns(at, cb) /\ over' = (over \/ ~(Owns(at, cb) \subseteq refs))
    BY <1>1, <1>3 DEF Release
  <2> QED
    BY Zenon, <1>3, <2>1
<1>5. at' = Top(ret).ok /\ ret' = Below(ret)
  BY <1>1 DEF Back, Top, Below
<1>6. ret \in {CallStack, ImportStack}
  BY <1>3 DEF MethodFits
<1>7. /\ ret = CallStack => at' = "call" /\ ret' = RunStack
      /\ ret = ImportStack => at' = "import" /\ ret' = NewStack
  BY <1>5, BaseStacks
<1>8. Fits(at', ret', cb')
  BY <1>6, <1>7 DEF Fits, RunAt, NewAt
<1>9. Mode(at', ret') = Mode(at, ret)
  BY <1>1, <1>6, <1>7, BaseStacks DEF Mode, NewAt
<1>10. refs' = Owns(at', cb') \cup {} \cup Held(ret')
  <2>1. /\ Marks(RunStack) = {"result"} /\ Marks(CallStack) = {"call", "result"}
        /\ Marks(NewStack) = {"loaded"} /\ Marks(ImportStack) = {"import", "loaded"}
    BY BaseStacks
  <2>2. Held(RunStack) = {} /\ Held(NewStack) = {}
    BY <2>1 DEF Held
  <2>3. Held(CallStack) = Call /\ Held(ImportStack) = Globals
    BY <2>1 DEF Held
  <2>4. Owns("call", cb') = Call /\ Owns("import", cb') = Globals
    BY RunTable, NewTable
  <2> QED
    BY <1>4, <1>6, <1>7, <2>2, <2>3, <2>4
<1>11. {} \in SUBSET MayOwn(at')
  OBVIOUS
<1>12. PyInv'
  BY Zenon, <1>1, <1>4, <1>6, <1>7, <1>8, <1>10, <1>11, ToKeeps
<1> QED
  BY <1>9, <1>12 DEF Kept

(* run takes its ThreadBundleGuard.                                          *)
LEMMA GuardKeeps ==
  ASSUME PyInv, NEW t, Guard(t)
  PROVE  PyInv' /\ Mode(at, ret) = "run" /\ Mode(at', ret') = "function"
<1>1. at = "guard" /\ at' = "call" /\ UNCHANGED <<ret, refs, over, err, cb>>
  BY DEF Guard
<1>2. ret = RunStack /\ MayOwn(at) = {} /\ cb \in Methods \cup {"none"} /\ err = FALSE
  BY <1>1, FitsFacts, MayOwnTable DEF PyInv, RunAt, Points, PrintAt, Errors
<1>3. refs = Owns(at', cb') \cup {} \cup Held(ret) /\ over = FALSE
  BY <1>1, <1>2, RunTable DEF PyInv, Balanced, Owned
<1>4. Fits(at', ret', cb') /\ Mode(at, ret) = "run" /\ Mode(at', ret') = "function"
  BY <1>1, <1>2, BaseStacks DEF Fits, RunAt, Mode, NewAt
<1>5. {} \in SUBSET MayOwn(at')
  OBVIOUS
<1> QED
  BY Zenon, <1>1, <1>2, <1>3, <1>4, <1>5, ToKeeps

(* run releases the function and its arguments and returns.                  *)
LEMMA RunReturnsKeeps ==
  ASSUME PyInv, NEW t, RunReturns(t)
  PROVE  PyInv' /\ Mode(at, ret) = "function" /\ Mode(at', ret') = "run"
<1>1. at \in {"raised", "returned"} /\ UNCHANGED <<cb, err>>
  BY Zenon DEF RunReturns, Leave
<1>2. /\ Fits(at, ret, cb) /\ ret = RunStack /\ MayOwn(at) = {} /\ err = FALSE /\ at \in Plain
      /\ err \in BOOLEAN /\ ~err
  BY <1>1, FitsFacts, MayOwnTable DEF PyInv, RunAt, Points, PrintAt, Errors, Plain
<1>3. Mode(at, ret) = "function" /\ Mode("result", Bottom) = "run" /\ Mode("end", Bottom) = "run"
  BY <1>1, <1>2, BaseStacks DEF Mode, NewAt
<1>4. Top(ret).ok = "result" /\ Top(ret).null = "end" /\ Below(ret) = Bottom
  BY <1>2, BaseStacks
<1>5. ASSUME NEW R, R = Owns(at, cb), Release(R), Back(FALSE)
      PROVE  PyInv' /\ Mode(at', ret') = "run"
  <2>1. PyInv'
    BY Zenon, <1>1, <1>2, <1>5, NullKeeps
  <2>2. at' = "end" /\ ret' = Bottom
    BY <1>4, <1>5 DEF Back, Top, Below
  <2> QED
    BY <1>3, <2>1, <2>2
<1>6. CASE Leave("raised", Call, FALSE)
  BY Zenon, <1>3, <1>5, <1>6, RunTable DEF Leave
<1>7. CASE Leave("returned", Call \cup {"p_result"}, FALSE)
  BY Zenon, <1>3, <1>5, <1>7, RunTable DEF Leave
<1>8. CASE Leave("returned", Call, TRUE)
  <2>1. at = "returned" /\ Release(Call) /\ Back(TRUE)
    BY Zenon, <1>8 DEF Leave
  <2>2. refs = Call \cup {"p_result"} /\ over = FALSE
    BY <1>2, <2>1, RunTable, BaseStacks DEF PyInv, Balanced, Owned, Held
  <2>3. refs' = {"p_result"} /\ over' = FALSE
    BY Zenon, <2>1, <2>2 DEF Release, Call
  <2>4. Fits("result", Bottom, cb)
    BY DEF Fits, CallerAt
  <2>5. refs' = Owns("result", cb) \cup Held(Bottom)
    BY <2>3, BaseStacks, CallerTable DEF Held
  <2>6. PyInv'
    BY Zenon, <1>1, <1>2, <1>4, <2>1, <2>3, <2>4, <2>5, OkKeeps
  <2>7. at' = "result" /\ ret' = Bottom
    BY <1>4, <2>1 DEF Back, Top, Below
  <2> QED
    BY <1>3, <2>6, <2>7
<1> QED
  BY Zenon, <1>6, <1>7, <1>8 DEF RunReturns

=============================================================================
