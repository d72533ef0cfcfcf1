------------------------------- MODULE Driver -------------------------------
(***************************************************************************)
(* Runs of the compiler: src/lib.rs `run` and `emit` around src/driver.rs  *)
(* `build`.  Several runs go at once, on one file system.  Any call of the *)
(* file system and any run of clang may fail, and a process may be killed. *)
(* What a file holds is kept as what it is and which C file it came from.  *)
(*                                                                         *)
(* No file is written in one step.  fs::write truncates it and then        *)
(* writes, and clang works on its output from its start to its end; until  *)
(* then the file is Partial.  Two that have one file open may write over   *)
(* each other, and what is left may be either's or a mix, Partial too.  A  *)
(* signal may fall in between, and a clang may outlive the run that        *)
(* started it.                                                             *)
(***************************************************************************)
EXTENDS Integers, FiniteSets

CONSTANTS
  Runs,
  Invocations,  \* the command lines a run may have been given
  Inputs,       \* the C files there are
  Paths,        \* every file outside the workspaces that a run may touch
  process,      \* the process that makes each run
  Nanos,        \* readings of the clock
  None, Partial

FrontEnd == {"Tokens", "Ast", "Check", "Annotations"}
Stages   == FrontEnd \cup {"Assembly", "Object", "Executable"}
Failures == {"Read", "Rejected", "ToolchainMissing", "File", "Toolchain"}
Ended    == {"returned", "killed"}

default_output(input, extension) ==
  [dir |-> <<"working directory">>, stem |-> input.stem, ext |-> extension]

Extension == [Assembly |-> "s", Object |-> "o", Executable |-> ""]

ASSUME DriverAssumption ==
  /\ Inputs \subseteq Paths
  /\ \A o \in Invocations :
       /\ o.stage \in Stages /\ o.input \in Paths
       /\ o.output \in Paths \cup {None} /\ o.emit_asm_to \in Paths \cup {None}
       /\ o.stage \notin FrontEnd => default_output(o.input, Extension[o.stage]) \in Paths

VARIABLES
  options,    \* each run's command line
  pc,         \* the call each run makes next, or is in
  result,     \* what each run returns
  source,     \* what each run read
  workspace,  \* the scratch directory of each run
  untidy,     \* runs whose directory could not be removed
  writing,    \* the file each run, or the clang it started, has open to write
  files,      \* what each file holds
  temp        \* the scratch directories there are

vars == <<options, pc, result, source, workspace, untidy, writing, files, temp>>

(* The two files of a scratch directory. *)
Directories == {process[r] : r \in Runs} \X Nanos
Temporary(d, extension) == [dir |-> d, stem |-> "program", ext |-> extension]
Inside(d) == {Temporary(d, "s"), Temporary(d, "o")}
Temporaries == UNION {Inside(d) : d \in Directories}

(* A whole file is of the input it came from, or of a torn text.           *)
Kinds   == {"C", "assembly", "object", "executable"}
Content == [is : Kinds, of : Inputs \cup {Partial}] \cup {None, Partial}
As(kind, content) ==
  [is |-> kind, of |-> IF content \in {None, Partial} THEN Partial ELSE content.of]
IsA(kind, content) == content \in Content \ {None, Partial} /\ content.is = kind

(* A file cut short may still be read for what it was to be. *)
MayBe(kind, content) == content = Partial \/ IsA(kind, content)

(* None and Partial are nothing else: no result, content or path.          *)
ASSUME NothingElseAssumption ==
  /\ None # Partial
  /\ None \notin Failures \cup {"Ok"}
  /\ \A kind \in Kinds, input \in Inputs \cup {Partial} : [is |-> kind, of |-> input] \notin {None, Partial}
  /\ \A d \in Directories : d # None
  /\ None \notin Temporaries /\ Paths \cap (Temporaries \cup {None}) = {}
  /\ \A w \in [from : Temporaries \cup {None}, given : Content, kind : Kinds,
               to : Paths \cup Temporaries, shared : BOOLEAN] : w # None
-----------------------------------------------------------------------------
output(r) ==
  IF options[r].output # None THEN options[r].output
  ELSE default_output(options[r].input, Extension[options[r].stage])

Go(r, call) == pc' = [pc EXCEPT ![r] = call]

(* An error on the way out drops the workspace, if there is one by then.   *)
(* Faults: only a success drops it; a clang that failed is tried again.    *)
DropOnSuccess(r, failure) == "returned"
TryAgain(r, failure) ==
  IF workspace[r] = None THEN "returned" ELSE IF failure = "Toolchain" THEN "write source" ELSE "drop"
OnError(r, failure) == IF workspace[r] = None THEN "returned" ELSE "drop"

(* A fault: the error is passed over. *)
PassOver(r, failure) ==
  /\ result' = [result EXCEPT ![r] = "Ok"]
  /\ Go(r, OnError(r, failure))
  /\ UNCHANGED <<options, source, workspace, untidy>>

Fail(r, failure) ==
  /\ result' = [result EXCEPT ![r] = failure]
  /\ Go(r, OnError(r, failure))
  /\ UNCHANGED <<options, source, workspace, untidy>>

Succeed(r, call) ==
  /\ result' = [result EXCEPT ![r] = "Ok"]
  /\ Go(r, call)
  /\ UNCHANGED <<options, source, workspace, untidy>>

Proceed(r, call) == Go(r, call) /\ UNCHANGED <<options, result, source, workspace, untidy>>
-----------------------------------------------------------------------------
(* Reading and writing, from the opening of a file to its closing.         *)
Has(r, path) == writing[r] # None /\ writing[r].to = path
Reachable(path) == path \in Paths \/ path.dir \in temp

(* What reading a file gives, which held `before` when it was opened.      *)
Seen(path, before) ==
  IF files[path] = before /\ \A q \in Runs : ~Has(q, path) THEN {before}
  ELSE ({before, files[path]} \ {None}) \cup {Partial}

(* r opens `to`, for what is to become of what it was given: its source,   *)
(* or, by clang, a file.                                                   *)
Open(r, from, given, kind, to) ==
  writing' = [q \in Runs |->
    IF q = r THEN [from |-> from, given |-> given, kind |-> kind, to |-> to,
                   shared |-> \E o \in Runs \ {r} : Has(o, to)]
    ELSE IF Has(q, to) THEN [writing[q] EXCEPT !.shared = TRUE]
    ELSE writing[q]]

MadeFrom == [assembly |-> "C", object |-> "assembly", executable |-> "object"]

(* The end of a write that got through.                                    *)
Close(r) ==
  LET w == writing[r]
  IN  /\ w # None
      /\ writing' = [writing EXCEPT ![r] = None]
      /\ \E given \in (IF w.from = None THEN {w.given} ELSE Seen(w.from, w.given)) :
           /\ MayBe(MadeFrom[w.kind], given)
           /\ \E content \in {As(w.kind, given)} \cup (IF w.shared THEN {Partial, files[w.to]} ELSE {}) :
                files' = IF Reachable(w.to) THEN [files EXCEPT ![w.to] = content] ELSE files

(* The end of one that did not; clang may take away what it has written.   *)
Cut(r) ==
  LET w == writing[r]
  IN  /\ w # None
      /\ writing' = [writing EXCEPT ![r] = None]
      /\ \E content \in {Partial, files[w.to]} \cup (IF w.from = None THEN {} ELSE {None}) :
           files' = IF Reachable(w.to) THEN [files EXCEPT ![w.to] = content] ELSE files

(* fs::write begins: it can refuse, or the file is empty. *)
create(r, path, call) ==
  /\ \/ /\ Reachable(path)
        /\ files' = [files EXCEPT ![path] = Partial]
        /\ Open(r, None, source[r], "assembly", path)
        /\ Proceed(r, call)
     \/ Fail(r, "File") /\ UNCHANGED <<writing, files>>
  /\ UNCHANGED temp

(* A clang begins: it cannot be run, or it comes to its output.            *)
start(r, from, kind, to, call) ==
  /\ \/ /\ files' \in {files} \cup {[files EXCEPT ![path] = Partial] : path \in {p \in {to} : Reachable(p)}}
        /\ Open(r, from, files[from], kind, to)
        /\ Proceed(r, call)
     \/ Fail(r, "ToolchainMissing") /\ UNCHANGED <<writing, files>>
  /\ UNCHANGED temp
-----------------------------------------------------------------------------
Init ==
  /\ options \in [Runs -> Invocations]
  /\ pc = [r \in Runs |-> "read"]
  /\ result = [r \in Runs |-> None]
  /\ source = [r \in Runs |-> None]
  /\ workspace = [r \in Runs |-> None]
  /\ untidy = {}
  /\ writing = [r \in Runs |-> None]
  /\ files = [p \in Paths \cup Temporaries |-> IF p \in Inputs THEN [is |-> "C", of |-> p] ELSE None]
  /\ temp = {}

(* fs::read opens the file, and reads it to its end. *)
read(r) ==
  /\ pc[r] = "read"
  /\ \/ /\ files[options[r].input] # None
        /\ source' = [source EXCEPT ![r] = files[options[r].input]]
        /\ Go(r, "reading") /\ UNCHANGED <<options, result, workspace, untidy>>
     \/ Fail(r, "Read")
  /\ UNCHANGED <<writing, files, temp>>

read_to_end(r) ==
  /\ pc[r] = "reading"
  /\ \/ /\ \E text \in Seen(options[r].input, source[r]) : source' = [source EXCEPT ![r] = text]
        /\ Go(r, "compile") /\ UNCHANGED <<options, result, workspace, untidy>>
     \/ Fail(r, "Read")
  /\ UNCHANGED <<writing, files, temp>>

(* The pure pipeline: rejected by the diagnostics of some pass, or done up *)
(* to the stage asked for.                                                 *)
compile(r) ==
  /\ pc[r] = "compile"
  /\ \/ Fail(r, "Rejected")
     \/ /\ MayBe("C", source[r])
        /\ \/ options[r].stage \in FrontEnd /\ Succeed(r, "returned")
           \/ options[r].stage \notin FrontEnd /\ Proceed(r, "emit")
  /\ UNCHANGED <<writing, files, temp>>

AfterAssembly(r) == IF options[r].stage = "Assembly" THEN "write assembly" ELSE "preflight"

emit(r) ==
  /\ pc[r] = "emit"
  /\ \/ options[r].emit_asm_to = None /\ Proceed(r, AfterAssembly(r)) /\ UNCHANGED <<writing, files, temp>>
     \/ options[r].emit_asm_to # None /\ create(r, options[r].emit_asm_to, "emitting")

write_assembly(r) == pc[r] = "write assembly" /\ create(r, output(r), "writing assembly")

(* fs::write ends. *)
write(r) ==
  /\ pc[r] \in {"emitting", "writing assembly", "writing source"}
  /\ \/ /\ Close(r)
        /\ \/ pc[r] = "emitting" /\ Proceed(r, AfterAssembly(r))
           \/ pc[r] = "writing assembly" /\ Succeed(r, "returned")
           \/ pc[r] = "writing source" /\ Proceed(r, "assemble")
     \/ Cut(r) /\ Fail(r, "File")
  /\ UNCHANGED temp

preflight(r) ==
  /\ pc[r] = "preflight"
  /\ Proceed(r, "new workspace") \/ Fail(r, "ToolchainMissing")
  /\ UNCHANGED <<writing, files, temp>>

(* Workspace::new.  The name is of the process and the clock; a directory  *)
(* already there is taken as it is.  A fault: the name is the clock alone. *)
SharedName(r, nanos) == <<process[CHOOSE q \in Runs : TRUE], nanos>>
Name(r, nanos) == <<process[r], nanos>>

new_workspace(r) ==
  /\ pc[r] = "new workspace"
  /\ \/ \E nanos \in Nanos :
          /\ temp' = temp \cup {Name(r, nanos)}
          /\ workspace' = [workspace EXCEPT ![r] = Name(r, nanos)]
          /\ Go(r, "write source") /\ UNCHANGED <<options, result, source, untidy>>
     \/ Fail(r, "File") /\ UNCHANGED temp
  /\ UNCHANGED <<writing, files>>

write_source(r) ==
  pc[r] = "write source" /\ create(r, Temporary(workspace[r], "s"), "writing source")

Assembled(r) == IF options[r].stage = "Object" THEN output(r) ELSE Temporary(workspace[r], "o")

assemble(r) ==
  pc[r] = "assemble" /\ start(r, Temporary(workspace[r], "s"), "object", Assembled(r), "assembling")

link(r) ==
  pc[r] = "link" /\ start(r, Temporary(workspace[r], "o"), "executable", output(r), "linking")

(* A clang is over, and has failed if its status says so. *)
run(r) ==
  /\ pc[r] \in {"assembling", "linking"}
  /\ \/ /\ Close(r)
        /\ \/ pc[r] = "assembling" /\ options[r].stage = "Executable" /\ Proceed(r, "link")
           \/ (pc[r] = "linking" \/ options[r].stage = "Object") /\ Succeed(r, "drop")
     \/ (Close(r) \/ Cut(r)) /\ Fail(r, "Toolchain")
  /\ UNCHANGED temp

(* Drop for Workspace: remove it, a file at a time, unless it is to be     *)
(* kept, and let a failure to remove it pass.  A fault: it goes whatever   *)
(* was asked.                                                              *)
KeepsNone(r) == FALSE
Keeps(r) == options[r].keep_temps

drop(r) ==
  /\ pc[r] = "drop"
  /\ \/ Keeps(r) /\ Go(r, "returned") /\ UNCHANGED <<untidy, files, temp>>
     \/ /\ ~Keeps(r)
        /\ \E path \in Inside(workspace[r]) : files[path] # None /\ files' = [files EXCEPT ![path] = None]
        /\ UNCHANGED <<pc, untidy, temp>>
     \/ /\ ~Keeps(r) /\ \A path \in Inside(workspace[r]) : files[path] = None
        /\ temp' = temp \ {workspace[r]}
        /\ Go(r, "returned") /\ UNCHANGED <<untidy, files>>
     \/ ~Keeps(r) /\ untidy' = untidy \cup {r} /\ Go(r, "returned") /\ UNCHANGED <<files, temp>>
  /\ UNCHANGED <<options, result, source, workspace, writing>>

Step(r) ==
  \/ read(r) \/ read_to_end(r) \/ compile(r) \/ emit(r) \/ write_assembly(r) \/ write(r)
  \/ preflight(r) \/ new_workspace(r) \/ write_source(r) \/ assemble(r) \/ link(r) \/ run(r)
  \/ drop(r)

(* A signal ends a process with all its runs, and no destructor is called. *)
(* What it was writing stays as it is, if need be after another piece; a   *)
(* clang it started dies with it, or goes on.                              *)
kill(p) ==
  LET dying == {r \in Runs : process[r] = p /\ pc[r] \notin Ended}
      busy  == {r \in dying : writing[r] # None}
  IN  /\ dying # {}
      /\ pc' = [r \in Runs |-> IF r \in dying THEN "killed" ELSE pc[r]]
      /\ \E orphans \in SUBSET {r \in busy : writing[r].from # None} :
           /\ writing' = [r \in Runs |-> IF r \in dying \ orphans THEN None ELSE writing[r]]
           /\ \E torn \in SUBSET {writing[r].to : r \in busy \ orphans} :
                files' = [path \in DOMAIN files |->
                            IF path \in torn /\ Reachable(path) THEN Partial ELSE files[path]]
      /\ UNCHANGED <<options, result, source, workspace, untidy, temp>>

(* The clang of a run that was killed comes to its end. *)
orphan(r) ==
  /\ pc[r] = "killed"
  /\ Close(r) \/ Cut(r)
  /\ UNCHANGED <<options, pc, result, source, workspace, untidy, temp>>

Next == \E r \in Runs : Step(r) \/ kill(process[r]) \/ orphan(r)

(* Nothing stops a run but a signal, and no signal need come. *)
Spec == Init /\ [][Next]_vars /\ \A r \in Runs : WF_vars(Step(r))
-----------------------------------------------------------------------------
TypeOK ==
  /\ result \in [Runs -> Failures \cup {"Ok", None}]
  /\ source \in [Runs -> Content] /\ files \in [Paths \cup Temporaries -> Content]
  /\ untidy \subseteq Runs /\ temp \subseteq Directories
  /\ \A r \in Runs : pc[r] \in {"emitting", "writing assembly", "writing source", "assembling", "linking"}
                       => writing[r] # None
  /\ \A r \in Runs : pc[r] \in {"write source", "assemble", "link", "drop"} => workspace[r] # None
  /\ \A r \in Runs : pc[r] = "returned" => result[r] # None /\ writing[r] = None

(* The files a run is to leave, and what it may leave in them: of the one  *)
(* that is both its output and its --emit-asm-to, the output comes last.   *)
Product == [Assembly |-> "assembly", Object |-> "object", Executable |-> "executable"]
Targets(r) ==
  IF options[r].stage \in FrontEnd THEN {} ELSE {output(r), options[r].emit_asm_to} \ {None}
Final(r, p) ==
  As(IF p = output(r) THEN Product[options[r].stage] ELSE "assembly", source[r])
Yields(r, p) == {Final(r, p)} \cup (IF p = options[r].emit_asm_to THEN {As("assembly", source[r])} ELSE {})

(* Files change only as asked: a step that changes a file begins or ends   *)
(* a write of a run that got past its front end and names the file as its  *)
(* output or its --emit-asm-to.  What the end of the write leaves is the   *)
(* translation of what that run itself read, unless another run had the    *)
(* file open as well, or the run reports a failure or was killed.          *)
Interrupted(r) == result[r] \in Failures \/ pc[r] = "killed"
OwnTranslation ==
  [][\A p \in Paths : files'[p] # files[p] =>
       \E r \in Runs :
         /\ p \in Targets(r)
         /\ \/ ~Has(r, p) /\ Has(r, p)' /\ files'[p] = Partial
            \/ /\ Has(r, p) /\ writing'[r] = None
               /\ \/ files'[p] \in Yields(r, p)
                  \/ files'[p] = Partial /\ writing[r].shared
                  \/ files'[p] \in {Partial, None} /\ Interrupted(r)']_vars

(* Success is not reported of a file that is cut short or missing: what a  *)
(* run that returns Ok was to leave is there, whole, and its own, unless   *)
(* another run was told to write that file as well.                        *)
Rivals(r, p) == \E q \in Runs \ {r} : p \in Targets(q)
OkIsWhole ==
  \A r \in Runs : \A p \in Targets(r) :
    result[r] = "Ok" /\ ~Rivals(r, p) => files[p] = Final(r, p)

(* No damage goes unseen: a file that is cut short or mixed is being       *)
(* written, or its run failed and said so or was killed, or two runs were  *)
(* told to write it.                                                       *)
Explains(r, p) == p \in Targets(r) /\ (Has(r, p) \/ Interrupted(r) \/ Rivals(r, p))
DamageIsExplained ==
  \A p \in Paths : files[p] = Partial => \E r \in Runs : Explains(r, p)

OutputsAreWhole == OkIsWhole /\ DamageIsExplained

(* A scratch directory is there only while its run goes on, or was to be   *)
(* kept, or could not be removed, or lost its process to a signal.         *)
NothingLeftBehind ==
  \A d \in temp :
    \E r \in Runs : /\ workspace[r] = d
                    /\ pc[r] # "returned" \/ options[r].keep_temps \/ r \in untidy

(* What --keep-temps promises: when the run is over the directory is       *)
(* there, and what is in it is that run's.                                 *)
KeptIsThere ==
  \A r \in Runs :
    options[r].keep_temps /\ pc[r] = "returned" /\ workspace[r] # None =>
      LET kept == files[Temporary(workspace[r], "s")]
      IN  /\ workspace[r] \in temp
          /\ kept \in {None, Partial, As("assembly", source[r])}
          /\ result[r] # "File" => IsA("assembly", kept)

(* The scratch directory goes or stays as asked, on every way out. *)
WorkspaceGoesOrStays == NothingLeftBehind /\ KeptIsThere

(* Every run returns, unless its process is killed. *)
EveryRunEnds == \A r \in Runs : <>(pc[r] \in Ended)

(* Claims of the documentation. *)
TempPathsAreUnique ==
  \A r, q \in Runs :
    r # q /\ pc[r] \notin Ended /\ pc[q] \notin Ended /\ workspace[r] # None
      => workspace[r] # workspace[q]

CompilationsDoNotCollide ==
  (\A r \in Runs : pc[r] = "returned" /\ result[r] = "Ok")
    => \A r \in Runs : \A p \in Targets(r) : files[p] # Partial

RemovedHoweverTheRunEnds ==
  \A r \in Runs : pc[r] \in Ended /\ ~options[r].keep_temps /\ r \notin untidy
                    /\ workspace[r] # None => workspace[r] \notin temp

OutputIsBesideTheInput ==
  \A r \in Runs : options[r].output = None /\ options[r].stage \notin FrontEnd /\ result[r] = "Ok"
    => files[[options[r].input EXCEPT !.ext = Extension[options[r].stage]]] # None
=============================================================================
