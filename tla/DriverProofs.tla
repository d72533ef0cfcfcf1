----------------------------- MODULE DriverProofs -----------------------------
(***************************************************************************)
(* What holds of any number of runs at once, each a process of its own,    *)
(* with any inputs, command lines and readings of the clock, whichever     *)
(* calls fail, whichever process is killed, and however the writes of one  *)
(* run fall between those of another.                                      *)
(*                                                                         *)
(* The argument.  The name of a directory bears the process that made it   *)
(* (OwnName), so a run's directory is its own, and so is what is in it: no *)
(* other run has a file there open (OwnFile).  Hence what clang reads      *)
(* there is what its run wrote, whole (OwnDirectory), and it does not      *)
(* change while clang reads it (CloseLeaves).  A file outside is opened    *)
(* only by a run that was told to write it, for what is made of its own    *)
(* source, and if two have it open, two were told to (Proper).  So the end *)
(* of a write leaves the translation of the run's own source, or the file  *)
(* was shared and is rivalled, or the run fails.  A step of a run changes  *)
(* only that run's state, the files it was told to write and its own       *)
(* directory (LeavesOthersAlone), which is why all of this survives the    *)
(* steps of the others (OthersStay).                                       *)
(***************************************************************************)
EXTENDS Driver, TLAPS

(* Each compiler is a process of its own. *)
OneRunEach == \A r, q \in Runs : process[r] = process[q] => r = q

Everywhere == Paths \cup Temporaries
Writes == [from : Temporaries \cup {None}, given : Content, kind : {"assembly", "object", "executable"},
           to : Everywhere, shared : BOOLEAN]

Unprepared == {"read", "reading", "compile"}
Undirected == Unprepared \cup {"emit", "emitting", "write assembly", "writing assembly", "preflight",
                               "new workspace"}
Building   == {"write source", "writing source", "assemble", "assembling", "link", "linking"}
Directed   == Building \cup {"drop"}
Writing    == {"emitting", "writing assembly", "writing source", "assembling", "linking"}
Emitted    == {"write assembly", "writing assembly", "preflight", "new workspace"} \cup Building

Types ==
  /\ options \in [Runs -> Invocations]
  /\ pc \in [Runs -> Undirected \cup Directed \cup Ended]
  /\ result \in [Runs -> Failures \cup {"Ok", None}]
  /\ source \in [Runs -> Content]
  /\ workspace \in [Runs -> Directories \cup {None}]
  /\ untidy \subseteq Runs
  /\ writing \in [Runs -> Writes \cup {None}]
  /\ files \in [Everywhere -> Content]
  /\ temp \subseteq Directories

(* The name of a run's directory is its own. *)
OwnName(r) == workspace[r] # None => workspace[r][1] = process[r]

(* What a run has read and was asked, by the call it makes. *)
Asked(r) ==
  /\ pc[r] \in (Undirected \cup Directed) \ Unprepared =>
       MayBe("C", source[r]) /\ options[r].stage \notin FrontEnd
  /\ pc[r] = "emitting" => options[r].emit_asm_to # None
  /\ pc[r] \in {"write assembly", "writing assembly"} => options[r].stage = "Assembly"
  /\ pc[r] \in {"link", "linking"} => options[r].stage = "Executable"

(* What a run, or its clang, may have open: a file it was told to write or *)
(* one of its directory, to make there what is made of its own source; a   *)
(* file it shares has another run that was told to write it.               *)
Proper(r, w) ==
  /\ w.to \in Targets(r) \/ (workspace[r] # None /\ w.to \in Inside(workspace[r]))
  /\ w.shared => w.to \in Targets(r) /\ Rivals(r, w.to)
  /\ MayBe(MadeFrom[w.kind], w.given) /\ As(w.kind, w.given) = As(w.kind, source[r])
  /\ w.to \in Targets(r) => As(w.kind, source[r]) \in Yields(r, w.to)
  /\ w.from # None =>
       /\ workspace[r] # None /\ w.from \in Inside(workspace[r]) /\ w.from # w.to
       /\ files[w.from] = w.given

OwnWrite(r) ==
  /\ pc[r] \in Writing => writing[r] # None
  /\ pc[r] \notin Writing \cup {"killed"} => writing[r] = None
  /\ writing[r] # None => Proper(r, writing[r])
  /\ pc[r] = "emitting" => writing[r].to = options[r].emit_asm_to /\ writing[r].kind = "assembly"
  /\ pc[r] = "writing assembly" => writing[r].to = output(r) /\ writing[r].kind = "assembly"
  /\ pc[r] = "writing source" =>
       /\ writing[r].to = Temporary(workspace[r], "s") /\ writing[r].kind = "assembly"
       /\ writing[r].from = None
  /\ pc[r] = "assembling" => writing[r].to = Assembled(r) /\ writing[r].kind = "object"
  /\ pc[r] = "linking" => writing[r].to = output(r) /\ writing[r].kind = "executable"

(* Whether it has a directory, and what is in it. *)
OwnDirectory(r) ==
  LET assembly == files[Temporary(workspace[r], "s")]
      object   == files[Temporary(workspace[r], "o")]
  IN  /\ pc[r] \in Undirected => workspace[r] = None
      /\ pc[r] \in Directed => workspace[r] # None /\ workspace[r] \in temp
      /\ pc[r] = "write source" => assembly = None
      /\ pc[r] = "writing source" => assembly = Partial
      /\ pc[r] \in {"assemble", "assembling", "link", "linking"} => assembly = As("assembly", source[r])
      /\ pc[r] \in {"link", "linking"} => object = As("object", source[r])
      /\ options[r].keep_temps /\ (pc[r] = "drop" \/ (pc[r] = "returned" /\ workspace[r] # None)) =>
           /\ workspace[r] \in temp
           /\ assembly \in {None, Partial, As("assembly", source[r])}
           /\ result[r] # "File" => assembly = As("assembly", source[r])

(* What a run is done with is there, whole, if no other run writes it. *)
Whole(r) ==
  /\ result[r] # None => pc[r] \in {"drop"} \cup Ended /\ writing[r] = None
  /\ pc[r] \in Emitted =>
       LET p == options[r].emit_asm_to
       IN  p # None /\ p # output(r) /\ ~Rivals(r, p) => files[p] = As("assembly", source[r])
  /\ result[r] = "Ok" => \A p \in Targets(r) : ~Rivals(r, p) => files[p] = Final(r, p)

(* Nothing is left behind, directory by directory: each is of some run,    *)
(* and a run that is over has kept it or could not remove it; and a file   *)
(* is only where its directory is.                                         *)
Owned == \A d \in temp : \E r \in Runs : workspace[r] = d
Housed == \A d \in Directories \ temp : \A path \in Inside(d) : files[path] = None
GoneOrKept(r) ==
  workspace[r] # None /\ workspace[r] \in temp =>
    pc[r] # "returned" \/ options[r].keep_temps \/ r \in untidy

OfRun(r) == OwnName(r) /\ Asked(r) /\ OwnWrite(r) /\ OwnDirectory(r) /\ Whole(r) /\ GoneOrKept(r)
IInv == Types /\ Owned /\ Housed /\ DamageIsExplained /\ \A r \in Runs : OfRun(r)

-----------------------------------------------------------------------------
(* What one kind of file becomes as the next. *)
LEMMA Translated ==
  ASSUME NEW content \in Content, NEW kind \in Kinds
  PROVE  /\ As(kind, content) \in Content \ {None, Partial}
         /\ IsA(kind, As(kind, content)) /\ MayBe(kind, As(kind, content))
         /\ \A next \in Kinds : As(next, As(kind, content)) = As(next, content)
<1> DEFINE of == IF content \in {None, Partial} THEN Partial ELSE content.of
<1>1. of \in Inputs \cup {Partial}
  BY DEF Content
<1>2. As(kind, content) = [is |-> kind, of |-> of]
  BY DEF As
<1> HIDE DEF of
<1>3. As(kind, content) \in Content /\ As(kind, content) \notin {None, Partial}
  BY <1>1, <1>2, NothingElseAssumption DEF Content
<1>4. As(kind, content).is = kind /\ As(kind, content).of = of
  BY <1>2
<1>5. \A next \in Kinds : As(next, As(kind, content)) = [is |-> next, of |-> of]
  BY <1>3, <1>4 DEF As
<1>6. \A next \in Kinds : As(next, content) = [is |-> next, of |-> of]
  BY DEF As, of
<1> QED
  BY <1>3, <1>4, <1>5, <1>6 DEF IsA, MayBe

(* The files of a directory are in no other, and not outside.              *)
LEMMA InsideIsApart ==
  ASSUME NEW d \in Directories
  PROVE  /\ Inside(d) = {Temporary(d, "s"), Temporary(d, "o")}
         /\ Temporary(d, "s") # Temporary(d, "o")
         /\ Inside(d) \subseteq Temporaries /\ Inside(d) \subseteq Everywhere
         /\ \A path \in Inside(d) : /\ path \notin Paths /\ path # None
                                    /\ Reachable(path) <=> d \in temp
         /\ \A e \in Directories \ {d} : Inside(d) \cap Inside(e) = {}
<1>1. Inside(d) = {Temporary(d, "s"), Temporary(d, "o")}
  BY DEF Inside
<1>2. Temporary(d, "s") # Temporary(d, "o")
  BY DEF Temporary
<1>3. Inside(d) \subseteq Temporaries
  BY DEF Temporaries
<1>4. \A path \in Inside(d) : path \notin Paths /\ path # None
  BY <1>3, NothingElseAssumption
<1>5. \A path \in Inside(d) : path.dir = d
  BY DEF Inside, Temporary
<1>6. \A e \in Directories \ {d} : \A path \in Inside(e) : path.dir = e
  BY DEF Inside, Temporary
<1> QED
  BY <1>1, <1>2, <1>3, <1>4, <1>5, <1>6 DEF Everywhere, Reachable

(* The files a run is to leave. *)
LEMMA OfTargets ==
  ASSUME Types, NEW r \in Runs
  PROVE  /\ Targets(r) \subseteq Paths
         /\ options[r].stage \notin FrontEnd =>
              /\ output(r) \in Targets(r)
              /\ options[r].emit_asm_to # None => options[r].emit_asm_to \in Targets(r)
         /\ \A p \in Targets(r) : p # output(r) => p = options[r].emit_asm_to
         /\ options[r].stage \in FrontEnd => Targets(r) = {}
         /\ Final(r, output(r)) = As(Product[options[r].stage], source[r])
         /\ \A p : p # output(r) => Final(r, p) = As("assembly", source[r])
         /\ \A p : Final(r, p) \in Yields(r, p)
         /\ As("assembly", source[r]) \in Yields(r, options[r].emit_asm_to)
<1>1. options[r] \in Invocations
  BY DEF Types
<1>2. options[r].output # None => options[r].output \in Paths
  BY <1>1, DriverAssumption
<1>3. options[r].emit_asm_to # None => options[r].emit_asm_to \in Paths
  BY <1>1, DriverAssumption
<1>4. options[r].stage \notin FrontEnd => output(r) \in Paths
  BY <1>1, <1>2, DriverAssumption DEF output
<1>5. None \notin Paths
  BY NothingElseAssumption
<1> QED
  BY <1>3, <1>4, <1>5 DEF Targets, Final, Yields

(* What a step that leaves the command lines and r's source alone leaves.  *)
LEMMA TargetsStay ==
  ASSUME NEW r \in Runs, options' = options, source'[r] = source[r]
  PROVE  /\ Targets(r)' = Targets(r) /\ output(r)' = output(r)
         /\ \A p : (Rivals(r, p)' <=> Rivals(r, p)) /\ Final(r, p)' = Final(r, p) /\ Yields(r, p)' = Yields(r, p)
<1>1. \A q : Targets(q)' = Targets(q) /\ output(q)' = output(q)
  BY DEF Targets, output
<1> QED
  BY <1>1 DEF Rivals, Final, Yields

-----------------------------------------------------------------------------
(* What a step of r may change. *)
LeavesOthersAlone(r) ==
  /\ options' = options
  /\ \A q \in Runs \ {r} :
       /\ pc'[q] = pc[q] /\ result'[q] = result[q] /\ source'[q] = source[q]
       /\ workspace'[q] = workspace[q] /\ (q \in untidy' <=> q \in untidy)
       /\ \/ writing'[q] = writing[q]
          \/ /\ writing[q] # None /\ writing[q].to \in Targets(r)
             /\ writing'[q] = [writing[q] EXCEPT !.shared = TRUE]
  /\ workspace[r] # None => workspace'[r] = workspace[r]
  /\ \A d \in Directories : d # workspace'[r] => (d \in temp' <=> d \in temp)
  /\ \A path \in Everywhere : files'[path] # files[path] =>
       path \in Targets(r) \/ (workspace'[r] # None /\ path \in Inside(workspace'[r]))

(* What it may leave in the files outside. *)
Leaves(r) ==
  \A p \in Paths :
    /\ files'[p] # files[p] => p \in Targets(r) /\ (Has(r, p) \/ Has(r, p)')
    /\ Has(r, p) /\ Has(r, p)' => files'[p] = files[p]
    /\ ~Has(r, p) /\ Has(r, p)' => p \in Targets(r) /\ files'[p] \in {Partial, files[p]}
    /\ Has(r, p) /\ ~Has(r, p)' =>
         /\ writing'[r] = None
         /\ \/ files'[p] \in Yields(r, p)
            \/ files'[p] \in {Partial, files[p]} /\ writing[r].shared
            \/ files'[p] \in {Partial, None, files[p]} /\ Interrupted(r)'

Good(r) ==
  /\ Types' /\ LeavesOthersAlone(r) /\ OfRun(r)' /\ Housed' /\ Leaves(r)
  /\ Interrupted(r) => Interrupted(r)'

LEMMA NotYetOver ==
  ASSUME IInv, NEW r \in Runs, pc[r] \notin {"drop"} \cup Ended
  PROVE  result[r] = None /\ ~Interrupted(r)
<1>1. result[r] = None
  BY DEF IInv, OfRun, Whole
<1> QED
  BY <1>1, NothingElseAssumption DEF Interrupted, Ended

(* A step that leaves all files alone. *)
LEMMA QuietStep ==
  ASSUME IInv, NEW r \in Runs, UNCHANGED <<options, workspace, untidy, writing, files, temp>>,
         NEW call \in Undirected \cup Directed \cup Ended, pc' = [pc EXCEPT ![r] = call],
         NEW outcome \in Failures \cup {"Ok", None}, result' = [result EXCEPT ![r] = outcome],
         NEW text \in Content, source' = [source EXCEPT ![r] = text],
         OfRun(r)', Interrupted(r) => Interrupted(r)'
  PROVE  Good(r)
<1>1. Types'
  BY DEF IInv, Types
<1>2. LeavesOthersAlone(r)
  BY DEF IInv, Types, LeavesOthersAlone
<1>3. Housed'
  BY DEF IInv, Housed
<1>4. Leaves(r)
  BY DEF Leaves, Has
<1> QED
  BY <1>1, <1>2, <1>3, <1>4 DEF Good

(* A run fails: it goes on to drop its directory, if it has one. *)
LEMMA FailedRun ==
  ASSUME IInv, NEW r \in Runs, pc[r] \notin {"drop"} \cup Ended,
         NEW failure \in Failures, Fail(r, failure), UNCHANGED temp, writing'[r] = None,
         workspace[r] # None =>
           LET assembly == files'[Temporary(workspace[r], "s")]
           IN  /\ assembly \in {None, Partial, As("assembly", source[r])}
               /\ failure # "File" => assembly = As("assembly", source[r])
  PROVE  /\ OfRun(r)' /\ Interrupted(r)'
         /\ \E call \in {"returned", "drop"} : pc' = [pc EXCEPT ![r] = call]
<1>1. /\ UNCHANGED <<options, source, workspace, untidy, temp>>
      /\ result' = [result EXCEPT ![r] = failure]
      /\ pc' = [pc EXCEPT ![r] = OnError(r, failure)]
  BY DEF Fail, Go
<1>2. /\ result'[r] = failure /\ failure \notin {"Ok", None}
      /\ pc'[r] = OnError(r, failure)
  BY <1>1, NothingElseAssumption DEF IInv, Types, Failures
<1>3. CASE workspace[r] = None
  <2>1. pc'[r] = "returned" /\ pc' = [pc EXCEPT ![r] = "returned"]
    BY <1>1, <1>2, <1>3 DEF OnError
  <2>2. OfRun(r)'
    BY <1>1, <1>2, <1>3, <2>1 DEF OfRun, OwnName, Asked, OwnWrite, OwnDirectory, Whole, GoneOrKept,
       Undirected, Directed, Building, Unprepared, Writing, Emitted, Ended
  <2> QED
    BY <2>1, <2>2, <1>2 DEF Interrupted
<1>4. CASE workspace[r] # None
  <2>1. pc'[r] = "drop" /\ pc' = [pc EXCEPT ![r] = "drop"]
    BY <1>1, <1>2, <1>4 DEF OnError
  <2>2. /\ workspace[r] \in temp /\ OwnName(r)
        /\ pc[r] \in Directed
        /\ MayBe("C", source[r]) /\ options[r].stage \notin FrontEnd
    BY <1>4 DEF IInv, Types, OfRun, OwnDirectory, Asked, Undirected, Directed, Building, Ended
  <2>3. OwnName(r)' /\ Asked(r)' /\ GoneOrKept(r)'
    BY <1>1, <2>1, <2>2 DEF OwnName, Asked, GoneOrKept, MayBe, IsA
  <2>4. OwnWrite(r)'
    BY <2>1 DEF OwnWrite, Writing
  <2>5. OwnDirectory(r)'
    BY <1>1, <1>2, <1>4, <2>1, <2>2 DEF OwnDirectory, Undirected, Unprepared, Directed
  <2>6. Whole(r)'
    BY <1>2, <2>1 DEF Whole, Emitted, Building
  <2> QED
    BY <2>1, <2>3, <2>4, <2>5, <2>6, <1>2 DEF Interrupted, OfRun
<1> QED
  BY <1>3, <1>4

(* It fails before it has anything open. *)
LEMMA QuietFailure ==
  ASSUME IInv, NEW r \in Runs, pc[r] \notin {"drop"} \cup Ended \cup Writing,
         NEW failure \in Failures, Fail(r, failure), UNCHANGED <<writing, files, temp>>,
         pc[r] = "write source" => failure = "File"
  PROVE  Good(r)
<1>1. writing'[r] = None
  <2>1. writing[r] = None
    BY DEF IInv, OfRun, OwnWrite, Ended
  <2> QED
    BY <2>1
<1>2. workspace[r] # None =>
        LET assembly == files'[Temporary(workspace[r], "s")]
        IN  /\ assembly \in {None, Partial, As("assembly", source[r])}
            /\ failure # "File" => assembly = As("assembly", source[r])
  BY DEF IInv, Types, OfRun, OwnDirectory, Undirected, Directed, Building, Writing, Ended
<1>3. /\ OfRun(r)' /\ Interrupted(r)'
      /\ \E call \in {"returned", "drop"} : pc' = [pc EXCEPT ![r] = call]
  BY <1>1, <1>2, FailedRun DEF Ended
<1>4. PICK call \in {"returned", "drop"} : pc' = [pc EXCEPT ![r] = call]
  BY <1>3
<1>5. /\ UNCHANGED <<options, workspace, untidy, writing, files, temp>>
      /\ result' = [result EXCEPT ![r] = failure] /\ source' = [source EXCEPT ![r] = source[r]]
      /\ source[r] \in Content /\ failure \in Failures \cup {"Ok", None}
      /\ call \in Undirected \cup Directed \cup Ended
  BY DEF Fail, IInv, Types, Directed, Ended
<1> QED
  BY <1>3, <1>4, <1>5, QuietStep

LEMMA ReadIsGood ==
  ASSUME IInv, NEW r \in Runs, read(r) \/ read_to_end(r)
  PROVE  Good(r)
<1>1. pc[r] \in {"read", "reading"} /\ workspace[r] = None /\ writing[r] = None
  BY DEF read, read_to_end, IInv, OfRun, OwnDirectory, OwnWrite, Undirected, Unprepared, Writing
<1>2. CASE Fail(r, "Read")
  BY <1>1, <1>2, QuietFailure DEF read, read_to_end, Writing, Ended, Failures
<1>3. ASSUME NEW text \in Content, source' = [source EXCEPT ![r] = text],
             NEW call \in {"reading", "compile"}, Go(r, call),
             UNCHANGED <<options, result, workspace, untidy, writing, files, temp>>
      PROVE  Good(r)
  <2>1. result[r] = None /\ ~Interrupted(r)
    BY <1>1, NotYetOver DEF Ended
  <2>2. pc'[r] = call /\ pc' = [pc EXCEPT ![r] = call]
    BY <1>3 DEF Go, IInv, Types
  <2>3. OfRun(r)'
    BY <1>1, <1>3, <2>1, <2>2, NothingElseAssumption DEF OfRun, OwnName, Asked, OwnWrite, OwnDirectory,
       Whole, GoneOrKept, Undirected, Directed, Building, Unprepared, Writing, Emitted, Ended
  <2>4. call \in Undirected \cup Directed \cup Ended /\ result[r] \in Failures \cup {"Ok", None}
        /\ result' = [result EXCEPT ![r] = result[r]]
    BY <1>3 DEF IInv, Types, Undirected, Unprepared
  <2> QED
    BY <1>3, <2>1, <2>2, <2>3, <2>4, QuietStep
<1>4. options[r].input \in Everywhere /\ files \in [Everywhere -> Content] /\ source[r] \in Content
  BY DriverAssumption DEF IInv, Types, Everywhere
<1>5. Partial \in Content
  BY DEF Content
<1>6. Seen(options[r].input, source[r]) \subseteq Content
  BY <1>4, <1>5 DEF Seen
<1>7. CASE read(r) /\ ~Fail(r, "Read")
  BY <1>3, <1>4, <1>7 DEF read
<1>8. CASE read_to_end(r) /\ ~Fail(r, "Read")
  BY <1>3, <1>6, <1>8 DEF read_to_end
<1> QED
  BY <1>2, <1>7, <1>8

LEMMA CompileIsGood ==
  ASSUME IInv, NEW r \in Runs, compile(r)
  PROVE  Good(r)
<1>1. pc[r] = "compile" /\ workspace[r] = None /\ writing[r] = None
  BY DEF compile, IInv, OfRun, OwnDirectory, OwnWrite, Undirected, Unprepared, Writing
<1>2. CASE Fail(r, "Rejected")
  BY <1>1, <1>2, QuietFailure DEF compile, Writing, Ended, Failures
<1>3. result[r] = None /\ ~Interrupted(r)
  BY <1>1, NotYetOver DEF Ended
<1>4. source[r] \in Content /\ source = [source EXCEPT ![r] = source[r]] /\ result[r] \in Failures \cup {"Ok", None}
      /\ result = [result EXCEPT ![r] = result[r]]
  BY DEF IInv, Types
<1>5. CASE /\ MayBe("C", source[r]) /\ options[r].stage \in FrontEnd /\ Succeed(r, "returned")
           /\ UNCHANGED <<writing, files, temp>>
  <2>1. /\ pc'[r] = "returned" /\ pc' = [pc EXCEPT ![r] = "returned"]
        /\ result'[r] = "Ok" /\ result' = [result EXCEPT ![r] = "Ok"]
        /\ UNCHANGED <<options, source, workspace, untidy, writing, files, temp>>
    BY <1>5 DEF Succeed, Go, IInv, Types
  <2>2. Targets(r)' = {}
    BY <1>5, <2>1 DEF Targets
  <2>3. OfRun(r)'
    BY <1>1, <2>1, <2>2 DEF OfRun, OwnName, Asked, OwnWrite, OwnDirectory,
       Whole, GoneOrKept, Undirected, Directed, Building, Unprepared, Writing, Emitted, Ended
  <2> QED
    BY <1>3, <1>4, <2>1, <2>3, QuietStep DEF Ended
<1>6. CASE /\ MayBe("C", source[r]) /\ options[r].stage \notin FrontEnd /\ Proceed(r, "emit")
           /\ UNCHANGED <<writing, files, temp>>
  <2>1. /\ pc'[r] = "emit" /\ pc' = [pc EXCEPT ![r] = "emit"]
        /\ UNCHANGED <<options, result, source, workspace, untidy, writing, files, temp>>
    BY <1>6 DEF Proceed, Go, IInv, Types
  <2>2. Asked(r)'
    BY <1>6, <2>1 DEF Asked, MayBe, IsA
  <2>3. OfRun(r)'
    BY <1>1, <1>3, <2>1, <2>2, NothingElseAssumption DEF OfRun, OwnName, OwnWrite, OwnDirectory,
       Whole, GoneOrKept, Undirected, Directed, Building, Unprepared, Writing, Emitted, Ended
  <2> QED
    BY <1>3, <1>4, <2>1, <2>3, QuietStep DEF Undirected
<1> QED
  BY <1>2, <1>5, <1>6 DEF compile

-----------------------------------------------------------------------------
(* What a run has open is where it may be.                                 *)
LEMMA OpenFile ==
  ASSUME IInv, NEW r \in Runs, writing[r] # None
  PROVE  /\ writing[r] \in Writes /\ writing[r].to \in Everywhere
         /\ Proper(r, writing[r])
         /\ writing[r].to \in Targets(r) => writing[r].to \in Paths /\ Reachable(writing[r].to)
         /\ writing[r].to \notin Targets(r) =>
              /\ workspace[r] \in Directories /\ writing[r].to \in Inside(workspace[r])
              /\ writing[r].to \notin Paths /\ ~writing[r].shared
              /\ Reachable(writing[r].to) <=> workspace[r] \in temp
<1>1. writing[r] \in Writes /\ Proper(r, writing[r]) /\ workspace[r] \in Directories \cup {None}
  BY DEF IInv, Types, OfRun, OwnWrite
<1>2. writing[r].to \in Everywhere
  BY <1>1 DEF Writes
<1>3. writing[r].to \in Targets(r) => writing[r].to \in Paths /\ Reachable(writing[r].to)
  BY OfTargets DEF IInv, Reachable
<1>4. ASSUME writing[r].to \notin Targets(r)
      PROVE  /\ workspace[r] \in Directories /\ writing[r].to \in Inside(workspace[r])
             /\ writing[r].to \notin Paths /\ ~writing[r].shared
             /\ Reachable(writing[r].to) <=> workspace[r] \in temp
  <2>1. workspace[r] \in Directories /\ writing[r].to \in Inside(workspace[r])
    BY <1>1, <1>4 DEF Proper
  <2>2. ~writing[r].shared
    BY <1>1, <1>4 DEF Proper
  <2> QED
    BY <2>1, <2>2, InsideIsApart
<1> QED
  BY <1>1, <1>2, <1>3, <1>4

(* A file of r's directory is open to r alone.                             *)
LEMMA OwnFile ==
  ASSUME OneRunEach, IInv, NEW r \in Runs, workspace[r] # None, NEW path \in Inside(workspace[r]),
         NEW q \in Runs \ {r}
  PROVE  ~Has(q, path)
<1> SUFFICES ASSUME writing[q] # None, writing[q].to = path
             PROVE  FALSE
  BY DEF Has
<1>1. workspace[r] \in Directories /\ workspace[r][1] = process[r]
  BY DEF IInv, Types, OfRun, OwnName
<1>2. path \notin Paths
  BY <1>1, InsideIsApart
<1>3. writing[q].to \notin Targets(q)
  BY <1>2, OfTargets DEF IInv
<1>4. workspace[q] \in Directories /\ path \in Inside(workspace[q])
  BY <1>3, OpenFile
<1>5. workspace[q] # None => workspace[q][1] = process[q]
  BY DEF IInv, OfRun, OwnName
<1>6. workspace[q] # None
  BY <1>4, NothingElseAssumption
<1>7. workspace[q] = workspace[r]
  BY <1>1, <1>4, InsideIsApart
<1> QED
  BY <1>1, <1>5, <1>6, <1>7 DEF OneRunEach

(* A write of r is over: nothing but its file has changed.                 *)
Over(r) ==
  /\ writing[r] # None /\ writing' = [writing EXCEPT ![r] = None]
  /\ files' \in [Everywhere -> Content]
  /\ \A path \in Everywhere : path # writing[r].to => files'[path] = files[path]
  /\ ~Reachable(writing[r].to) => files' = files

LEMMA OneFile ==
  ASSUME Types, NEW path \in Everywhere, NEW content \in Content,
         files' = IF Reachable(path) THEN [files EXCEPT ![path] = content] ELSE files
  PROVE  /\ files' \in [Everywhere -> Content]
         /\ \A other \in Everywhere : other # path => files'[other] = files[other]
         /\ Reachable(path) => files'[path] = content
         /\ ~Reachable(path) => files' = files
BY DEF Types

LEMMA CloseLeaves ==
  ASSUME OneRunEach, IInv, NEW r \in Runs, Close(r)
  PROVE  /\ Over(r)
         /\ Reachable(writing[r].to) =>
              \/ files'[writing[r].to] = As(writing[r].kind, source[r])
              \/ writing[r].shared /\ files'[writing[r].to] \in {Partial, files[writing[r].to]}
<1> DEFINE w == writing[r]
<1>1. /\ w # None /\ writing' = [writing EXCEPT ![r] = None]
      /\ \E given \in (IF w.from = None THEN {w.given} ELSE Seen(w.from, w.given)) :
           \E content \in {As(w.kind, given)} \cup (IF w.shared THEN {Partial, files[w.to]} ELSE {}) :
             files' = IF Reachable(w.to) THEN [files EXCEPT ![w.to] = content] ELSE files
  BY DEF Close
<1>2. /\ w \in Writes /\ w.to \in Everywhere /\ Proper(r, w) /\ Types
  BY <1>1, OpenFile DEF IInv
<1>3. w.given \in Content /\ w.kind \in Kinds /\ source[r] \in Content /\ files[w.to] \in Content
      /\ Partial \in Content
  BY <1>2 DEF Writes, Kinds, Content, Types
<1>4. As(w.kind, w.given) = As(w.kind, source[r]) /\ As(w.kind, source[r]) \in Content
  BY <1>2, <1>3, Translated DEF Proper
<1>5. w.from # None => Seen(w.from, w.given) = {w.given}
  <2> SUFFICES ASSUME w.from # None PROVE Seen(w.from, w.given) = {w.given}
    OBVIOUS
  <2>1. workspace[r] # None /\ w.from \in Inside(workspace[r]) /\ w.from # w.to /\ files[w.from] = w.given
    BY <1>2 DEF Proper
  <2>2. \A q \in Runs : ~Has(q, w.from)
    BY <2>1, OwnFile DEF Has
  <2> QED
    BY <2>1, <2>2 DEF Seen
<1>6. PICK content \in {As(w.kind, source[r])} \cup (IF w.shared THEN {Partial, files[w.to]} ELSE {}) :
        files' = IF Reachable(w.to) THEN [files EXCEPT ![w.to] = content] ELSE files
  <2>1. PICK given \in (IF w.from = None THEN {w.given} ELSE Seen(w.from, w.given)) :
          \E content \in {As(w.kind, given)} \cup (IF w.shared THEN {Partial, files[w.to]} ELSE {}) :
             files' = IF Reachable(w.to) THEN [files EXCEPT ![w.to] = content] ELSE files
    BY <1>1
  <2>2. given = w.given
    BY <1>5, <2>1
  <2> QED
    BY <1>4, <2>1, <2>2
<1>7. content \in Content
  BY <1>3, <1>4, <1>6
<1> HIDE DEF w
<1>8. /\ files' \in [Everywhere -> Content]
      /\ \A other \in Everywhere : other # w.to => files'[other] = files[other]
      /\ Reachable(w.to) => files'[w.to] = content
      /\ ~Reachable(w.to) => files' = files
  BY <1>2, <1>6, <1>7, OneFile
<1> QED
  BY <1>1, <1>6, <1>8 DEF Over, w

LEMMA CutLeaves ==
  ASSUME IInv, NEW r \in Runs, Cut(r)
  PROVE  /\ Over(r)
         /\ Reachable(writing[r].to) => files'[writing[r].to] \in {Partial, None, files[writing[r].to]}
         /\ writing[r].from = None => files'[writing[r].to] \in {Partial, files[writing[r].to]}
<1> DEFINE w == writing[r]
<1>1. /\ w # None /\ writing' = [writing EXCEPT ![r] = None]
  BY DEF Cut
<1>2. PICK content \in {Partial, files[w.to]} \cup (IF w.from = None THEN {} ELSE {None}) :
        files' = IF Reachable(w.to) THEN [files EXCEPT ![w.to] = content] ELSE files
  BY DEF Cut
<1>3. w.to \in Everywhere /\ Types
  BY <1>1, OpenFile DEF IInv
<1>4. content \in Content
  BY <1>2, <1>3 DEF Types, Content
<1> HIDE DEF w
<1>5. /\ files' \in [Everywhere -> Content]
      /\ \A other \in Everywhere : other # w.to => files'[other] = files[other]
      /\ Reachable(w.to) => files'[w.to] = content
      /\ ~Reachable(w.to) => files' = files
  BY <1>2, <1>3, <1>4, OneFile
<1> QED
  BY <1>1, <1>2, <1>5 DEF Over, w

(* The rest of what has to be shown of it follows.                         *)
LEMMA OverIsGood ==
  ASSUME IInv, NEW r \in Runs, Over(r), UNCHANGED <<options, source, workspace, untidy, temp>>,
         NEW call \in Undirected \cup Directed \cup Ended, pc' = [pc EXCEPT ![r] = call],
         NEW outcome \in Failures \cup {"Ok", None}, result' = [result EXCEPT ![r] = outcome],
         OfRun(r)', Interrupted(r) => Interrupted(r)',
         LET left == files'[writing[r].to]
         IN  writing[r].to \in Targets(r) =>
               \/ left = As(writing[r].kind, source[r])
               \/ left \in {Partial, files[writing[r].to]} /\ writing[r].shared
               \/ left \in {Partial, None, files[writing[r].to]} /\ Interrupted(r)'
  PROVE  Good(r)
<1> DEFINE w == writing[r]
<1>1. /\ w # None /\ writing' = [writing EXCEPT ![r] = None] /\ writing'[r] = None
      /\ \A q \in Runs \ {r} : writing'[q] = writing[q]
      /\ files' \in [Everywhere -> Content]
      /\ \A path \in Everywhere : path # w.to => files'[path] = files[path]
      /\ ~Reachable(w.to) => files' = files
  BY DEF Over, IInv, Types
<1>2. /\ w.to \in Everywhere /\ Proper(r, w)
      /\ w.to \in Targets(r) => w.to \in Paths
      /\ w.to \notin Targets(r) =>
           /\ workspace[r] \in Directories /\ w.to \in Inside(workspace[r]) /\ w.to \notin Paths
           /\ Reachable(w.to) <=> workspace[r] \in temp
  BY <1>1, OpenFile
<1> HIDE DEF w
<1>3. Types'
  BY <1>1 DEF IInv, Types
<1>4. LeavesOthersAlone(r)
  <2>1. /\ options' = options /\ workspace' = workspace /\ temp' = temp
        /\ \A q \in Runs \ {r} :
             /\ pc'[q] = pc[q] /\ result'[q] = result[q] /\ source'[q] = source[q]
             /\ workspace'[q] = workspace[q] /\ (q \in untidy' <=> q \in untidy)
             /\ writing'[q] = writing[q]
    BY <1>1 DEF IInv, Types
  <2>2. \A path \in Everywhere : files'[path] # files[path] =>
          path \in Targets(r) \/ (workspace'[r] # None /\ path \in Inside(workspace'[r]))
    BY <1>1, <1>2, <2>1, NothingElseAssumption
  <2> QED
    BY <2>1, <2>2 DEF LeavesOthersAlone
<1>5. Housed'
  <2> SUFFICES ASSUME NEW d \in Directories \ temp, NEW path \in Inside(d)
               PROVE  files'[path] = None
    BY DEF Housed
  <2>1. files[path] = None /\ path \in Everywhere /\ path \notin Paths
    BY InsideIsApart DEF IInv, Housed
  <2>2. CASE path # w.to
    BY <1>1, <2>1, <2>2
  <2>3. CASE path = w.to
    <3>1. w.to \in Inside(workspace[r]) /\ workspace[r] \in Directories
      BY <1>2, <2>1, <2>3
    <3>2. workspace[r] = d
      BY <2>3, <3>1, InsideIsApart
    <3> QED
      BY <1>1, <1>2, <2>1, <2>3, <3>2
  <2> QED
    BY <2>2, <2>3
<1>6. Leaves(r)
  <2> SUFFICES ASSUME NEW p \in Paths
               PROVE  /\ files'[p] # files[p] => p \in Targets(r) /\ (Has(r, p) \/ Has(r, p)')
                      /\ ~Has(r, p)'
                      /\ Has(r, p) =>
                           /\ writing'[r] = None
                           /\ \/ files'[p] \in Yields(r, p)
                              \/ files'[p] \in {Partial, files[p]} /\ writing[r].shared
                              \/ files'[p] \in {Partial, None, files[p]} /\ Interrupted(r)'
    BY DEF Leaves
  <2>1. ~Has(r, p)' /\ (Has(r, p) <=> w.to = p)
    BY <1>1 DEF Has, w
  <2>2. p \in Everywhere
    BY DEF Everywhere
  <2>3. CASE w.to # p
    BY <1>1, <2>1, <2>2, <2>3
  <2>4. CASE w.to = p
    <3>1. p \in Targets(r)
      BY <1>2, <2>4
    <3>2. As(w.kind, source[r]) \in Yields(r, p)
      BY <1>2, <2>4, <3>1 DEF Proper
    <3>3. \/ files'[p] = As(w.kind, source[r])
          \/ files'[p] \in {Partial, files[p]} /\ w.shared
          \/ files'[p] \in {Partial, None, files[p]} /\ Interrupted(r)'
      BY <2>4, <3>1 DEF w
    <3> QED
      BY <1>1, <2>1, <2>4, <3>1, <3>2, <3>3 DEF w
  <2> QED
    BY <2>3, <2>4
<1> QED
  BY <1>3, <1>4, <1>5, <1>6 DEF Good

-----------------------------------------------------------------------------
(* The file --emit-asm-to names stays when another one is written.         *)
LEMMA EmittedStays ==
  ASSUME IInv, NEW r \in Runs, pc[r] \in Emitted,
         NEW path \in Everywhere, \A other \in Everywhere : other # path => files'[other] = files[other],
         path = output(r) \/ path \notin Paths
  PROVE  LET p == options[r].emit_asm_to
         IN  p # None /\ p # output(r) /\ ~Rivals(r, p) => files'[p] = As("assembly", source[r])
<1>1. options[r].stage \notin FrontEnd
  BY DEF IInv, OfRun, Asked, Emitted, Undirected, Directed, Building, Unprepared
<1>2. options[r].emit_asm_to # None => options[r].emit_asm_to \in Paths
  BY <1>1, OfTargets DEF IInv
<1>3. LET p == options[r].emit_asm_to
      IN  p # None /\ p # output(r) /\ ~Rivals(r, p) => files[p] = As("assembly", source[r])
  BY DEF IInv, OfRun, Whole
<1> QED
  BY <1>2, <1>3 DEF Everywhere

(* When the output is written as well, all is. *)
LEMMA AllIsWritten ==
  ASSUME IInv, NEW r \in Runs, pc[r] \in Emitted, options' = options, source' = source,
         \A other \in Everywhere : other # output(r) => files'[other] = files[other],
         ~Rivals(r, output(r)) => files'[output(r)] = As(Product[options[r].stage], source[r])
  PROVE  \A p \in Targets(r)' : ~Rivals(r, p)' => files'[p] = Final(r, p)'
<1>1. options[r].stage \notin FrontEnd
  BY DEF IInv, OfRun, Asked, Emitted, Undirected, Directed, Building, Unprepared
<1>2. output(r) \in Everywhere
  BY <1>1, OfTargets DEF IInv, Everywhere
<1>3. LET p == options[r].emit_asm_to
      IN  p # None /\ p # output(r) /\ ~Rivals(r, p) => files'[p] = As("assembly", source[r])
  BY <1>2, EmittedStays
<1>4. \A p \in Targets(r) : ~Rivals(r, p) => files'[p] = Final(r, p)
  <2> SUFFICES ASSUME NEW p \in Targets(r), ~Rivals(r, p)
               PROVE  files'[p] = Final(r, p)
    OBVIOUS
  <2>1. CASE p = output(r)
    BY <2>1, OfTargets DEF IInv
  <2>2. CASE p # output(r)
    <3>1. p = options[r].emit_asm_to /\ p # None /\ Final(r, p) = As("assembly", source[r])
      BY <2>2, OfTargets, NothingElseAssumption DEF IInv
    <3> QED
      BY <1>3, <2>2, <3>1
  <2> QED
    BY <2>1, <2>2
<1> QED
  BY <1>4, TargetsStay

LEMMA WriteIsGood ==
  ASSUME OneRunEach, IInv, NEW r \in Runs, write(r)
  PROVE  Good(r)
<1>1. /\ pc[r] \in {"emitting", "writing assembly", "writing source"} /\ writing[r] # None
      /\ result[r] = None /\ ~Interrupted(r)
      /\ MayBe("C", source[r]) /\ options[r].stage \notin FrontEnd /\ Types
  <2>1. pc[r] \in {"emitting", "writing assembly", "writing source"}
    BY DEF write
  <2>2. writing[r] # None
    BY <2>1 DEF IInv, OfRun, OwnWrite, Writing
  <2>3. MayBe("C", source[r]) /\ options[r].stage \notin FrontEnd
    BY <2>1 DEF IInv, OfRun, Asked, Undirected, Directed, Building, Unprepared
  <2> QED
    BY <2>1, <2>2, <2>3, NotYetOver DEF Ended, IInv
<1>2. /\ writing[r].kind = "assembly"
      /\ pc[r] = "emitting" => writing[r].to = options[r].emit_asm_to /\ options[r].emit_asm_to # None
      /\ pc[r] = "writing assembly" => writing[r].to = output(r) /\ options[r].stage = "Assembly"
      /\ pc[r] = "writing source" =>
           /\ writing[r].to = Temporary(workspace[r], "s") /\ writing[r].from = None
           /\ workspace[r] # None /\ workspace[r] \in Directories /\ workspace[r] \in temp
           /\ files[writing[r].to] = Partial
      /\ pc[r] # "writing source" => workspace[r] = None
  BY <1>1 DEF IInv, Types, OfRun, OwnWrite, Asked, OwnDirectory, Undirected, Directed, Building, Unprepared
<1>3. source[r] \in Content /\ source = [source EXCEPT ![r] = source[r]]
      /\ result = [result EXCEPT ![r] = result[r]] /\ result[r] \in Failures \cup {"Ok", None}
  BY <1>1 DEF Types
<1>4. CASE pc[r] = "emitting" /\ Close(r) /\ Proceed(r, AfterAssembly(r)) /\ UNCHANGED temp
  <2>1. /\ writing[r].to \in Targets(r) /\ writing[r].to = options[r].emit_asm_to
        /\ Reachable(writing[r].to)
    BY <1>1, <1>2, <1>4, OfTargets, OpenFile
  <2>2. /\ Over(r)
        /\ \/ files'[writing[r].to] = As("assembly", source[r])
           \/ writing[r].shared /\ files'[writing[r].to] \in {Partial, files[writing[r].to]}
    BY <1>2, <1>4, <2>1, CloseLeaves
  <2>3. writing[r].shared => Rivals(r, writing[r].to)
    BY <1>1, OpenFile DEF Proper
  <2>4. /\ UNCHANGED <<options, result, source, workspace, untidy, temp>>
        /\ pc' = [pc EXCEPT ![r] = AfterAssembly(r)] /\ pc'[r] = AfterAssembly(r)
        /\ AfterAssembly(r) \in {"write assembly", "preflight"}
        /\ AfterAssembly(r) = "write assembly" => options[r].stage = "Assembly"
        /\ writing'[r] = None
    BY <1>1, <1>4, <2>2 DEF Proceed, Go, Types, AfterAssembly, Over
  <2>5. Asked(r)'
    BY <1>1, <2>4 DEF Asked, MayBe, IsA
  <2>6. Whole(r)'
    <3>1. \A p : Rivals(r, p)' <=> Rivals(r, p)
      BY <2>4, TargetsStay
    <3> QED
      BY <1>1, <2>1, <2>2, <2>3, <2>4, <3>1, NothingElseAssumption DEF Whole
  <2>7. OfRun(r)'
    BY <1>2, <1>4, <2>4, <2>5, <2>6 DEF OfRun, OwnName, OwnWrite, OwnDirectory, GoneOrKept,
       Undirected, Directed, Building, Unprepared, Writing, Ended
  <2>8. AfterAssembly(r) \in Undirected \cup Directed \cup Ended
    BY <2>4 DEF Undirected
  <2> QED
    BY <1>1, <1>2, <1>3, <2>2, <2>4, <2>7, <2>8, OverIsGood
<1>5. CASE pc[r] = "writing assembly" /\ Close(r) /\ Succeed(r, "returned") /\ UNCHANGED temp
  <2>1. /\ writing[r].to \in Targets(r) /\ writing[r].to = output(r) /\ Reachable(writing[r].to)
    BY <1>1, <1>2, <1>5, OfTargets, OpenFile
  <2>2. /\ Over(r)
        /\ \/ files'[writing[r].to] = As("assembly", source[r])
           \/ writing[r].shared /\ files'[writing[r].to] \in {Partial, files[writing[r].to]}
    BY <1>2, <1>5, <2>1, CloseLeaves
  <2>3. writing[r].shared => Rivals(r, writing[r].to)
    BY <1>1, OpenFile DEF Proper
  <2>4. /\ UNCHANGED <<options, source, workspace, untidy, temp>>
        /\ pc' = [pc EXCEPT ![r] = "returned"] /\ pc'[r] = "returned"
        /\ result' = [result EXCEPT ![r] = "Ok"] /\ result'[r] = "Ok"
        /\ writing'[r] = None
    BY <1>1, <1>5, <2>2 DEF Succeed, Go, Types, Over
  <2>5. Product[options[r].stage] = "assembly"
    <3>1. Product["Assembly"] = "assembly"
      BY DEF Product
    <3> QED
      BY <1>2, <1>5, <3>1
  <2>6. \A p \in Targets(r)' : ~Rivals(r, p)' => files'[p] = Final(r, p)'
    BY <1>5, <2>1, <2>2, <2>3, <2>4, <2>5, AllIsWritten DEF Over, Emitted
  <2>7. Whole(r)'
    BY <2>4, <2>6 DEF Whole, Emitted, Building, Ended
  <2>8. OfRun(r)'
    BY <1>2, <1>5, <2>4, <2>7 DEF OfRun, OwnName, Asked, OwnWrite, OwnDirectory, GoneOrKept,
       Undirected, Directed, Building, Unprepared, Writing, Ended
  <2> QED
    BY <1>1, <1>2, <1>3, <2>2, <2>4, <2>8, OverIsGood DEF Ended
<1>6. CASE pc[r] = "writing source" /\ Close(r) /\ Proceed(r, "assemble") /\ UNCHANGED temp
  <2>1. /\ writing[r].to \notin Targets(r) /\ writing[r].to \notin Paths /\ writing[r].to \in Everywhere
        /\ ~writing[r].shared /\ Reachable(writing[r].to)
    <3>1. writing[r].to \notin Paths
      BY <1>2, <1>6, InsideIsApart
    <3> QED
      BY <1>1, <1>2, <1>6, <3>1, OfTargets, OpenFile
  <2>2. /\ Over(r) /\ files'[writing[r].to] = As("assembly", source[r])
    BY <1>2, <1>6, <2>1, CloseLeaves
  <2>3. /\ UNCHANGED <<options, result, source, workspace, untidy, temp>>
        /\ pc' = [pc EXCEPT ![r] = "assemble"] /\ pc'[r] = "assemble"
        /\ writing'[r] = None
    BY <1>1, <1>6, <2>2 DEF Proceed, Go, Types, Over
  <2>4. Asked(r)'
    BY <1>1, <2>3 DEF Asked, MayBe, IsA
  <2>5. LET p == options[r].emit_asm_to
        IN  p # None /\ p # output(r) /\ ~Rivals(r, p) => files'[p] = As("assembly", source[r])
    BY <1>6, <2>1, <2>2, EmittedStays DEF Over, Emitted, Building
  <2>6. Whole(r)'
    <3>1. output(r)' = output(r) /\ \A p : Rivals(r, p)' <=> Rivals(r, p)
      BY <2>3, TargetsStay
    <3> QED
      BY <1>1, <2>3, <2>5, <3>1, NothingElseAssumption DEF Whole
  <2>7. OwnDirectory(r)'
    BY <1>2, <1>6, <2>2, <2>3 DEF OwnDirectory, Undirected, Unprepared
  <2>8. OfRun(r)'
    <3>1. OwnName(r)
      BY DEF IInv, OfRun
    <3> QED
      BY <1>2, <1>6, <2>3, <2>4, <2>6, <2>7, <3>1 DEF OfRun, OwnName, OwnWrite, GoneOrKept, Writing
  <2> QED
    BY <1>1, <1>2, <1>3, <2>1, <2>2, <2>3, <2>8, OverIsGood DEF Directed, Building
<1>7. CASE Cut(r) /\ Fail(r, "File") /\ UNCHANGED temp
  <2>1. /\ Over(r)
        /\ Reachable(writing[r].to) => files'[writing[r].to] \in {Partial, None, files[writing[r].to]}
        /\ writing[r].from = None => files'[writing[r].to] \in {Partial, files[writing[r].to]}
    BY <1>7, CutLeaves
  <2>2. workspace[r] # None =>
          LET assembly == files'[Temporary(workspace[r], "s")]
          IN  /\ assembly \in {None, Partial, As("assembly", source[r])}
              /\ "File" # "File" => assembly = As("assembly", source[r])
    BY <1>1, <1>2, <2>1
  <2>3. writing'[r] = None
    BY <1>1, <2>1 DEF Over, Types
  <2>4. /\ OfRun(r)' /\ Interrupted(r)'
        /\ \E call \in {"returned", "drop"} : pc' = [pc EXCEPT ![r] = call]
    BY <1>1, <1>7, <2>2, <2>3, FailedRun DEF Ended, Failures
  <2>5. PICK call \in {"returned", "drop"} : pc' = [pc EXCEPT ![r] = call]
    BY <2>4
  <2>6. /\ call \in Undirected \cup Directed \cup Ended /\ "File" \in Failures \cup {"Ok", None}
        /\ UNCHANGED <<options, source, workspace, untidy, temp>>
        /\ result' = [result EXCEPT ![r] = "File"]
    BY <1>7 DEF Fail, Directed, Ended, Failures
  <2>7. writing[r].to \in Targets(r) => files'[writing[r].to] \in {Partial, None, files[writing[r].to]}
    BY <1>1, <2>1, OpenFile
  <2> QED
    BY <2>1, <2>4, <2>5, <2>6, <2>7, OverIsGood
<1> QED
  BY <1>4, <1>5, <1>6, <1>7 DEF write

LEMMA RunIsGood ==
  ASSUME OneRunEach, IInv, NEW r \in Runs, run(r)
  PROVE  Good(r)
<1>1. /\ pc[r] \in {"assembling", "linking"} /\ writing[r] # None
      /\ result[r] = None /\ ~Interrupted(r)
      /\ MayBe("C", source[r]) /\ options[r].stage \notin FrontEnd /\ Types
  <2>1. pc[r] \in {"assembling", "linking"}
    BY DEF run
  <2>2. writing[r] # None
    BY <2>1 DEF IInv, OfRun, OwnWrite, Writing
  <2>3. MayBe("C", source[r]) /\ options[r].stage \notin FrontEnd
    BY <2>1 DEF IInv, OfRun, Asked, Undirected, Directed, Building, Unprepared
  <2> QED
    BY <2>1, <2>2, <2>3, NotYetOver DEF Ended, IInv
<1> DEFINE assembly == Temporary(workspace[r], "s")
           object   == Temporary(workspace[r], "o")
<1>2. /\ workspace[r] # None /\ workspace[r] \in Directories /\ workspace[r] \in temp /\ OwnName(r)
      /\ files[assembly] = As("assembly", source[r])
      /\ pc[r] = "assembling" => writing[r].to = Assembled(r) /\ writing[r].kind = "object"
      /\ pc[r] = "linking" => /\ writing[r].to = output(r) /\ writing[r].kind = "executable"
                              /\ options[r].stage = "Executable"
  BY <1>1 DEF IInv, Types, OfRun, OwnName, OwnWrite, Asked, OwnDirectory, Undirected, Directed, Building
<1>3. source[r] \in Content /\ source = [source EXCEPT ![r] = source[r]]
      /\ result = [result EXCEPT ![r] = result[r]] /\ result[r] \in Failures \cup {"Ok", None}
  BY <1>1 DEF Types
<1>4. /\ assembly \in Everywhere /\ object \in Everywhere /\ object # assembly
      /\ assembly \notin Paths /\ object \notin Paths /\ Reachable(object)
      /\ output(r) \in Targets(r) /\ output(r) \in Paths
      /\ writing[r].to \in {object, output(r)} /\ assembly # writing[r].to
  <2>1. /\ assembly \in Everywhere /\ object \in Everywhere /\ object # assembly
        /\ assembly \notin Paths /\ object \notin Paths /\ Reachable(object)
    BY <1>2, InsideIsApart
  <2>2. output(r) \in Targets(r) /\ output(r) \in Paths
    BY <1>1, OfTargets
  <2>3. writing[r].to \in {object, output(r)}
    BY <1>1, <1>2 DEF Assembled
  <2> QED
    BY <2>1, <2>2, <2>3
<1> HIDE DEF assembly, object
<1>5. CASE pc[r] = "assembling" /\ options[r].stage = "Executable" /\ Close(r) /\ Proceed(r, "link") /\ UNCHANGED temp
  <2>1. writing[r].to = object /\ writing[r].to \notin Targets(r) /\ Reachable(writing[r].to)
        /\ ~writing[r].shared /\ writing[r].kind = "object"
    <3>1. writing[r].to = object
      BY <1>2, <1>5 DEF Assembled, object
    <3>2. object \notin Targets(r)
      BY <1>1, <1>4, OfTargets
    <3> QED
      BY <1>1, <1>2, <1>4, <1>5, <3>1, <3>2, OpenFile
  <2>2. Over(r) /\ files'[object] = As("object", source[r]) /\ files'[assembly] = As("assembly", source[r])
    BY <1>2, <1>4, <1>5, <2>1, CloseLeaves DEF Over
  <2>3. /\ UNCHANGED <<options, result, source, workspace, untidy, temp>>
        /\ pc' = [pc EXCEPT ![r] = "link"] /\ pc'[r] = "link"
        /\ writing'[r] = None
    BY <1>1, <1>5, <2>2 DEF Proceed, Go, Types, Over
  <2>4. Asked(r)'
    BY <1>1, <1>5, <2>3 DEF Asked, MayBe, IsA
  <2>5. LET p == options[r].emit_asm_to
        IN  p # None /\ p # output(r) /\ ~Rivals(r, p) => files'[p] = As("assembly", source[r])
    BY <1>4, <1>5, <2>1, <2>2, EmittedStays DEF Over, Emitted, Building
  <2>6. Whole(r)'
    <3>1. output(r)' = output(r) /\ \A p : Rivals(r, p)' <=> Rivals(r, p)
      BY <2>3, TargetsStay
    <3> QED
      BY <1>1, <2>3, <2>5, <3>1, NothingElseAssumption DEF Whole
  <2>7. OwnDirectory(r)'
    BY <1>2, <2>2, <2>3 DEF OwnDirectory, Undirected, Unprepared, assembly, object
  <2>8. OfRun(r)'
    BY <1>2, <2>3, <2>4, <2>6, <2>7 DEF OfRun, OwnName, OwnWrite, GoneOrKept, Writing
  <2> QED
    BY <1>1, <1>3, <2>1, <2>2, <2>3, <2>8, OverIsGood DEF Directed, Building
<1>6. CASE /\ pc[r] = "linking" \/ options[r].stage = "Object"
           /\ Close(r) /\ Succeed(r, "drop") /\ UNCHANGED temp
  <2>1. /\ writing[r].to = output(r) /\ Reachable(writing[r].to)
        /\ writing[r].kind = Product[options[r].stage]
    <3>1. Product["Object"] = "object" /\ Product["Executable"] = "executable"
      BY DEF Product
    <3>2. writing[r].to = output(r)
      BY <1>1, <1>2, <1>6 DEF Assembled
    <3>3. pc[r] = "assembling" => options[r].stage = "Object"
      BY <1>6
    <3>4. writing[r].kind = Product[options[r].stage]
      BY <1>1, <1>2, <3>1, <3>3
    <3> QED
      BY <1>4, <3>2, <3>4 DEF Reachable
  <2>2. /\ Over(r)
        /\ \/ files'[output(r)] = As(Product[options[r].stage], source[r])
           \/ writing[r].shared /\ files'[output(r)] \in {Partial, files[output(r)]}
    BY <1>6, <2>1, CloseLeaves
  <2>3. writing[r].shared => Rivals(r, output(r))
    BY <1>1, <2>1, OpenFile DEF Proper
  <2>4. /\ UNCHANGED <<options, source, workspace, untidy, temp>>
        /\ pc' = [pc EXCEPT ![r] = "drop"] /\ pc'[r] = "drop"
        /\ result' = [result EXCEPT ![r] = "Ok"] /\ result'[r] = "Ok"
        /\ writing'[r] = None
    BY <1>1, <1>6, <2>2 DEF Succeed, Go, Types, Over
  <2>5. \A p \in Targets(r)' : ~Rivals(r, p)' => files'[p] = Final(r, p)'
    BY <1>1, <2>1, <2>2, <2>3, <2>4, AllIsWritten DEF Over, Emitted, Building
  <2>6. Whole(r)'
    BY <2>4, <2>5 DEF Whole, Emitted, Building
  <2>7. files'[assembly] = As("assembly", source[r])
    BY <1>2, <1>4, <2>2 DEF Over
  <2>8. OwnDirectory(r)'
    BY <1>2, <2>4, <2>7 DEF OwnDirectory, Undirected, Unprepared, assembly
  <2>9. Asked(r)'
    BY <1>1, <2>4 DEF Asked, MayBe, IsA
  <2>10. OfRun(r)'
    BY <1>2, <2>4, <2>6, <2>8, <2>9 DEF OfRun, OwnName, OwnWrite, GoneOrKept, Writing
  <2> QED
    BY <1>1, <1>3, <2>1, <2>2, <2>4, <2>10, OverIsGood DEF Directed
<1>7. CASE (Close(r) \/ Cut(r)) /\ Fail(r, "Toolchain") /\ UNCHANGED temp
  <2>1. /\ Over(r)
        /\ Reachable(writing[r].to) =>
             \/ files'[writing[r].to] = As(writing[r].kind, source[r])
             \/ writing[r].shared /\ files'[writing[r].to] \in {Partial, files[writing[r].to]}
             \/ files'[writing[r].to] \in {Partial, None, files[writing[r].to]}
    BY <1>7, CloseLeaves, CutLeaves
  <2>2. workspace[r] # None =>
          LET text == files'[Temporary(workspace[r], "s")]
          IN  /\ text \in {None, Partial, As("assembly", source[r])}
              /\ "Toolchain" # "File" => text = As("assembly", source[r])
    BY <1>2, <1>4, <2>1 DEF Over, assembly
  <2>3. writing'[r] = None
    BY <1>1, <2>1 DEF Over, Types
  <2>4. /\ OfRun(r)' /\ Interrupted(r)'
        /\ \E call \in {"returned", "drop"} : pc' = [pc EXCEPT ![r] = call]
    BY <1>1, <1>7, <2>2, <2>3, FailedRun DEF Ended, Failures
  <2>5. PICK call \in {"returned", "drop"} : pc' = [pc EXCEPT ![r] = call]
    BY <2>4
  <2>6. /\ call \in Undirected \cup Directed \cup Ended /\ "Toolchain" \in Failures \cup {"Ok", None}
        /\ UNCHANGED <<options, source, workspace, untidy, temp>>
        /\ result' = [result EXCEPT ![r] = "Toolchain"]
    BY <1>7 DEF Fail, Directed, Ended, Failures
  <2>7. writing[r].to \in Targets(r) => Reachable(writing[r].to)
    BY <1>1, OpenFile
  <2> QED
    BY <2>1, <2>4, <2>5, <2>6, <2>7, OverIsGood
<1> QED
  BY <1>5, <1>6, <1>7 DEF run

LEMMA OrphanIsGood ==
  ASSUME OneRunEach, IInv, NEW r \in Runs, orphan(r)
  PROVE  Good(r)
<1>1. /\ pc[r] = "killed"
      /\ Close(r) \/ Cut(r)
      /\ UNCHANGED <<options, pc, result, source, workspace, untidy, temp>>
  BY DEF orphan
<1>2. /\ Over(r)
      /\ Reachable(writing[r].to) =>
           \/ files'[writing[r].to] = As(writing[r].kind, source[r])
           \/ writing[r].shared /\ files'[writing[r].to] \in {Partial, files[writing[r].to]}
           \/ files'[writing[r].to] \in {Partial, None, files[writing[r].to]}
  BY <1>1, CloseLeaves, CutLeaves
<1>3. writing[r] # None /\ writing'[r] = None /\ result[r] = None /\ result'[r] = None
  BY <1>1, <1>2 DEF Over, IInv, Types, OfRun, Whole
<1>4. OfRun(r)'
  BY <1>1, <1>3, NothingElseAssumption DEF IInv, OfRun, OwnName, Asked, OwnWrite, OwnDirectory, Whole,
     GoneOrKept, Undirected, Directed, Building, Unprepared, Writing, Emitted, Ended
<1>5. Interrupted(r)'
  BY <1>1 DEF Interrupted
<1>6. writing[r].to \in Targets(r) => Reachable(writing[r].to)
  BY <1>3, OpenFile
<1>7. /\ pc' = [pc EXCEPT ![r] = "killed"] /\ result' = [result EXCEPT ![r] = None]
      /\ "killed" \in Undirected \cup Directed \cup Ended
  BY <1>1, <1>3 DEF IInv, Types, Ended
<1> QED
  BY <1>1, <1>2, <1>4, <1>5, <1>6, <1>7, OverIsGood

LEMMA KillIsGood ==
  ASSUME OneRunEach, IInv, NEW r \in Runs, kill(process[r])
  PROVE  Good(r)
<1> DEFINE w == writing[r]
<1>1. /\ pc[r] \notin Ended
      /\ UNCHANGED <<options, result, source, workspace, untidy, temp>>
      /\ pc' = [pc EXCEPT ![r] = "killed"] /\ pc'[r] = "killed"
  <2> DEFINE dying == {q \in Runs : process[q] = process[r] /\ pc[q] \notin Ended}
  <2>1. dying # {} /\ \A q \in dying : q = r
    BY DEF kill, OneRunEach
  <2>2. pc[r] \notin Ended /\ dying = {r}
    BY <2>1
  <2>3. pc' = [q \in Runs |-> IF q \in dying THEN "killed" ELSE pc[q]]
    BY DEF kill
  <2> HIDE DEF dying
  <2>4. pc' = [pc EXCEPT ![r] = "killed"] /\ pc'[r] = "killed"
    BY <2>2, <2>3 DEF IInv, Types
  <2> QED
    BY <2>2, <2>4 DEF kill
<1>2. /\ \A q \in Runs \ {r} : writing'[q] = writing[q]
      /\ writing' \in [Runs -> Writes \cup {None}]
      /\ \/ writing'[r] = w /\ files' = files
         \/ /\ w # None /\ writing'[r] = None
            /\ files' \in [Everywhere -> Content]
            /\ \A path \in Everywhere : path # w.to => files'[path] = files[path]
            /\ files'[w.to] \in {Partial, files[w.to]}
            /\ ~Reachable(w.to) => files'[w.to] = files[w.to]
  <2> DEFINE dying == {q \in Runs : process[q] = process[r] /\ pc[q] \notin Ended}
             busy  == {q \in dying : writing[q] # None}
  <2>1. dying = {r}
    BY <1>1 DEF OneRunEach
  <2>2. PICK orphans \in SUBSET {q \in busy : writing[q].from # None} :
          /\ writing' = [q \in Runs |-> IF q \in dying \ orphans THEN None ELSE writing[q]]
          /\ \E torn \in SUBSET {writing[q].to : q \in busy \ orphans} :
               files' = [path \in DOMAIN files |->
                            IF path \in torn /\ Reachable(path) THEN Partial ELSE files[path]]
    BY DEF kill
  <2>3. PICK torn \in SUBSET {writing[q].to : q \in busy \ orphans} :
          files' = [path \in DOMAIN files |->
                       IF path \in torn /\ Reachable(path) THEN Partial ELSE files[path]]
    BY <2>2
  <2>4. /\ busy \subseteq {r} /\ orphans \subseteq busy
        /\ r \in busy <=> w # None
    BY <2>1, <2>2
  <2> HIDE DEF dying, busy
  <2>5. writing \in [Runs -> Writes \cup {None}] /\ files \in [Everywhere -> Content] /\ Partial \in Content
    BY DEF IInv, Types, Content
  <2>6. /\ \A q \in Runs \ {r} : writing'[q] = writing[q]
        /\ writing' \in [Runs -> Writes \cup {None}]
        /\ writing'[r] = IF r \in orphans THEN w ELSE None
    BY <2>1, <2>2, <2>4, <2>5
  <2>7. \A path \in torn : r \notin orphans /\ r \in busy /\ path = w.to
    BY <2>3, <2>4
  <2>8. /\ files' \in [Everywhere -> Content]
        /\ \A path \in Everywhere : files'[path] = IF path \in torn /\ Reachable(path) THEN Partial ELSE files[path]
    BY <2>3, <2>5
  <2>9. CASE r \in orphans \/ w = None
    <3>1. torn = {}
      BY <2>4, <2>7, <2>9
    <3>2. files' = files
      BY <2>5, <2>8, <3>1
    <3> QED
      BY <2>4, <2>6, <2>9, <3>2
  <2>10. CASE r \notin orphans /\ w # None
    <3>1. w.to \in Everywhere
      BY <2>10, OpenFile
    <3> QED
      BY <2>6, <2>7, <2>8, <2>10, <3>1
  <2> QED
    BY <2>9, <2>10
<1>3. w # None => /\ w.to \in Everywhere /\ Proper(r, w)
                  /\ w.to \in Targets(r) => w.to \in Paths
                  /\ w.to \notin Targets(r) =>
                       /\ workspace[r] \in Directories /\ w.to \in Inside(workspace[r]) /\ w.to \notin Paths
                       /\ Reachable(w.to) <=> workspace[r] \in temp
  BY OpenFile
<1>4. Types'
  BY <1>1, <1>2 DEF IInv, Types, Ended
<1>5. \A path \in Everywhere : files'[path] # files[path] =>
        /\ w # None /\ path = w.to /\ files'[path] = Partial
        /\ path \in Targets(r) \/ (workspace[r] # None /\ path \in Inside(workspace[r]) /\ workspace[r] \in temp)
  BY <1>2, <1>3, NothingElseAssumption
<1>6. LeavesOthersAlone(r)
  <2>1. \A q \in Runs \ {r} :
             /\ pc'[q] = pc[q] /\ result'[q] = result[q] /\ source'[q] = source[q]
             /\ workspace'[q] = workspace[q] /\ (q \in untidy' <=> q \in untidy)
             /\ writing'[q] = writing[q]
    BY <1>1, <1>2 DEF IInv, Types
  <2> QED
    BY <1>1, <1>5, <2>1 DEF LeavesOthersAlone
<1>7. Housed'
  <2> SUFFICES ASSUME NEW d \in Directories \ temp, NEW path \in Inside(d)
               PROVE  files'[path] = None
    BY <1>1 DEF Housed
  <2>1. files[path] = None /\ path \in Everywhere /\ path \notin Paths
    BY InsideIsApart DEF IInv, Housed
  <2>2. ASSUME files'[path] # files[path]
        PROVE  FALSE
    <3>1. path \notin Targets(r)
      BY <2>1, OfTargets DEF IInv
    <3>2. workspace[r] # None /\ path \in Inside(workspace[r]) /\ workspace[r] \in temp
      BY <1>5, <2>1, <2>2, <3>1
    <3>3. workspace[r] \in Directories
      BY <3>2 DEF IInv, Types
    <3>4. workspace[r] = d
      BY <3>2, <3>3, InsideIsApart
    <3> QED
      BY <3>2, <3>4
  <2> QED
    BY <2>1, <2>2
<1>8. Interrupted(r)'
  BY <1>1 DEF Interrupted
<1>9. Leaves(r)
  <2> SUFFICES ASSUME NEW p \in Paths
               PROVE  /\ files'[p] # files[p] => p \in Targets(r) /\ (Has(r, p) \/ Has(r, p)')
                      /\ Has(r, p) /\ Has(r, p)' => files'[p] = files[p]
                      /\ ~(~Has(r, p) /\ Has(r, p)')
                      /\ Has(r, p) /\ ~Has(r, p)' =>
                           /\ writing'[r] = None
                           /\ files'[p] \in {Partial, None, files[p]} /\ Interrupted(r)'
    BY DEF Leaves
  <2>1. p \in Everywhere /\ ~(workspace[r] # None /\ p \in Inside(workspace[r]))
    <3>1. workspace[r] # None => workspace[r] \in Directories
      BY DEF IInv, Types
    <3> QED
      BY <3>1, InsideIsApart DEF Everywhere
  <2>2. files'[p] # files[p] => w # None /\ p = w.to /\ p \in Targets(r) /\ files'[p] = Partial
    BY <1>5, <2>1
  <2>3. (Has(r, p) <=> w # None /\ w.to = p) /\ (writing'[r] = w => (Has(r, p)' <=> Has(r, p)))
        /\ (writing'[r] = None => ~Has(r, p)')
    BY DEF Has
  <2> HIDE DEF w
  <2> QED
    BY <1>2, <1>8, <2>2, <2>3
<1>10. result'[r] = "Ok" =>
         /\ writing[r] = None /\ files' = files
         /\ \A p \in Targets(r)' : ~Rivals(r, p)' => files'[p] = Final(r, p)'
  <2> SUFFICES ASSUME result[r] = "Ok"
               PROVE  /\ writing[r] = None /\ files' = files
                      /\ \A p \in Targets(r)' : ~Rivals(r, p)' => files'[p] = Final(r, p)'
    BY <1>1
  <2>1. writing[r] = None /\ files' = files
    BY <1>2, NothingElseAssumption DEF IInv, OfRun, Whole
  <2>2. \A p \in Targets(r) : ~Rivals(r, p) => files[p] = Final(r, p)
    BY DEF IInv, OfRun, Whole
  <2> QED
    BY <1>1, <2>1, <2>2, TargetsStay
<1>11. Whole(r)'
  <2>1. result'[r] # None => writing'[r] = None
    BY <1>1, <1>2 DEF IInv, OfRun, Whole
  <2> QED
    BY <1>1, <1>10, <2>1 DEF Whole, Emitted, Building, Ended
<1>12. OwnWrite(r)'
  <2>1. ASSUME writing'[r] # None
        PROVE  Proper(r, writing[r])' /\ writing'[r] = writing[r]
    <3>1. writing'[r] = w /\ files' = files /\ Proper(r, w)
      BY <1>2, <1>3, <2>1
    <3>2. Targets(r)' = Targets(r) /\ \A p : (Rivals(r, p)' <=> Rivals(r, p)) /\ Yields(r, p)' = Yields(r, p)
      BY <1>1, TargetsStay
    <3> QED
      BY <1>1, <3>1, <3>2 DEF Proper, MayBe, IsA
  <2> QED
    BY <1>1, <2>1 DEF OwnWrite, Writing
<1>13. OfRun(r)'
  <2>1. OwnName(r)' /\ Asked(r)' /\ GoneOrKept(r)' /\ OwnDirectory(r)'
    BY <1>1 DEF IInv, OfRun, OwnName, Asked, GoneOrKept, OwnDirectory, Undirected, Directed, Building,
       Unprepared, Ended
  <2> QED
    BY <1>11, <1>12, <2>1 DEF OfRun
<1> QED
  BY <1>4, <1>6, <1>7, <1>8, <1>9, <1>13 DEF Good

-----------------------------------------------------------------------------
(* A run opens a file it may write, or starts a clang that does.           *)
MayOpen(r, from, given, kind, to) ==
  /\ writing[r] = None /\ to \in Everywhere
  /\ from \in Temporaries \cup {None} /\ given \in Content /\ kind \in {"assembly", "object", "executable"}
  /\ \/ to \in Targets(r)
     \/ workspace[r] # None /\ to \in Inside(workspace[r]) /\ workspace[r] \in temp
  /\ MayBe(MadeFrom[kind], given) /\ As(kind, given) = As(kind, source[r])
  /\ to \in Targets(r) => As(kind, source[r]) \in Yields(r, to)
  /\ from # None =>
       /\ workspace[r] # None /\ from \in Inside(workspace[r]) /\ from # to /\ files[from] = given

LEMMA SharedFile ==
  ASSUME NEW w \in Writes
  PROVE  LET shared == [w EXCEPT !.shared = TRUE]
         IN  /\ shared \in Writes /\ shared # None /\ shared.shared
             /\ shared.from = w.from /\ shared.given = w.given /\ shared.kind = w.kind /\ shared.to = w.to
<1>1. [w EXCEPT !.shared = TRUE] \in Writes
  BY DEF Writes
<1>2. \A v \in Writes : v # None
  <2>1. Writes \subseteq [from : Temporaries \cup {None}, given : Content, kind : Kinds,
                          to : Paths \cup Temporaries, shared : BOOLEAN]
    BY DEF Writes, Everywhere, Kinds
  <2> QED
    BY <2>1, NothingElseAssumption
<1> QED
  BY <1>1, <1>2 DEF Writes

Opened(r, from, given, kind, to) ==
  /\ Types' /\ LeavesOthersAlone(r) /\ Housed' /\ Leaves(r)
  /\ writing'[r] # None /\ Proper(r, writing[r])'
  /\ writing'[r].from = from /\ writing'[r].kind = kind /\ writing'[r].to = to
  /\ \A path \in Everywhere : path # to => files'[path] = files[path]

LEMMA OpenLeaves ==
  ASSUME OneRunEach, IInv, NEW r \in Runs, NEW from, NEW given, NEW kind, NEW to,
         MayOpen(r, from, given, kind, to), Open(r, from, given, kind, to),
         files' \in {files, [files EXCEPT ![to] = Partial]},
         NEW call \in Writing, Proceed(r, call), UNCHANGED temp
  PROVE  Opened(r, from, given, kind, to)
<1> DEFINE new == [from |-> from, given |-> given, kind |-> kind, to |-> to,
                   shared |-> \E o \in Runs \ {r} : Has(o, to)]
<1>1. /\ writing'[r] = new
      /\ \A q \in Runs \ {r} : writing'[q] = IF Has(q, to) THEN [writing[q] EXCEPT !.shared = TRUE] ELSE writing[q]
      /\ DOMAIN writing' = Runs /\ writing' = [q \in Runs |-> writing'[q]]
  BY DEF Open
<1>2. /\ to \in Everywhere /\ from \in Temporaries \cup {None} /\ given \in Content
      /\ kind \in {"assembly", "object", "executable"} /\ writing[r] = None
  BY DEF MayOpen
<1>3. /\ new \in Writes /\ new # None
      /\ new.from = from /\ new.given = given /\ new.kind = kind /\ new.to = to
      /\ new.shared <=> \E o \in Runs \ {r} : Has(o, to)
  <2> DEFINE b == \E o \in Runs \ {r} : Has(o, to)
  <2>1. b \in BOOLEAN
    OBVIOUS
  <2> HIDE DEF b
  <2>2. [from |-> from, given |-> given, kind |-> kind, to |-> to, shared |-> b] \in Writes
    BY <1>2, <2>1 DEF Writes
  <2>3. new = [from |-> from, given |-> given, kind |-> kind, to |-> to, shared |-> b]
    BY DEF b
  <2>4. new \in [from : Temporaries \cup {None}, given : Content, kind : Kinds,
                 to : Paths \cup Temporaries, shared : BOOLEAN]
    BY <2>2, <2>3 DEF Writes, Everywhere, Kinds
  <2>5. new # None
    BY <2>4, NothingElseAssumption
  <2>6. /\ new.from = from /\ new.given = given /\ new.kind = kind /\ new.to = to /\ (new.shared <=> b)
    BY <2>3
  <2> QED
    BY <2>2, <2>3, <2>5, <2>6 DEF b
<1>4. \A q \in Runs \ {r} : Has(q, to) =>
        /\ writing[q] \in Writes /\ writing[q] # None
        /\ to \in Targets(q) /\ to \in Targets(r) /\ writing[q].to = to
  <2> SUFFICES ASSUME NEW q \in Runs \ {r}, Has(q, to)
               PROVE  /\ writing[q] \in Writes /\ writing[q] # None
                      /\ to \in Targets(q) /\ to \in Targets(r) /\ writing[q].to = to
    OBVIOUS
  <2>1. writing[q] # None /\ writing[q].to = to /\ writing[q] \in Writes
    BY DEF Has, IInv, Types
  <2>2. to \in Targets(r)
    BY OwnFile DEF MayOpen
  <2>3. to \in Paths
    BY <2>2, OfTargets DEF IInv
  <2>4. to \in Targets(q)
    BY <2>1, <2>3, OpenFile
  <2> QED
    BY <2>1, <2>2, <2>4
<1>5. writing' \in [Runs -> Writes \cup {None}]
  <2>1. \A q \in Runs \ {r} : writing'[q] \in Writes \cup {None}
    <3> TAKE q \in Runs \ {r}
    <3>1. CASE Has(q, to)
      BY <1>1, <1>4, <3>1, SharedFile
    <3>2. CASE ~Has(q, to)
      BY <1>1, <3>2 DEF IInv, Types
    <3> QED
      BY <3>1, <3>2
  <2>2. \A q \in Runs : writing'[q] \in Writes \cup {None}
    BY <1>1, <1>3, <2>1
  <2> HIDE DEF new
  <2> QED
    BY <1>1, <2>2
<1> HIDE DEF new
<1>6. /\ files' \in [Everywhere -> Content]
      /\ \A path \in Everywhere : path # to => files'[path] = files[path]
      /\ files'[to] \in {Partial, files[to]}
  <2>1. Partial \in Content /\ files \in [Everywhere -> Content]
    BY DEF Content, IInv, Types
  <2> QED
    BY <1>2, <2>1
<1>7. /\ UNCHANGED <<options, result, source, workspace, untidy, temp>>
      /\ pc' = [pc EXCEPT ![r] = call]
  BY DEF Proceed, Go
<1>8. Types'
  <2>1. call \in Undirected \cup Directed
    BY DEF Writing, Undirected, Directed, Building
  <2> QED
    BY <1>5, <1>6, <1>7, <2>1 DEF IInv, Types
<1>9. LeavesOthersAlone(r)
  <2>1. \A q \in Runs \ {r} :
          /\ pc'[q] = pc[q] /\ result'[q] = result[q] /\ source'[q] = source[q]
          /\ workspace'[q] = workspace[q] /\ (q \in untidy' <=> q \in untidy)
    BY <1>7 DEF IInv, Types
  <2>2. \A q \in Runs \ {r} :
          \/ writing'[q] = writing[q]
          \/ /\ writing[q] # None /\ writing[q].to \in Targets(r)
             /\ writing'[q] = [writing[q] EXCEPT !.shared = TRUE]
    BY <1>1, <1>4
  <2>3. \A path \in Everywhere : files'[path] # files[path] =>
          path \in Targets(r) \/ (workspace'[r] # None /\ path \in Inside(workspace'[r]))
    BY <1>6, <1>7 DEF MayOpen
  <2> QED
    BY <1>7, <2>1, <2>2, <2>3 DEF LeavesOthersAlone
<1>10. Housed'
  <2> SUFFICES ASSUME NEW d \in Directories \ temp, NEW path \in Inside(d)
               PROVE  files'[path] = None
    BY <1>7 DEF Housed
  <2>1. files[path] = None /\ path \in Everywhere /\ path \notin Paths
    BY InsideIsApart DEF IInv, Housed
  <2>2. path # to
    <3> SUFFICES ASSUME path = to PROVE FALSE
      OBVIOUS
    <3>1. path \notin Targets(r)
      BY <2>1, OfTargets DEF IInv
    <3>2. to \in Inside(workspace[r]) /\ workspace[r] \in temp /\ workspace[r] \in Directories
      BY <3>1 DEF MayOpen, IInv, Types
    <3>3. workspace[r] = d
      BY <3>2, InsideIsApart
    <3> QED
      BY <3>2, <3>3
  <2> QED
    BY <1>6, <2>1, <2>2
<1>11. Leaves(r)
  <2> SUFFICES ASSUME NEW p \in Paths
               PROVE  /\ files'[p] # files[p] => p \in Targets(r) /\ Has(r, p)'
                      /\ ~Has(r, p)
                      /\ Has(r, p)' => p \in Targets(r) /\ files'[p] \in {Partial, files[p]}
    BY DEF Leaves
  <2>1. ~Has(r, p) /\ (Has(r, p)' <=> to = p) /\ p \in Everywhere
    BY <1>1, <1>2, <1>3 DEF Has, Everywhere
  <2>2. to = p => p \in Targets(r)
    <3>1. workspace[r] # None => workspace[r] \in Directories
      BY DEF IInv, Types
    <3> QED
      BY <3>1, InsideIsApart DEF MayOpen
  <2> QED
    BY <1>6, <2>1, <2>2
<1>12. Proper(r, writing[r])'
  <2>1. /\ Targets(r)' = Targets(r) /\ output(r)' = output(r)
        /\ \A p : (Rivals(r, p)' <=> Rivals(r, p)) /\ Yields(r, p)' = Yields(r, p)
    BY <1>7, TargetsStay
  <2>2. new.shared => to \in Targets(r) /\ Rivals(r, to)
    BY <1>3, <1>4 DEF Rivals
  <2>3. from # None => files'[from] = given
    BY <1>2, <1>6 DEF MayOpen, Everywhere
  <2>4. /\ writing'[r].to = to /\ writing'[r].kind = kind /\ writing'[r].from = from
        /\ writing'[r].given = given
        /\ writing'[r].shared => to \in Targets(r) /\ Rivals(r, to)
    BY <1>1, <1>3, <2>2
  <2>5. As(kind, given) = As(kind, source'[r])
    BY <1>7 DEF MayOpen
  <2>6. MayBe(MadeFrom[kind], given)
    BY DEF MayOpen
  <2> QED
    BY <1>7, <2>1, <2>3, <2>4, <2>5, <2>6 DEF MayOpen, Proper
<1> QED
  BY <1>1, <1>3, <1>6, <1>8, <1>9, <1>10, <1>11, <1>12 DEF Opened

LEMMA CreateOpens ==
  ASSUME OneRunEach, IInv, NEW r \in Runs, pc[r] \in {"emit", "write assembly", "write source"},
         NEW path, NEW call \in Writing, create(r, path, call),
         \/ path \in Targets(r) /\ As("assembly", source[r]) \in Yields(r, path)
         \/ /\ workspace[r] # None /\ workspace[r] \in temp
            /\ path \in Inside(workspace[r])
  PROVE  \/ Good(r)
         \/ /\ Opened(r, None, source[r], "assembly", path) /\ files'[path] = Partial
            /\ Proceed(r, call) /\ UNCHANGED temp
<1>1. /\ writing[r] = None
      /\ MayBe("C", source[r])
      /\ pc[r] \notin {"drop"} \cup Ended \cup Writing
  BY DEF IInv, OfRun, OwnWrite, Asked, Undirected, Directed, Building, Unprepared, Writing, Ended
<1>2. CASE Fail(r, "File") /\ UNCHANGED <<writing, files, temp>>
  BY <1>1, <1>2, QuietFailure DEF Failures
<1>3. CASE /\ files' = [files EXCEPT ![path] = Partial]
           /\ Open(r, None, source[r], "assembly", path) /\ Proceed(r, call) /\ UNCHANGED temp
  <2>1. workspace[r] # None => workspace[r] \in Directories
    BY DEF IInv, Types
  <2>2. path \in Everywhere
    BY <2>1, OfTargets, InsideIsApart DEF IInv, Everywhere
  <2>3. path \in Targets(r) => As("assembly", source[r]) \in Yields(r, path)
    BY <2>1, OfTargets, InsideIsApart DEF IInv
  <2>4. MadeFrom["assembly"] = "C" /\ source[r] \in Content
    BY DEF MadeFrom, IInv, Types
  <2>5. MayOpen(r, None, source[r], "assembly", path)
    BY <1>1, <2>2, <2>3, <2>4 DEF MayOpen
  <2>6. Opened(r, None, source[r], "assembly", path)
    BY <1>3, <2>5, OpenLeaves
  <2>7. files'[path] = Partial
    BY <1>3, <2>2 DEF IInv, Types
  <2> QED
    BY <1>3, <2>6, <2>7
<1> QED
  BY <1>2, <1>3 DEF create

LEMMA EmitIsGood ==
  ASSUME OneRunEach, IInv, NEW r \in Runs, emit(r)
  PROVE  Good(r)
<1>1. /\ pc[r] = "emit" /\ workspace[r] = None /\ writing[r] = None
      /\ MayBe("C", source[r]) /\ options[r].stage \notin FrontEnd /\ Types
  BY DEF emit, IInv, OfRun, OwnDirectory, OwnWrite, Asked, Undirected, Directed, Unprepared, Writing
<1>2. result[r] = None /\ ~Interrupted(r)
  BY <1>1, NotYetOver DEF Ended
<1>3. CASE options[r].emit_asm_to = None /\ Proceed(r, AfterAssembly(r)) /\ UNCHANGED <<writing, files, temp>>
  <2>1. /\ UNCHANGED <<options, result, source, workspace, untidy, writing, files, temp>>
        /\ pc' = [pc EXCEPT ![r] = AfterAssembly(r)] /\ pc'[r] = AfterAssembly(r)
        /\ AfterAssembly(r) \in {"write assembly", "preflight"}
        /\ AfterAssembly(r) = "write assembly" => options[r].stage = "Assembly"
    BY <1>1, <1>3 DEF Proceed, Go, Types, AfterAssembly
  <2>2. Asked(r)'
    BY <1>1, <2>1 DEF Asked, MayBe, IsA
  <2>3. OfRun(r)'
    BY <1>1, <1>2, <1>3, <2>1, <2>2, NothingElseAssumption DEF OfRun, OwnName, OwnWrite, OwnDirectory,
       Whole, GoneOrKept, Undirected, Directed, Building, Unprepared, Writing, Ended
  <2>4. /\ AfterAssembly(r) \in Undirected \cup Directed \cup Ended
        /\ source[r] \in Content /\ source' = [source EXCEPT ![r] = source[r]]
        /\ result[r] \in Failures \cup {"Ok", None} /\ result' = [result EXCEPT ![r] = result[r]]
    BY <1>1, <2>1 DEF Types, Undirected
  <2> QED
    BY <1>2, <2>1, <2>3, <2>4, QuietStep
<1>4. CASE options[r].emit_asm_to # None /\ create(r, options[r].emit_asm_to, "emitting")
  <2> DEFINE p == options[r].emit_asm_to
  <2>1. p \in Targets(r) /\ As("assembly", source[r]) \in Yields(r, p)
    BY <1>1, <1>4, OfTargets
  <2>2. \/ Good(r)
        \/ /\ Opened(r, None, source[r], "assembly", p) /\ Proceed(r, "emitting") /\ UNCHANGED temp
    BY <1>1, <1>4, <2>1, CreateOpens DEF Writing
  <2> SUFFICES ASSUME Opened(r, None, source[r], "assembly", p), Proceed(r, "emitting"), UNCHANGED temp
               PROVE  Good(r)
    BY <2>2
  <2>3. /\ UNCHANGED <<options, result, source, workspace, untidy, temp>>
        /\ pc'[r] = "emitting"
    BY <1>1 DEF Proceed, Go, Types
  <2>4. Asked(r)'
    BY <1>1, <1>4, <2>3 DEF Asked, MayBe, IsA
  <2>5. OwnWrite(r)'
    BY <2>3 DEF Opened, OwnWrite, Writing
  <2>6. OfRun(r)'
    BY <1>1, <1>2, <2>3, <2>4, <2>5, NothingElseAssumption DEF OfRun, OwnName, OwnDirectory,
       Whole, GoneOrKept, Undirected, Directed, Building, Unprepared, Emitted
  <2> QED
    BY <1>2, <2>6 DEF Good, Opened
<1> QED
  BY <1>3, <1>4 DEF emit

LEMMA WriteAssemblyIsGood ==
  ASSUME OneRunEach, IInv, NEW r \in Runs, write_assembly(r)
  PROVE  Good(r)
<1>1. /\ pc[r] = "write assembly" /\ workspace[r] = None /\ writing[r] = None
      /\ MayBe("C", source[r]) /\ options[r].stage \notin FrontEnd /\ options[r].stage = "Assembly" /\ Types
  BY DEF write_assembly, IInv, OfRun, OwnDirectory, OwnWrite, Asked, Undirected, Directed, Unprepared, Writing
<1>2. result[r] = None /\ ~Interrupted(r)
  BY <1>1, NotYetOver DEF Ended
<1>3. output(r) \in Targets(r) /\ As("assembly", source[r]) \in Yields(r, output(r))
  <2>1. Product["Assembly"] = "assembly"
    BY DEF Product
  <2>2. Final(r, output(r)) = As("assembly", source[r])
    BY <1>1, <2>1, OfTargets
  <2>3. Final(r, output(r)) \in Yields(r, output(r))
    BY <1>1, OfTargets
  <2> QED
    BY <1>1, <2>2, <2>3, OfTargets
<1>4. \/ Good(r)
      \/ /\ Opened(r, None, source[r], "assembly", output(r)) /\ Proceed(r, "writing assembly") /\ UNCHANGED temp
  BY <1>1, <1>3, CreateOpens DEF Writing, write_assembly
<1> SUFFICES ASSUME Opened(r, None, source[r], "assembly", output(r)),
                    Proceed(r, "writing assembly"), UNCHANGED temp
             PROVE  Good(r)
  BY <1>4
<1>5. /\ UNCHANGED <<options, result, source, workspace, untidy, temp>>
      /\ pc'[r] = "writing assembly" /\ output(r)' = output(r)
      /\ \A p : Rivals(r, p)' <=> Rivals(r, p)
  BY <1>1, TargetsStay DEF Proceed, Go, Types
<1>6. Asked(r)'
  BY <1>1, <1>5 DEF Asked, MayBe, IsA
<1>7. OwnWrite(r)'
  BY <1>5 DEF Opened, OwnWrite, Writing
<1>8. Whole(r)'
  <2>1. output(r) \in Everywhere
    BY <1>1, <1>3, OfTargets DEF Everywhere
  <2>2. \A path \in Everywhere : path # output(r) => files'[path] = files[path]
    BY DEF Opened
  <2>3. LET p == options[r].emit_asm_to
        IN  p # None /\ p # output(r) /\ ~Rivals(r, p) => files'[p] = As("assembly", source[r])
    BY <1>1, <2>1, <2>2, EmittedStays DEF Emitted
  <2> QED
    BY <1>2, <1>5, <2>3, NothingElseAssumption DEF Whole
<1>9. OfRun(r)'
  BY <1>1, <1>5, <1>6, <1>7, <1>8 DEF OfRun, OwnName, OwnDirectory, GoneOrKept,
     Undirected, Directed, Building, Unprepared
<1> QED
  BY <1>2, <1>9 DEF Good, Opened

LEMMA PreflightIsGood ==
  ASSUME IInv, NEW r \in Runs, preflight(r)
  PROVE  Good(r)
<1>1. /\ pc[r] = "preflight" /\ workspace[r] = None /\ writing[r] = None
      /\ MayBe("C", source[r]) /\ options[r].stage \notin FrontEnd /\ Types
  BY DEF preflight, IInv, OfRun, OwnDirectory, OwnWrite, Asked, Undirected, Directed, Unprepared, Writing
<1>2. CASE Fail(r, "ToolchainMissing")
  BY <1>1, <1>2, QuietFailure DEF preflight, Writing, Ended, Failures
<1>3. CASE Proceed(r, "new workspace")
  <2>1. result[r] = None /\ ~Interrupted(r)
    BY <1>1, NotYetOver DEF Ended
  <2>2. /\ UNCHANGED <<options, result, source, workspace, untidy, writing, files, temp>>
        /\ pc' = [pc EXCEPT ![r] = "new workspace"] /\ pc'[r] = "new workspace"
        /\ output(r)' = output(r) /\ \A p : Rivals(r, p)' <=> Rivals(r, p)
    BY <1>1, <1>3, TargetsStay DEF preflight, Proceed, Go, Types
  <2>3. Asked(r)'
    BY <1>1, <2>2 DEF Asked, MayBe, IsA
  <2>4. Whole(r)'
    <3>1. Whole(r)
      BY DEF IInv, OfRun
    <3> QED
      BY <1>1, <2>1, <2>2, <3>1, NothingElseAssumption DEF Whole, Emitted
  <2>5. OfRun(r)'
    BY <1>1, <2>2, <2>3, <2>4 DEF OfRun, OwnName, OwnWrite, OwnDirectory, GoneOrKept,
       Undirected, Directed, Building, Unprepared, Writing, Ended
  <2>6. /\ "new workspace" \in Undirected \cup Directed \cup Ended
        /\ source[r] \in Content /\ source' = [source EXCEPT ![r] = source[r]]
        /\ result[r] \in Failures \cup {"Ok", None} /\ result' = [result EXCEPT ![r] = result[r]]
    BY <1>1, <2>2 DEF Types, Undirected
  <2> QED
    BY <2>1, <2>2, <2>5, <2>6, QuietStep
<1> QED
  BY <1>2, <1>3 DEF preflight

LEMMA NewWorkspaceIsGood ==
  ASSUME OneRunEach, IInv, NEW r \in Runs, new_workspace(r)
  PROVE  Good(r)
<1>1. /\ pc[r] = "new workspace" /\ workspace[r] = None /\ writing[r] = None
      /\ MayBe("C", source[r]) /\ options[r].stage \notin FrontEnd /\ Types
  BY DEF new_workspace, IInv, OfRun, OwnDirectory, OwnWrite, Asked, Undirected, Directed, Unprepared, Writing
<1>2. CASE Fail(r, "File") /\ UNCHANGED temp
  BY <1>1, <1>2, QuietFailure DEF new_workspace, Writing, Ended, Failures
<1>3. ASSUME NEW nanos \in Nanos, temp' = temp \cup {Name(r, nanos)},
             workspace' = [workspace EXCEPT ![r] = Name(r, nanos)],
             Go(r, "write source"), UNCHANGED <<options, result, source, untidy, writing, files>>
      PROVE  Good(r)
  <2> DEFINE d == Name(r, nanos)
  <2>1. d \in Directories /\ d # None /\ d[1] = process[r]
    BY NothingElseAssumption DEF Name, Directories
  <2>2. d \notin temp
    <3> SUFFICES ASSUME d \in temp PROVE FALSE
      OBVIOUS
    <3>1. PICK q \in Runs : workspace[q] = d
      BY DEF IInv, Owned
    <3>2. process[q] = process[r]
      BY <2>1, <3>1 DEF IInv, OfRun, OwnName
    <3> QED
      BY <1>1, <2>1, <3>1, <3>2 DEF OneRunEach
  <2>3. \A path \in Inside(d) : files[path] = None
    BY <2>1, <2>2 DEF IInv, Housed
  <2> HIDE DEF d
  <2>4. /\ temp' = temp \cup {d} /\ workspace' = [workspace EXCEPT ![r] = d] /\ workspace'[r] = d
        /\ pc' = [pc EXCEPT ![r] = "write source"] /\ pc'[r] = "write source"
        /\ output(r)' = output(r) /\ \A p : Rivals(r, p)' <=> Rivals(r, p)
    BY <1>1, <1>3, TargetsStay DEF d, Go, Types
  <2>5. result[r] = None /\ ~Interrupted(r)
    BY <1>1, NotYetOver DEF Ended
  <2>6. Types'
    BY <1>3, <2>1, <2>4 DEF IInv, Types, Directed, Building
  <2>7. LeavesOthersAlone(r)
    BY <1>1, <1>3, <2>4 DEF IInv, Types, LeavesOthersAlone
  <2>8. Housed'
    BY <1>3, <2>4 DEF IInv, Housed
  <2>9. Leaves(r)
    BY <1>3 DEF Leaves, Has
  <2>10. Asked(r)'
    BY <1>1, <1>3, <2>4 DEF Asked, MayBe, IsA
  <2>11. Whole(r)'
    <3>1. Whole(r)
      BY DEF IInv, OfRun
    <3> QED
      BY <1>1, <1>3, <2>4, <2>5, <3>1, NothingElseAssumption DEF Whole, Emitted
  <2>12. files[Temporary(d, "s")] = None
    BY <2>3 DEF Inside
  <2>13. OwnDirectory(r)'
    BY <1>3, <2>1, <2>4, <2>12 DEF OwnDirectory, Undirected, Unprepared
  <2>14. OfRun(r)'
    BY <1>1, <1>3, <2>1, <2>4, <2>10, <2>11, <2>13 DEF OfRun, OwnName, OwnWrite, GoneOrKept, Writing
  <2>15. Interrupted(r) => Interrupted(r)'
    BY <2>5
  <2> QED
    BY <2>6, <2>7, <2>8, <2>9, <2>14, <2>15 DEF Good
<1> QED
  BY <1>2, <1>3 DEF new_workspace

LEMMA WriteSourceIsGood ==
  ASSUME OneRunEach, IInv, NEW r \in Runs, write_source(r)
  PROVE  Good(r)
<1> DEFINE assembly == Temporary(workspace[r], "s")
<1>1. /\ pc[r] = "write source" /\ workspace[r] # None /\ workspace[r] \in Directories /\ workspace[r] \in temp
      /\ writing[r] = None /\ MayBe("C", source[r]) /\ options[r].stage \notin FrontEnd /\ Types /\ OwnName(r)
  BY DEF write_source, IInv, Types, OfRun, OwnDirectory, OwnWrite, Asked, Undirected, Directed, Building,
     Unprepared, Writing, Ended
<1>2. result[r] = None /\ ~Interrupted(r)
  BY <1>1, NotYetOver DEF Ended
<1>3. assembly \in Inside(workspace[r]) /\ assembly \notin Paths /\ assembly \in Everywhere
  BY <1>1, InsideIsApart
<1>4. \/ Good(r)
      \/ /\ Opened(r, None, source[r], "assembly", assembly) /\ files'[assembly] = Partial
         /\ Proceed(r, "writing source") /\ UNCHANGED temp
  BY <1>1, <1>3, CreateOpens DEF Writing, write_source
<1> SUFFICES ASSUME Opened(r, None, source[r], "assembly", assembly), files'[assembly] = Partial,
                    Proceed(r, "writing source"), UNCHANGED temp
             PROVE  Good(r)
  BY <1>4
<1>5. /\ UNCHANGED <<options, result, source, workspace, untidy, temp>>
      /\ pc'[r] = "writing source" /\ output(r)' = output(r)
      /\ \A p : Rivals(r, p)' <=> Rivals(r, p)
  BY <1>1, TargetsStay DEF Proceed, Go, Types
<1>6. Asked(r)'
  BY <1>1, <1>5 DEF Asked, MayBe, IsA
<1>7. OwnWrite(r)'
  BY <1>5 DEF Opened, OwnWrite, Writing
<1>8. Whole(r)'
  <2>1. \A path \in Everywhere : path # assembly => files'[path] = files[path]
    BY DEF Opened
  <2>2. LET p == options[r].emit_asm_to
        IN  p # None /\ p # output(r) /\ ~Rivals(r, p) => files'[p] = As("assembly", source[r])
    BY <1>1, <1>3, <2>1, EmittedStays DEF Emitted, Building
  <2> QED
    BY <1>2, <1>5, <2>2, NothingElseAssumption DEF Whole
<1>9. OwnDirectory(r)'
  BY <1>1, <1>5 DEF OwnDirectory, Undirected, Unprepared
<1>10. OfRun(r)'
  BY <1>1, <1>5, <1>6, <1>7, <1>8, <1>9 DEF OfRun, OwnName, GoneOrKept
<1> QED
  BY <1>2, <1>10 DEF Good, Opened

(* The calls of clang. *)
LEMMA StartOpens ==
  ASSUME OneRunEach, IInv, NEW r \in Runs, pc[r] \in {"assemble", "link"},
         NEW from \in Inside(workspace[r]), NEW to, NEW kind, NEW call \in Writing,
         start(r, from, kind, to, call),
         MayOpen(r, from, files[from], kind, to)
  PROVE  \/ Good(r)
         \/ Opened(r, from, files[from], kind, to) /\ Proceed(r, call) /\ UNCHANGED temp
<1>1. CASE Fail(r, "ToolchainMissing") /\ UNCHANGED <<writing, files, temp>>
  BY <1>1, QuietFailure DEF Failures, Writing, Ended
<1>2. CASE /\ files' \in {files} \cup {[files EXCEPT ![path] = Partial] : path \in {p \in {to} : Reachable(p)}}
           /\ Open(r, from, files[from], kind, to) /\ Proceed(r, call) /\ UNCHANGED temp
  <2>1. files' \in {files, [files EXCEPT ![to] = Partial]}
    BY <1>2
  <2> QED
    BY <1>2, <2>1, OpenLeaves
<1> QED
  BY <1>1, <1>2 DEF start

LEMMA AssembleIsGood ==
  ASSUME OneRunEach, IInv, NEW r \in Runs, assemble(r)
  PROVE  Good(r)
<1> DEFINE assembly == Temporary(workspace[r], "s")
           object   == Temporary(workspace[r], "o")
<1>1. /\ pc[r] = "assemble" /\ workspace[r] # None /\ workspace[r] \in Directories /\ workspace[r] \in temp
      /\ writing[r] = None /\ MayBe("C", source[r]) /\ options[r].stage \notin FrontEnd /\ Types /\ OwnName(r)
      /\ files[assembly] = As("assembly", source[r])
  BY DEF assemble, IInv, Types, OfRun, OwnDirectory, OwnWrite, Asked, Undirected, Directed, Building,
     Unprepared, Writing, Ended
<1>2. result[r] = None /\ ~Interrupted(r)
  BY <1>1, NotYetOver DEF Ended
<1>3. /\ assembly \in Inside(workspace[r]) /\ assembly \notin Paths /\ assembly \in Everywhere
      /\ assembly \in Temporaries
      /\ object \in Inside(workspace[r]) /\ object \notin Paths /\ object \in Everywhere /\ object # assembly
  BY <1>1, InsideIsApart
<1>4. Assembled(r) = IF options[r].stage = "Object" THEN output(r) ELSE object
  BY DEF Assembled
<1> HIDE DEF assembly, object
<1>5. /\ Assembled(r) # assembly /\ Assembled(r) \in Everywhere
      /\ Assembled(r) \in Targets(r) \/ Assembled(r) = object
      /\ Assembled(r) = output(r) \/ Assembled(r) \notin Paths
      /\ Assembled(r) \in Targets(r) => Assembled(r) = output(r) /\ options[r].stage = "Object"
  <2>1. output(r) \in Targets(r) /\ Targets(r) \subseteq Paths
    BY <1>1, OfTargets
  <2> QED
    BY <1>3, <1>4, <2>1 DEF Everywhere
<1>6. /\ MayBe("assembly", files[assembly]) /\ As("object", files[assembly]) = As("object", source[r])
      /\ files[assembly] \in Content
  <2>1. source[r] \in Content /\ "assembly" \in Kinds /\ "object" \in Kinds
    BY <1>1 DEF Types, Kinds
  <2>2. /\ As("assembly", source[r]) \in Content /\ MayBe("assembly", As("assembly", source[r]))
        /\ \A next \in Kinds : As(next, As("assembly", source[r])) = As(next, source[r])
    BY <2>1, Translated
  <2> QED
    BY <1>1, <2>1, <2>2
<1>7. Assembled(r) \in Targets(r) => As("object", source[r]) \in Yields(r, Assembled(r))
  <2>1. Product["Object"] = "object"
    BY DEF Product
  <2>2. Final(r, output(r)) = As(Product[options[r].stage], source[r]) /\ Final(r, output(r)) \in Yields(r, output(r))
    BY <1>1, OfTargets
  <2> QED
    BY <1>5, <2>1, <2>2
<1>8. MayOpen(r, assembly, files[assembly], "object", Assembled(r))
  <2>1. MadeFrom["object"] = "assembly"
    BY DEF MadeFrom
  <2>2. \/ Assembled(r) \in Targets(r)
        \/ workspace[r] # None /\ Assembled(r) \in Inside(workspace[r]) /\ workspace[r] \in temp
    BY <1>1, <1>3, <1>5
  <2> QED
    BY <1>1, <1>3, <1>5, <1>6, <1>7, <2>1, <2>2 DEF MayOpen
<1>9. start(r, assembly, "object", Assembled(r), "assembling")
  BY DEF assemble, assembly
<1>10. \/ Good(r)
       \/ /\ Opened(r, assembly, files[assembly], "object", Assembled(r))
          /\ Proceed(r, "assembling") /\ UNCHANGED temp
  <2>1. pc[r] \in {"assemble", "link"} /\ "assembling" \in Writing
    BY <1>1 DEF Writing
  <2> QED
    BY <1>3, <1>8, <1>9, <2>1, StartOpens
<1> SUFFICES ASSUME Opened(r, assembly, files[assembly], "object", Assembled(r)),
                    Proceed(r, "assembling"), UNCHANGED temp
             PROVE  Good(r)
  BY <1>10
<1>11. /\ UNCHANGED <<options, result, source, workspace, untidy, temp>>
       /\ pc'[r] = "assembling" /\ output(r)' = output(r)
       /\ \A p : Rivals(r, p)' <=> Rivals(r, p)
  BY <1>1, TargetsStay DEF Proceed, Go, Types
<1>12. Asked(r)'
  BY <1>1, <1>11 DEF Asked, MayBe, IsA
<1>13. OwnWrite(r)'
  <2>1. Assembled(r)' = Assembled(r)
    BY <1>11 DEF Assembled
  <2> QED
    BY <1>11, <2>1 DEF Opened, OwnWrite, Writing
<1>14. \A path \in Everywhere : path # Assembled(r) => files'[path] = files[path]
  BY DEF Opened
<1>15. Whole(r)'
  <2>1. LET p == options[r].emit_asm_to
        IN  p # None /\ p # output(r) /\ ~Rivals(r, p) => files'[p] = As("assembly", source[r])
    BY <1>1, <1>5, <1>14, EmittedStays DEF Emitted, Building
  <2> QED
    BY <1>2, <1>11, <2>1, NothingElseAssumption DEF Whole
<1>16. OwnDirectory(r)'
  <2>1. files'[assembly] = As("assembly", source[r])
    BY <1>1, <1>3, <1>5, <1>14
  <2> QED
    BY <1>1, <1>11, <2>1 DEF OwnDirectory, Undirected, Unprepared, assembly
<1>17. OfRun(r)'
  BY <1>1, <1>11, <1>12, <1>13, <1>15, <1>16 DEF OfRun, OwnName, GoneOrKept
<1> QED
  BY <1>2, <1>17 DEF Good, Opened

LEMMA LinkIsGood ==
  ASSUME OneRunEach, IInv, NEW r \in Runs, link(r)
  PROVE  Good(r)
<1> DEFINE assembly == Temporary(workspace[r], "s")
           object   == Temporary(workspace[r], "o")
<1>1. /\ pc[r] = "link" /\ workspace[r] # None /\ workspace[r] \in Directories /\ workspace[r] \in temp
      /\ writing[r] = None /\ MayBe("C", source[r]) /\ options[r].stage \notin FrontEnd /\ Types /\ OwnName(r)
      /\ options[r].stage = "Executable"
      /\ files[assembly] = As("assembly", source[r]) /\ files[object] = As("object", source[r])
  BY DEF link, IInv, Types, OfRun, OwnDirectory, OwnWrite, Asked, Undirected, Directed, Building,
     Unprepared, Writing, Ended
<1>2. result[r] = None /\ ~Interrupted(r)
  BY <1>1, NotYetOver DEF Ended
<1>3. /\ assembly \notin Paths /\ assembly \in Everywhere
      /\ object \in Inside(workspace[r]) /\ object \notin Paths /\ object \in Everywhere
      /\ object \in Temporaries
  BY <1>1, InsideIsApart
<1>4. output(r) \in Targets(r) /\ output(r) \in Paths /\ output(r) \in Everywhere
  BY <1>1, OfTargets DEF Everywhere
<1>5. link(r) => start(r, object, "executable", output(r), "linking")
  BY DEF link
<1> HIDE DEF assembly, object
<1>6. /\ MayBe("object", files[object]) /\ As("executable", files[object]) = As("executable", source[r])
      /\ files[object] \in Content
  <2>1. source[r] \in Content /\ "object" \in Kinds /\ "executable" \in Kinds
    BY <1>1 DEF Types, Kinds
  <2>2. /\ As("object", source[r]) \in Content /\ MayBe("object", As("object", source[r]))
        /\ \A next \in Kinds : As(next, As("object", source[r])) = As(next, source[r])
    BY <2>1, Translated
  <2> QED
    BY <1>1, <2>1, <2>2
<1>7. As("executable", source[r]) \in Yields(r, output(r))
  <2>1. Product["Executable"] = "executable"
    BY DEF Product
  <2>2. Final(r, output(r)) = As(Product[options[r].stage], source[r]) /\ Final(r, output(r)) \in Yields(r, output(r))
    BY <1>1, OfTargets
  <2> QED
    BY <1>1, <2>1, <2>2
<1>8. MayOpen(r, object, files[object], "executable", output(r))
  <2>1. MadeFrom["executable"] = "object"
    BY DEF MadeFrom
  <2>2. object # output(r)
    BY <1>3, <1>4
  <2> QED
    BY <1>1, <1>3, <1>4, <1>6, <1>7, <2>1, <2>2 DEF MayOpen
<1>9. \/ Good(r)
      \/ /\ Opened(r, object, files[object], "executable", output(r))
         /\ Proceed(r, "linking") /\ UNCHANGED temp
  <2>1. pc[r] \in {"assemble", "link"} /\ "linking" \in Writing
    BY <1>1 DEF Writing
  <2> QED
    BY <1>3, <1>5, <1>8, <2>1, StartOpens
<1> SUFFICES ASSUME Opened(r, object, files[object], "executable", output(r)),
                    Proceed(r, "linking"), UNCHANGED temp
             PROVE  Good(r)
  BY <1>9
<1>10. /\ UNCHANGED <<options, result, source, workspace, untidy, temp>>
       /\ pc'[r] = "linking" /\ output(r)' = output(r)
       /\ \A p : Rivals(r, p)' <=> Rivals(r, p)
  BY <1>1, TargetsStay DEF Proceed, Go, Types
<1>11. Asked(r)'
  BY <1>1, <1>10 DEF Asked, MayBe, IsA
<1>12. OwnWrite(r)'
  BY <1>10 DEF Opened, OwnWrite, Writing
<1>13. \A path \in Everywhere : path # output(r) => files'[path] = files[path]
  BY DEF Opened
<1>14. Whole(r)'
  <2>1. LET p == options[r].emit_asm_to
        IN  p # None /\ p # output(r) /\ ~Rivals(r, p) => files'[p] = As("assembly", source[r])
    BY <1>1, <1>4, <1>13, EmittedStays DEF Emitted, Building
  <2> QED
    BY <1>2, <1>10, <2>1, NothingElseAssumption DEF Whole
<1>15. OwnDirectory(r)'
  <2>1. files'[assembly] = As("assembly", source[r]) /\ files'[object] = As("object", source[r])
    BY <1>1, <1>3, <1>4, <1>13
  <2> QED
    BY <1>1, <1>10, <2>1 DEF OwnDirectory, Undirected, Unprepared, assembly, object
<1>16. OfRun(r)'
  BY <1>1, <1>10, <1>11, <1>12, <1>14, <1>15 DEF OfRun, OwnName, GoneOrKept
<1> QED
  BY <1>2, <1>16 DEF Good, Opened

LEMMA DropIsGood ==
  ASSUME IInv, NEW r \in Runs, drop(r)
  PROVE  Good(r)
<1> DEFINE d == workspace[r]
<1>1. /\ pc[r] = "drop" /\ d \in Directories /\ d \in temp /\ d # None /\ Types
      /\ writing[r] = None /\ OwnName(r) /\ Asked(r) /\ OwnDirectory(r) /\ Whole(r)
      /\ UNCHANGED <<options, result, source, workspace, writing>>
  BY DEF drop, IInv, Types, OfRun, OwnDirectory, OwnWrite, Directed, Writing, Ended
<1>2. /\ pc' \in {pc, [pc EXCEPT ![r] = "returned"]} /\ pc'[r] \in {"drop", "returned"}
      /\ untidy' \in {untidy, untidy \cup {r}} /\ temp' \in {temp, temp \ {d}}
      /\ files' \in {files} \cup {[files EXCEPT ![path] = None] : path \in Inside(d)}
      /\ \/ pc'[r] = "drop" /\ temp' = temp /\ ~Keeps(r)
         \/ pc'[r] = "returned" /\ Keeps(r) /\ UNCHANGED <<untidy, files, temp>>
         \/ /\ pc'[r] = "returned" /\ ~Keeps(r) /\ files' = files
            /\ d \notin temp' \/ r \in untidy'
      /\ temp' # temp => files' = files /\ \A path \in Inside(d) : files[path] = None
  BY <1>1 DEF drop, Go, Types
<1> HIDE DEF d
<1>3. /\ Inside(d) \subseteq Everywhere /\ \A path \in Inside(d) : path \notin Paths
  BY <1>1, InsideIsApart
<1>4. files' \in [Everywhere -> Content] /\ \A path \in Everywhere : path \notin Inside(d) => files'[path] = files[path]
  <2>1. None \in Content
    BY DEF Content
  <2> QED
    BY <1>1, <1>2, <1>3, <2>1 DEF Types
<1>5. Types'
  BY <1>1, <1>2, <1>4 DEF Types, Ended
<1>6. LeavesOthersAlone(r)
  <2>1. \A q \in Runs \ {r} : pc'[q] = pc[q] /\ (q \in untidy' <=> q \in untidy)
    BY <1>1, <1>2 DEF Types
  <2>2. \A e \in Directories : e # d => (e \in temp' <=> e \in temp)
    BY <1>2
  <2> QED
    BY <1>1, <1>4, <2>1, <2>2 DEF LeavesOthersAlone, d
<1>7. Housed'
  <2> SUFFICES ASSUME NEW e \in Directories \ temp', NEW path \in Inside(e)
               PROVE  files'[path] = None
    BY DEF Housed
  <2>1. path \in Everywhere
    BY InsideIsApart
  <2>2. files[path] = None
    <3>1. CASE e \in temp
      BY <1>2, <3>1
    <3>2. CASE e \notin temp
      BY <3>2 DEF IInv, Housed
    <3> QED
      BY <3>1, <3>2
  <2>3. files'[path] \in {None, files[path]}
    <3>1. path \in DOMAIN files
      BY <2>1 DEF IInv, Types
    <3> QED
      BY <1>2, <3>1
  <2> QED
    BY <2>2, <2>3
<1>8. \A p \in Paths : files'[p] = files[p]
  BY <1>3, <1>4 DEF Everywhere
<1>9. Leaves(r)
  BY <1>1, <1>8 DEF Leaves, Has
<1>10. Whole(r)'
  <2>1. \A p \in Targets(r) : p \in Paths
    BY <1>1, OfTargets
  <2>2. Targets(r)' = Targets(r) /\ \A p : (Rivals(r, p)' <=> Rivals(r, p)) /\ Final(r, p)' = Final(r, p)
    BY <1>1, TargetsStay
  <2>3. result'[r] = "Ok" => \A p \in Targets(r)' : ~Rivals(r, p)' => files'[p] = Final(r, p)'
    BY <1>1, <1>8, <2>1, <2>2 DEF Whole
  <2> QED
    BY <1>1, <1>2, <2>3 DEF Whole, Emitted, Building, Ended
<1>11. OwnDirectory(r)'
  <2>1. pc'[r] \notin Undirected /\ (pc'[r] \in Directed => pc'[r] = "drop")
    BY <1>2 DEF Undirected, Directed, Building, Unprepared
  <2>2. CASE Keeps(r)
    <3>1. pc'[r] = "returned" /\ UNCHANGED <<untidy, files, temp>>
      BY <1>2, <2>2
    <3> QED
      BY <1>1, <2>1, <3>1 DEF OwnDirectory
  <2>3. CASE ~Keeps(r)
    <3>1. ~options'[r].keep_temps
      BY <1>1, <2>3 DEF Keeps
    <3>2. pc'[r] = "drop" => d \in temp'
      BY <1>1, <1>2
    <3> QED
      BY <1>1, <1>2, <2>1, <3>1, <3>2 DEF OwnDirectory, d
  <2> QED
    BY <2>2, <2>3
<1>12. GoneOrKept(r)'
  BY <1>1, <1>2 DEF GoneOrKept, Keeps, d
<1>13. OfRun(r)'
  <2>1. OwnName(r)' /\ Asked(r)'
    BY <1>1, <1>2 DEF OwnName, Asked, Undirected, Directed, Building, Unprepared, MayBe, IsA
  <2>2. OwnWrite(r)'
    BY <1>1, <1>2 DEF OwnWrite, Writing
  <2> QED
    BY <1>10, <1>11, <1>12, <2>1, <2>2 DEF OfRun
<1>14. Interrupted(r) => Interrupted(r)'
  BY <1>1 DEF Interrupted
<1> QED
  BY <1>5, <1>6, <1>7, <1>9, <1>13, <1>14 DEF Good

LEMMA NextIsGood ==
  ASSUME OneRunEach, IInv, Next
  PROVE  \E r \in Runs : Good(r)
<1> PICK r \in Runs : Step(r) \/ kill(process[r]) \/ orphan(r)
  BY DEF Next
<1>1. CASE Step(r)
  BY <1>1, ReadIsGood, CompileIsGood, EmitIsGood, WriteAssemblyIsGood, WriteIsGood, PreflightIsGood,
     NewWorkspaceIsGood, WriteSourceIsGood, AssembleIsGood, LinkIsGood, RunIsGood, DropIsGood DEF Step
<1>2. CASE kill(process[r]) \/ orphan(r)
  BY <1>2, KillIsGood, OrphanIsGood
<1> QED
  BY <1>1, <1>2
-----------------------------------------------------------------------------
(* What a step of r leaves of another run.                                 *)
LEMMA OthersStay ==
  ASSUME OneRunEach, IInv, NEW r \in Runs, Good(r), NEW q \in Runs \ {r}
  PROVE  OfRun(q)'
<1> DEFINE d == workspace[q]
<1>1. /\ options' = options
      /\ pc'[q] = pc[q] /\ result'[q] = result[q] /\ source'[q] = source[q]
      /\ workspace'[q] = d /\ (q \in untidy' <=> q \in untidy)
  BY DEF Good, LeavesOthersAlone
<1>2. /\ Types /\ OwnName(q) /\ Asked(q) /\ OwnWrite(q) /\ OwnDirectory(q) /\ Whole(q) /\ GoneOrKept(q)
  BY DEF IInv, OfRun
<1>3. d # None => d \in Directories
  BY <1>2 DEF Types
<1>4. /\ Targets(q)' = Targets(q) /\ output(q)' = output(q)
      /\ \A p : (Rivals(q, p)' <=> Rivals(q, p)) /\ Final(q, p)' = Final(q, p) /\ Yields(q, p)' = Yields(q, p)
  BY <1>1, TargetsStay
<1> HIDE DEF d
<1>5. d # None =>
        /\ d \in temp' <=> d \in temp
        /\ \A path \in Inside(d) : files'[path] = files[path]
  <2> SUFFICES ASSUME d # None
               PROVE  /\ d \in temp' <=> d \in temp
                      /\ \A path \in Inside(d) : files'[path] = files[path]
    OBVIOUS
  <2>1. d \in Directories /\ d[1] = process[q]
    BY <1>2, <1>3 DEF OwnName, d
  <2>2. workspace'[r] # None => workspace'[r] \in Directories /\ workspace'[r][1] = process[r]
    BY DEF Good, Types, OfRun, OwnName
  <2>3. d # workspace'[r]
    BY <2>1, <2>2 DEF OneRunEach
  <2>4. d \in temp' <=> d \in temp
    BY <2>1, <2>3 DEF Good, LeavesOthersAlone
  <2>5. ASSUME NEW path \in Inside(d), files'[path] # files[path]
        PROVE  FALSE
    <3>1. path \in Everywhere /\ path \notin Paths
      BY <2>1, InsideIsApart
    <3>2. path \notin Targets(r)
      BY <1>2, <3>1, OfTargets
    <3>3. workspace'[r] # None /\ path \in Inside(workspace'[r])
      BY <2>5, <3>1, <3>2 DEF Good, LeavesOthersAlone
    <3> QED
      BY <2>1, <2>2, <2>3, <3>3, InsideIsApart
  <2> QED
    BY <2>4, <2>5
<1>6. d # None => /\ Temporary(d, "s") \in Inside(d) /\ Temporary(d, "o") \in Inside(d)
  BY DEF Inside
<1>7. \A p \in Targets(q) : ~Rivals(q, p) => files'[p] = files[p]
  <2> SUFFICES ASSUME NEW p \in Targets(q), ~Rivals(q, p), files'[p] # files[p]
               PROVE  FALSE
    OBVIOUS
  <2>1. p \in Paths /\ p \in Everywhere /\ p \notin Targets(r)
    BY <1>2, OfTargets DEF Rivals, Everywhere
  <2>2. workspace'[r] # None /\ p \in Inside(workspace'[r])
    BY <2>1 DEF Good, LeavesOthersAlone
  <2>3. workspace'[r] \in Directories
    BY <2>2 DEF Good, Types
  <2> QED
    BY <2>1, <2>2, <2>3, InsideIsApart
<1>8. /\ writing'[q] # None <=> writing[q] # None
      /\ writing[q] # None =>
           /\ writing'[q].from = writing[q].from /\ writing'[q].given = writing[q].given
           /\ writing'[q].kind = writing[q].kind /\ writing'[q].to = writing[q].to
           /\ writing'[q].shared => writing[q].shared \/ writing[q].to \in Targets(r)
  <2>1. CASE writing'[q] = writing[q]
    BY <2>1
  <2>2. CASE /\ writing[q] # None /\ writing[q].to \in Targets(r)
             /\ writing'[q] = [writing[q] EXCEPT !.shared = TRUE]
    <3>1. writing[q] \in Writes
      BY <1>2, <2>2 DEF Types
    <3> QED
      BY <2>2, <3>1, SharedFile
  <2> QED
    BY <2>1, <2>2 DEF Good, LeavesOthersAlone
<1>9. writing'[q] # None => Proper(q, writing[q])'
  <2> SUFFICES ASSUME writing[q] # None
               PROVE  Proper(q, writing[q])'
    BY <1>8
  <2>1. Proper(q, writing[q])
    BY OpenFile
  <2>2. writing[q].to \in Targets(r) => writing[q].to \in Targets(q) /\ Rivals(q, writing[q].to)
    <3> SUFFICES ASSUME writing[q].to \in Targets(r)
                 PROVE  writing[q].to \in Targets(q) /\ Rivals(q, writing[q].to)
      OBVIOUS
    <3>1. writing[q].to \in Paths
      BY <1>2, OfTargets
    <3> QED
      BY <3>1, OpenFile DEF Rivals
  <2>3. writing'[q].shared => writing[q].to \in Targets(q) /\ Rivals(q, writing[q].to)
    BY <1>8, <2>1, <2>2 DEF Proper
  <2>4. writing[q].from # None =>
          /\ d # None /\ writing[q].from \in Inside(d) /\ writing[q].from # writing[q].to
          /\ files'[writing[q].from] = writing[q].given
    BY <1>5, <2>1 DEF Proper, d
  <2>5. /\ writing[q].to \in Targets(q) \/ (d # None /\ writing[q].to \in Inside(d))
        /\ MayBe(MadeFrom[writing[q].kind], writing[q].given)
        /\ As(writing[q].kind, writing[q].given) = As(writing[q].kind, source[q])
        /\ writing[q].to \in Targets(q) => As(writing[q].kind, source[q]) \in Yields(q, writing[q].to)
    BY <2>1 DEF Proper, d
  <2> QED
    BY <1>1, <1>4, <1>8, <2>3, <2>4, <2>5 DEF Proper
<1>10. OwnWrite(q)'
  <2>1. Assembled(q)' = Assembled(q)
    BY <1>1, <1>4 DEF Assembled, d
  <2> QED
    BY <1>1, <1>2, <1>4, <1>8, <1>9, <2>1 DEF OwnWrite, Writing, d
<1>11. OwnDirectory(q)'
  <2>1. CASE d = None
    <3>1. pc[q] \notin Directed
      BY <1>2, <2>1 DEF OwnDirectory, d
    <3> QED
      BY <1>1, <2>1, <3>1 DEF OwnDirectory, Directed, Building
  <2>2. CASE d # None
    BY <1>1, <1>2, <1>5, <1>6, <2>2 DEF OwnDirectory, d
  <2> QED
    BY <2>1, <2>2
<1>12. Whole(q)'
  <2>1. ASSUME pc[q] \in Emitted, options[q].emit_asm_to # None
        PROVE  options[q].emit_asm_to \in Targets(q)
    <3>1. options[q].stage \notin FrontEnd
      BY <1>2, <2>1 DEF Asked, Emitted, Undirected, Directed, Building, Unprepared
    <3> QED
      BY <1>2, <2>1, <3>1, OfTargets
  <2> QED
    BY <1>1, <1>2, <1>4, <1>7, <1>8, <2>1 DEF Whole
<1>13. OwnName(q)' /\ Asked(q)' /\ GoneOrKept(q)'
  BY <1>1, <1>2, <1>5 DEF OwnName, Asked, GoneOrKept, MayBe, IsA, d
<1> QED
  BY <1>10, <1>11, <1>12, <1>13 DEF OfRun

LEMMA OwnedStays ==
  ASSUME IInv, NEW r \in Runs, Good(r)
  PROVE  Owned'
<1> SUFFICES ASSUME NEW d \in temp', \A q \in Runs : workspace'[q] # d
             PROVE  FALSE
  BY DEF Owned
<1>1. d \in Directories /\ d # None
  BY NothingElseAssumption DEF Good, Types
<1>2. d \in temp
  BY <1>1 DEF Good, LeavesOthersAlone
<1>3. PICK q \in Runs : workspace[q] = d
  BY <1>2 DEF IInv, Owned
<1> QED
  BY <1>1, <1>3 DEF Good, LeavesOthersAlone

(* Nor is a file damaged that nothing explains.                            *)
LEMMA DamageStays ==
  ASSUME IInv, NEW r \in Runs, Good(r)
  PROVE  DamageIsExplained'
<1> SUFFICES ASSUME NEW p \in Paths, files'[p] = Partial
             PROVE  \E q \in Runs : Explains(q, p)'
  BY DEF DamageIsExplained
<1>1. options' = options /\ source[r] \in Content
  BY DEF Good, LeavesOthersAlone, IInv, Types
<1>2. \A q : Targets(q)' = Targets(q) /\ (Rivals(q, p)' <=> Rivals(q, p))
  BY <1>1 DEF Targets, output, Rivals
<1>3. p \in Targets(r) => Partial \notin Yields(r, p)
  <2> SUFFICES ASSUME p \in Targets(r)
               PROVE  Partial \notin Yields(r, p)
    OBVIOUS
  <2>1. options[r] \in Invocations /\ options[r].stage \notin FrontEnd
    BY OfTargets DEF IInv, Types
  <2>2. options[r].stage \in {"Assembly", "Object", "Executable"}
    BY <2>1, DriverAssumption DEF Stages
  <2>3. Product["Assembly"] = "assembly" /\ Product["Object"] = "object" /\ Product["Executable"] = "executable"
    BY DEF Product
  <2>4. Product[options[r].stage] \in Kinds /\ "assembly" \in Kinds
    BY <2>2, <2>3 DEF Kinds
  <2>5. \A kind \in Kinds : As(kind, source[r]) # Partial
    BY <1>1, Translated
  <2> QED
    BY <2>4, <2>5 DEF Yields, Final
<1>4. Has(r, p) => p \in Targets(r) /\ (writing[r].shared => Rivals(r, p))
  <2> SUFFICES ASSUME Has(r, p)
               PROVE  p \in Targets(r) /\ (writing[r].shared => Rivals(r, p))
    OBVIOUS
  <2>1. writing[r] # None /\ writing[r].to = p
    BY DEF Has
  <2> QED
    BY <2>1, OpenFile DEF Proper
<1>5. ASSUME Has(r, p), ~Has(r, p)'
      PROVE  Explains(r, p)'
  <2>1. \/ writing[r].shared
        \/ Interrupted(r)'
    BY <1>3, <1>4, <1>5 DEF Good, Leaves
  <2> QED
    BY <1>2, <1>4, <1>5, <2>1 DEF Explains
<1>6. CASE files'[p] # files[p]
  <2>1. p \in Targets(r) /\ (Has(r, p) \/ Has(r, p)')
    BY <1>6 DEF Good, Leaves
  <2>2. Has(r, p)' => Explains(r, p)'
    BY <1>2, <2>1 DEF Explains
  <2> QED
    BY <1>5, <1>6, <2>1, <2>2
<1>7. CASE files'[p] = files[p]
  <2>1. PICK q \in Runs : Explains(q, p)
    BY <1>7 DEF IInv, DamageIsExplained
  <2>2. CASE q = r
    <3>1. CASE Has(r, p) /\ ~Has(r, p)'
      BY <1>5, <1>7, <3>1
    <3>2. CASE ~Has(r, p) \/ Has(r, p)'
      <4>1. Interrupted(r) => Interrupted(r)'
        BY DEF Good
      <4> QED
        BY <1>2, <2>1, <2>2, <3>2, <4>1 DEF Explains
    <3> QED
      BY <3>1, <3>2
  <2>3. CASE q # r
    <3>1. pc'[q] = pc[q] /\ result'[q] = result[q]
      BY <2>3 DEF Good, LeavesOthersAlone
    <3>2. Has(q, p) => Has(q, p)'
      <4> SUFFICES ASSUME Has(q, p)
                   PROVE  Has(q, p)'
        OBVIOUS
      <4>1. writing[q] # None /\ writing[q].to = p
        BY DEF Has
      <4>2. writing[q] \in Writes
        BY <4>1 DEF IInv, Types
      <4>3. writing'[q] = writing[q] \/ writing'[q] = [writing[q] EXCEPT !.shared = TRUE]
        BY <2>3 DEF Good, LeavesOthersAlone
      <4>4. writing'[q] # None /\ writing'[q].to = p
        BY <4>1, <4>2, <4>3, SharedFile
      <4> QED
        BY <4>4 DEF Has
    <3> QED
      BY <1>2, <2>1, <3>1, <3>2 DEF Explains, Interrupted
  <2> QED
    BY <2>2, <2>3
<1> QED
  BY <1>6, <1>7
-----------------------------------------------------------------------------
LEMMA InitEstablishes ==
  Init => IInv
<1> SUFFICES ASSUME Init
             PROVE  IInv
  OBVIOUS
<1>1. \A p \in Inputs : [is |-> "C", of |-> p] \in Content
  BY DEF Content, Kinds
<1>2. None \in Content /\ \A p \in Inputs : [is |-> "C", of |-> p] # Partial
  BY NothingElseAssumption DEF Content, Kinds
<1>3. \A p \in Everywhere : files[p] = IF p \in Inputs THEN [is |-> "C", of |-> p] ELSE None
  BY DEF Init, Everywhere
<1>4. files \in [Everywhere -> Content]
  BY <1>1, <1>2 DEF Init, Everywhere
<1>5. Types
  BY <1>2, <1>4 DEF Init, Types, Content, Undirected, Unprepared
<1>6. ASSUME NEW r \in Runs PROVE OfRun(r)
  <2>1. pc[r] = "read" /\ result[r] = None /\ workspace[r] = None /\ writing[r] = None
    BY DEF Init
  <2>2. OwnName(r) /\ Asked(r) /\ OwnWrite(r) /\ OwnDirectory(r) /\ GoneOrKept(r)
    BY <2>1 DEF OwnName, Asked, OwnWrite, OwnDirectory, GoneOrKept, Undirected, Directed, Building,
       Unprepared, Writing
  <2>3. Whole(r)
    BY <2>1, NothingElseAssumption DEF Whole, Emitted, Building
  <2> QED
    BY <2>2, <2>3 DEF OfRun
<1>7. Housed
  <2> SUFFICES ASSUME NEW d \in Directories, NEW path \in Inside(d)
               PROVE  files[path] = None
    BY DEF Housed
  <2>1. path \in Everywhere /\ path \notin Paths
    BY InsideIsApart
  <2> QED
    BY <1>3, <2>1, DriverAssumption
<1>8. DamageIsExplained
  <2>1. \A p \in Paths : files[p] # Partial
    BY <1>2, <1>3, NothingElseAssumption DEF Everywhere
  <2> QED
    BY <2>1 DEF DamageIsExplained
<1>9. Owned
  BY DEF Init, Owned
<1> QED
  BY <1>5, <1>6, <1>7, <1>8, <1>9 DEF IInv

LEMMA NextPreserves ==
  ASSUME OneRunEach, IInv, [Next]_vars
  PROVE  IInv'
<1>1. CASE Next
  <2>1. PICK r \in Runs : Good(r)
    BY <1>1, NextIsGood
  <2>2. \A q \in Runs : OfRun(q)'
    BY <2>1, OthersStay DEF Good
  <2> QED
    BY <2>1, <2>2, OwnedStays, DamageStays DEF IInv, Good
<1>2. CASE UNCHANGED vars
  <2>1. UNCHANGED <<options, pc, result, source, workspace, untidy, writing, files, temp>>
    BY <1>2 DEF vars
  <2>2. Types' /\ Owned' /\ Housed'
    BY <2>1 DEF IInv, Types, Owned, Housed
  <2>3. \A q, p : /\ Targets(q)' = Targets(q) /\ output(q)' = output(q)
                  /\ (Rivals(q, p)' <=> Rivals(q, p)) /\ (Has(q, p)' <=> Has(q, p))
                  /\ Final(q, p)' = Final(q, p) /\ Yields(q, p)' = Yields(q, p)
                  /\ (Interrupted(q)' <=> Interrupted(q))
    BY <2>1 DEF Targets, output, Rivals, Has, Final, Yields, Interrupted
  <2>4. DamageIsExplained'
    BY <2>1, <2>3 DEF IInv, DamageIsExplained, Explains
  <2>5. ASSUME NEW q \in Runs PROVE OfRun(q)'
    <3>1. OwnName(q)' /\ Asked(q)' /\ OwnDirectory(q)' /\ GoneOrKept(q)'
      BY <2>1 DEF IInv, OfRun, OwnName, Asked, OwnDirectory, GoneOrKept, MayBe, IsA
    <3>2. Whole(q)'
      BY <2>1, <2>3 DEF IInv, OfRun, Whole
    <3>3. writing[q] # None => Proper(q, writing[q])'
      <4>1. writing[q] # None => Proper(q, writing[q])
        BY DEF IInv, OfRun, OwnWrite
      <4> QED
        BY <2>1, <2>3, <4>1 DEF Proper, MayBe, IsA
    <3>4. Assembled(q)' = Assembled(q)
      BY <2>1, <2>3 DEF Assembled
    <3>5. OwnWrite(q)'
      BY <2>1, <2>3, <3>3, <3>4 DEF IInv, OfRun, OwnWrite
    <3> QED
      BY <3>1, <3>2, <3>5 DEF OfRun
  <2> QED
    BY <2>2, <2>4, <2>5 DEF IInv
<1> QED
  BY <1>1, <1>2

(* Of any number of runs at once, each a process of its own, every         *)
(* directory is its run's alone, what a run has open is a file it was told *)
(* to write or one of its own directory, and it has read there what it     *)
(* wrote itself.                                                           *)
THEOREM RunsAndDirectories ==
  ASSUME OneRunEach
  PROVE  Spec => []IInv
<1>1. Init => IInv
  BY InitEstablishes
<1>2. IInv /\ [Next]_vars => IInv'
  BY NextPreserves
<1> QED
  BY <1>1, <1>2, PTL DEF Spec

(* The scratch directory goes or stays as asked, on every way out: no      *)
(* error and no signal to another run leaves one behind or takes one away. *)
THEOREM DirectoriesGoOrStay ==
  ASSUME OneRunEach
  PROVE  Spec => []WorkspaceGoesOrStays
<1>1. IInv => WorkspaceGoesOrStays
  <2> SUFFICES ASSUME IInv
               PROVE  WorkspaceGoesOrStays
    OBVIOUS
  <2>1. NothingLeftBehind
    <3> SUFFICES ASSUME NEW d \in temp
                 PROVE  \E r \in Runs : /\ workspace[r] = d
                                        /\ pc[r] # "returned" \/ options[r].keep_temps \/ r \in untidy
      BY DEF NothingLeftBehind
    <3>1. PICK r \in Runs : workspace[r] = d
      BY DEF IInv, Owned
    <3>2. d # None
      BY NothingElseAssumption DEF IInv, Types
    <3> QED
      BY <3>1, <3>2 DEF IInv, OfRun, GoneOrKept
  <2>2. KeptIsThere
    <3> SUFFICES ASSUME NEW r \in Runs, options[r].keep_temps, pc[r] = "returned", workspace[r] # None
                 PROVE  LET kept == files[Temporary(workspace[r], "s")]
                        IN  /\ workspace[r] \in temp
                            /\ kept \in {None, Partial, As("assembly", source[r])}
                            /\ result[r] # "File" => IsA("assembly", kept)
      BY DEF KeptIsThere
    <3>1. IsA("assembly", As("assembly", source[r]))
      <4>1. source[r] \in Content /\ "assembly" \in Kinds
        BY DEF IInv, Types, Kinds
      <4> QED
        BY <4>1, Translated
    <3> QED
      BY <3>1 DEF IInv, OfRun, OwnDirectory
  <2> QED
    BY <2>1, <2>2 DEF WorkspaceGoesOrStays
<1> QED
  BY <1>1, RunsAndDirectories, PTL

(* Success is never reported of an output that is cut short, missing or    *)
(* of another text, unless two runs were told to write it; and no file is  *)
(* damaged but by a write under way, a failure that is reported, a signal  *)
(* or two such runs.                                                       *)
THEOREM SuccessIsOfWholeFiles ==
  ASSUME OneRunEach
  PROVE  Spec => []OutputsAreWhole
<1>1. IInv => OutputsAreWhole
  BY DEF IInv, OfRun, Whole, OutputsAreWhole, OkIsWhole
<1> QED
  BY <1>1, RunsAndDirectories, PTL

(* A file changes only when a run that was told to write it opens or       *)
(* closes it, and what is left at the end is the translation of what that  *)
(* run read, unless another run had it open or the run failed or was       *)
(* killed.                                                                 *)
THEOREM FilesAreOwnTranslations ==
  ASSUME OneRunEach
  PROVE  Spec => OwnTranslation
<1> DEFINE A ==
      \A p \in Paths : files'[p] # files[p] =>
       \E r \in Runs :
         /\ p \in Targets(r)
         /\ \/ ~Has(r, p) /\ Has(r, p)' /\ files'[p] = Partial
            \/ /\ Has(r, p) /\ writing'[r] = None
               /\ \/ files'[p] \in Yields(r, p)
                  \/ files'[p] = Partial /\ writing[r].shared
                  \/ files'[p] \in {Partial, None} /\ Interrupted(r)'
<1>1. IInv /\ [Next]_vars => [A]_vars
  <2> SUFFICES ASSUME IInv, Next, NEW p \in Paths, files'[p] # files[p]
               PROVE  \E r \in Runs :
                        /\ p \in Targets(r)
                        /\ \/ ~Has(r, p) /\ Has(r, p)' /\ files'[p] = Partial
                           \/ /\ Has(r, p) /\ writing'[r] = None
                              /\ \/ files'[p] \in Yields(r, p)
                                 \/ files'[p] = Partial /\ writing[r].shared
                                 \/ files'[p] \in {Partial, None} /\ Interrupted(r)'
    OBVIOUS
  <2>1. PICK r \in Runs : Good(r)
    BY NextIsGood
  <2> QED
    BY <2>1 DEF Good, Leaves
<1> HIDE DEF A
<1>2. Spec => [][A]_vars
  BY <1>1, RunsAndDirectories, PTL DEF Spec
<1> QED
  BY <1>2 DEF OwnTranslation, A
==============================================================================
