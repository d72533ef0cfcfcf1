------------------------------ MODULE MCDriver ------------------------------
(* Two runs, each of a process of its own, of two C files: one in another  *)
(* directory, one without an extension in the working directory.           *)
EXTENDS Driver

At(dir, stem, ext) == [dir |-> dir, stem |-> stem, ext |-> ext]
Here == <<"working directory">>
Src == <<"src">>

MCInputs == {At(Src, "a", "c"), At(Here, "b", "")}
MCPaths == MCInputs \cup {At(Src, "a", ext) : ext \in {"", "s", "o"}}
                    \cup {At(Here, "a", ext) : ext \in {"", "s", "o"}}
                    \cup {At(Here, "out", "")}

Line(input, stage, target, asm, keep) ==
  [input |-> input, stage |-> stage, output |-> target, emit_asm_to |-> asm, keep_temps |-> keep]

MCInvocations == {
  Line(At(Src, "a", "c"), "Executable", None, None, FALSE),
  Line(At(Here, "b", ""), "Executable", At(Here, "out", ""), At(Here, "a", "s"), FALSE),
  Line(At(Here, "b", ""), "Executable", None, None, TRUE),
  Line(At(Src, "a", "c"), "Object", None, None, TRUE),
  Line(At(Src, "a", "c"), "Object", At(Here, "out", ""), None, FALSE),
  Line(At(Src, "a", "c"), "Assembly", None, None, FALSE),
  Line(At(Here, "b", ""), "Check", None, None, FALSE)}

Apart == [r \in {"p", "q"} |-> r]
Together == [r \in {"p", "q"} |-> "one"]
=============================================================================
