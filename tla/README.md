# A verification of rustycc

`rustycc` compiles a subset of C to ARM64 assembly for macOS, and has `clang`
assemble and link the result. This directory holds TLA+ models of it, the TLC
configurations that check them on small instances, and TLAPS proofs of the
theorems that hold for every instance. Paths below are relative to the
repository; `src/...` is the Rust crate.

To check a run: `tlc -config MCParser.cfg MCParser`. To check proofs:
`tlapm FrameLayoutProofs.tla`.

## 1. The system

The compiler is one sequential process. Each pass is a function from the whole
output of the pass before it to its own, and any diagnostic of a pass stops the
pipeline after it. Only the driver talks to the outside.

    bytes -> lexer -> tokens -> parser -> tree -> analyzer -> annotations
          -> code generator -> assembly -> driver (clang -c, clang) -> executable
                                                        + runtime shim

| Component | State it keeps | Operations | What makes it correct |
|---|---|---|---|
| Lexer (`src/lexer`) | offset, whether a line begins, tokens | skip trivia and directives, scan words, numbers, literals, operators | longest match; literals keep their value; every defect is reported once |
| Parser (`src/parser`) | position, depth, diagnostics | one method per grammar rule, `nested`/`deepen`/`restoring_depth`, `recover_from` | accepts the grammar, builds C's trees, ends on every stream, gives depth back on every way out, recovers without losing a block |
| Scopes (`src/sema/scope.rs`) | symbols, scope stack, next slot | enter and leave blocks and functions, declare, look up | innermost binding wins, shadowed names come back, slots are numbered per function |
| Analyzer (`src/sema/mod.rs`) | scopes, loop count, depth, current function, annotations | collect the top level, check each body, type each expression | resolves, types and folds as C does; converts each value to what uses it; one mistake gives one report; reports misuse of `break`, `return`, missing returns |
| Types and annotations (`src/sema/types.rs`, `annotations.rs`) | types, conversions, strings and frame inventories by node | layouts, promotions, assignability, interning | one answer for analysis and code generation |
| Frame layout (`src/codegen/frame.rs`) | offsets of slots, temporaries, arguments; size | survey a body, `build`, prologue and epilogue | nothing overlaps, the survey is enough, the epilogue undoes the prologue |
| Expression lowering (`src/codegen/expr.rs`) | depth, call depth | one method per expression form | saved values survive; same value and effects as C |
| Statement lowering (`src/codegen/stmt.rs`) | labels of the loops around | one method per statement | branches go where C says, initializers fill exactly their object |
| Emitter (`src/codegen/emit.rs`) | section buffers, label counter | instructions, labels, data | immediates fit, labels are unique |
| Pipeline (`src/lib.rs`, `cli.rs`) | options | `compile`, `run`, `emit` | stops where asked, writes where asked |
| Driver (`src/driver.rs`) | scratch directory | `preflight`, `Workspace::new`, `assemble`, `link`, `Drop` | the output is this input's translation, whole if the run reports success; nothing is left behind |
| Diagnostics (`src/diagnostics.rs`) | a bag, line starts | sort by span, locate, draw the caret line | source order, stable; carets stand under what they are about |
| Runtime shim (`runtime/shim.c`) | bytes written so far | `print_int`, `print_char`, `print_string`, `write_all` | all bytes come out once, in order, whatever `write` does; digits fit their buffer |
| Build script, test harness, generator, fuzz targets | | | not part of the compiler |

How they interact. Tokens, trees, annotations and assembly are handed over
whole. The places where two parts have to agree without checking each other are
the interesting ones: the survey in `frame.rs` and the counters in `expr.rs`;
the slots handed out by `scope.rs` and the offsets of `frame.rs`; the
conversions recorded by analysis and the widths chosen in `expr.rs` and
`stmt.rs`; the caller's and the callee's view of stack arguments; the parser's
depth and the depth limits of later passes; the text an initializer holds and the
type it fills; the return analysis and the branches
the generator emits. Concurrency is between runs of the compiler, which share
the file system and the temporary directory. Failure is a call of the file
system or of `clang` that fails, or a signal.

The hard behaviours, each at its line with the properties that watch it, are the
`hazards` of `PROJECT.json`.

## 2. The modules

| Module | Models | Composed with |
|---|---|---|
| `Alignment` | `align_to` | used by the frame modules |
| `FrameLayout` | `FrameLayout::build`, one object per step | proofs in `FrameLayoutProofs` |
| `ExpressionLowering` | temporaries, argument slots and depth counters of `expr.rs`, with the survey that sized the frame | proofs in `ExpressionLoweringProofs` |
| `Diagnostics` | spans, the stable sort of a bag, lines, columns and carets | used by `Lexer` and `TypeChecker` |
| `Lexer` | every method of `src/lexer/mod.rs`, a token, a piece of trivia or a byte of a literal per step | `LexerReference` |
| `LexerReference` | what a scan should come to: the file cut into the longest pieces, values by place, defects by piece | extends `Lexer` |
| `Parser` | every method of `src/parser`, as a machine with an explicit call stack | `ParserReference`; proofs in `ParserProofs` |
| `ParserReference` | the grammar as data, and trees by splitting at the loosest operator: what the parser is compared with | extends `Parser` |
| `Environment` | abstract: what a name means, with no stack and no search | implemented by `Scopes` |
| `Scopes` | the symbol table and scope stack, driven by the analyzer's walk | proofs in `ScopesProofs` |
| `ReturnAnalysis` | depth guard, loop count, `always_returns`, `escapes_the_loop`, and the control flow of the code that results | proofs in `ReturnAnalysisProofs` |
| `Syntax`, `Types` | trees; types, layouts and conversions | used by all that follows |
| `TypeChecker` | `type_of`, `carry_into`, `type_initializer`, `constant_value` and their reports, as a machine that builds an expression and types it | extends `Types` and `Diagnostics`; proofs in `TypeCheckerProofs` |
| `TypeJudgement` | when an expression is well typed, in C and in the narrower subset, without recovery or conversions: what the analyzer is compared with | extends `TypeChecker` |
| `CTypes` | the types and frame slots of an accepted program | used by the compiler model |
| `FrameSurvey` | `requirements` and `FrameLayout::build` as functions of a tree | `CodeGenerator` |
| `Instructions` | instructions as records, and the emitter's choices by reach | `CodeGenerator` |
| `CodeGenerator` | all of `expr.rs`, `stmt.rs`, prologues and epilogues: tree to instructions | `CompiledProgram` |
| `CSemantics` | what C says a program prints and returns: the reference | `CompiledProgram` |
| `CompiledProgram` | data sections, and the processor executing the code | extends the two above |
| `SamplePrograms` | the programs compiled | the `MC...` modules |
| `Driver` | `run`, `emit`, `build`, `Workspace` for several runs at once | proofs in `DriverProofs` |
| `Shim` | `runtime/shim.c` over the `write` system call | proofs in `ShimProofs` |

Correspondence, module by module.

`FrameLayout`: the declared slots (`frame`) and the survey's results (`needs`)
are inputs; `cursor` and `size` are locals of `build`, `place` joins its
`offsets`, `temporaries` and `arguments` by owner, and a step is one iteration of
one of its three loops (`pc`). `Finish` rounds the size and adds the outgoing
area.

`ExpressionLowering`: `stack` is the Rust call stack of `Generator`'s expression
methods, `depth` and `call_depth` its fields. Shapes are chosen when reached,
bounded by what the survey measured, so a behaviour is a body of arbitrary
expressions and not of one tree. `temps` and `parked` are the frame's slots with
the activation that wrote them last.

`Lexer`: the variables are the fields of the Rust `Lexer`, plus the literal whose
body is being read, which there is a local of `scan_literal_body`. A byte is named
by its character and a token's kind by its spelling. A step is one call of a
method that cannot be told apart from the outside: one byte of whitespace, one
comment, one word. `LexerReference` never scans: it asks of two offsets whether
what lies between is a word, a closed literal, a directive, and takes the longest;
a number there is the sum of its digits at their places, a string the bytes that
no odd run of backslashes escapes.

`Parser`: `work` is the call stack, next call first; `restore` and `catch` items
are the ends of `restoring_depth` and the `match` on `Err(Bail)`. Tokens are
kinds. A bail drops the calls up to the nearest `catch`, restoring the depths
passed on the way.

`Scopes`: variables are the fields of `Scopes`, plus the constructs of the walk
that are open (`nest`), the analyzer's `loop_depth`, the frame inventory and the
bindings recorded. An initializer's names resolve before its declaration binds,
since `declare_local` types it first.

`TypeChecker`: the analyzer types a node after its parts, so the model keeps a
stack of typed expressions (`typed`) and its steps push a leaf or join the last
few into a node: a behaviour is the typing of some expression, and every
expression of the bounded size occurs. The statement or declaration around it
(`place`) is chosen first and has its own checks before and after. `conversion` on
a node is what `Annotations` records for it; `diagnostics` is the bag in the order
of discovery and `analysis` what `finish` hands on. Positions are offsets with a
gap between operands, so spans nest and follow as they do in a text. Expressions
that fold are kept as their value alone, since no rule looks inside them. The
expressions built go at most `Levels` levels deep, which is what the depth guard of
`expr_used_as` leaves them under the statements around them; one that goes deeper is
not built, and the guard's report is not modelled (section 6).

`TypeJudgement` has two judgements, since the code follows neither of its documents to
the letter. `AllowedByC` is C without arithmetic and comparison of addresses. `WellTyped`
is the subset of ADR 0007 and `docs/dive-deep/language-subset.md`: besides, an array
becomes an address only as an argument, and an address is only passed on or, named,
subscripted (`AddressesUsedFreely`). The documents say of a parameter that indexing is
its only legal use; passing it on counts as legal here as well, because the corpus does it
and names it as covered (`tests/programs/COVERAGE.md:153`). What is claimed
(`AcceptedIsWellTyped`) is that the analyzer accepts all that is `WellTyped` and nothing
that is not `AllowedByC`. Of what lies between, it accepts what the documents forbid,
which the claims `DecaysOnlyAsArgument` and `AddressesStayInTheirPlaces` show
(section 3).

`Shim`: `pc` is where the program is in the shim. The three ways `write` returns
are actions of their own, the kernel's; `result_of_write` is what the loop makes of
each. `digits` is the buffer from `index` on, and what lies below was not written.

`ReturnAnalysis`: the analyzer's judgement is a function of the body, applied in
one step as the pipeline does; then the body runs, conditions that are not
constant taking either value at each test. The functions of the source that call
themselves are recursive functions over `Statements`, the statements a run or a
theorem is about, and over the depth their guards count.

`CodeGenerator` and `CompiledProgram`: generator methods are operators that take
and return the generator's state. The processor has registers of two 32-bit
halves, byte memory, and calls to the runtime that destroy the caller-saved
registers. Storage the program did not write holds a garbage byte that is a
parameter of the run. `Images` and `Meanings` are what the generator makes of each
program and what C says of it, as constants: every program is compiled and
interpreted once, before it runs, and an assumption ties them to `Compiled` and
`Interpreted`.

`Driver`: each run is a program counter over the calls of `run`, `emit` and
`build`. Files hold what kind of thing they are and the C file it came from, or are
`Partial`: cut short, or a mix of two. Nothing that takes time is one step. `fs::write`
opens and empties the file (`create`) and later closes it (`write`); clang comes to its
output (`start`) and later ends (`run`); a read begins and reaches its end
(`read_to_end`). In between the file is open (`writing`) and the other runs go on. Two
writers of one file leave either's text or a mix, and a reader of a file that is being
written sees its old text, its new one or a part (`Seen`). Every call may fail, and a
write or a clang that fails may leave its file cut short. `kill` ends a process without
its destructors wherever it is, also inside a write, and a clang it had started either
dies or goes on (`orphan`). A clang that was started is taken to hand back its output and
status: `Command::output` fails only to start one.

## 3. The runs

Passing runs:

| Run | Shows | Bounds, and why they are enough |
|---|---|---|
| `frame_layout` | no two objects of a frame overlap; each is aligned and above the saved pair; the frame ends at or below the incoming arguments; every need has a place | up to 3 slots out of 5 sizes, up to 2 temporaries, 2 argument rows of 2, outgoing 0 or 16: every transition between the loops and every rounding. The theorems remove the bounds |
| `expression_lowering` | saved operands and parked arguments survive, the survey is enough, counters return to zero | five levels of nesting, calls of 2 arguments nested 2 deep: an operator inside an argument inside an operator inside an argument. The theorems remove the bounds |
| `compiled_programs` | eight sample programs and some five hundred two-operator expressions over an int, a char and a call print, return and leave in their globals what C says; `ret` finds the caller's registers; instructions encode, accesses land and branches have one place to go; stores stay in objects; programs end | reaches of immediates scaled down (40 to 100 bytes), so that scratch-register paths and the second prologue occur in frames TLC can hold; the garbage byte is 170, whose sign bit is set; two operators put each spill inside each other |
| `lexer` | tokens are the longest pieces of the file; literals keep their value; every defect is reported once, at its bytes; carets stand under them | nine families of files: every file of up to 4 to 6 bytes over the 3 to 8 that decide one part of the scan (comments, directives and splices, escapes, radices, operators, lines). `int` ends at 127 and the sum of digits at 1023, so that four digits overflow the one and saturate the other |
| `parser` | the parser ends; levels are given back and stay within the limit; blocks close at their brace; accepts exactly the (wider) grammar; trees are C's | all sequences of up to 3 or 4 relevant tokens at each place of a program that goes on afterwards; depth limit 6, which the `Deep` family crosses |
| `name_resolution` | slots are dense, per function, and every variable that resolves has one; bindings stay true; `Scopes` implements `Environment` | 2 names, 4 symbols, nesting 2: shadowing, siblings and a second function |
| `type_checker` | what the subset types is accepted and what is accepted C types; each value is converted to what uses it; one wrong name gives one report; reports keep the order of the source; constants fold as C defines | every expression of up to 4 nodes over seven names (an int, a char, two arrays, a pointer, two functions) and one undeclared, in 5 statements and 32 declarations: an operator on an operator, a call with two arguments, a list of three. Where nothing folds one operator stands for its class (`Sampled`); constants fold under all of them, with `int` cut to -4 .. 3, where both overflows of division occur. `Levels` is 4, all that four nodes can use. The theorems remove the bounds, but for `RecoveryStaysSilent` |
| `return_analysis` | an accepted body no deeper than half the limit does not run off its end; `break` and `continue` find a loop | all bodies of 2 statements one level deep or 1 statement two deep, plus nests of blocks; the limit is 8 so that nests reach it |
| `driver` | scratch directories go, or stay with `--keep-temps`; files change only as asked and into own translations; success is of whole files, and a cut or mixed one has a failure, a signal or a rival to explain it; runs end | 2 runs in 2 processes, 7 command lines, 2 clock readings, every failure and kill, inside writes as well as between them. The lines include two inputs with one output (`out`), a file that is one run's `--emit-asm-to` and the other's output (`a.s`), and an output over an input, its own and the other run's (`b`) |
| `shim` | the digits of every int fit the buffer; every byte comes out once and in order until a write fails, and none is repeated after; calls return | every int of 8 bits alone, and all pairs of edge values, characters and strings; a write may take any part of its bytes. 8 bits have the same edge at their least int, with a buffer that is as tight |

Each property has a mutant: a plausible bug in one mapped definition that
makes the run find it violated. The mutants are the operators whose comment
calls them a fault or a bug, next to the definition they would replace. Modules
whose `TypeOK` is not in a run's configuration can be checked for it by adding it there.

Runs that find a claim of the repository violated (each with its quoted line in
`findings`):

| Run | Claim refuted |
|---|---|
| `widening` | a char is widened to int: when it initializes an int local, one byte of the int is written |
| `text_in_int_array` | text is exempt from assignment for `char` arrays only: `int a[4] = "abc";` is accepted too, and its bytes are stored over the ints |

Further claims that the models refute. They are not among the listed runs; each is
checked by hand, by putting the claim in place of the properties of the
configuration named, with the change of constants given:

| Claim | Configuration | Change | What is claimed, and what happens |
|---|---|---|---|
| `OnlyAnArrayCanBeOverrun` | `MCFindingWidening` | `Programs <- ScalarBraceList` | `sema/mod.rs:514`, only an array's initializer can overrun: `int x = {1, 2, 3};` stores over what follows x |
| `NarrowingKeepsTheLowByte` | `MCFindingWidening` | `Programs <- IntNarrowedToChar` | `sema/types.rs:81`, a narrowed int keeps the low byte: the value of `c = 300`, `++c` and a returned char is the whole int |
| `AGlobalKeepsTheLowByte` | `MCFindingWidening` | `Programs <- WideGlobalChar`, `MemoryBytes = 640` | the same: `char c = 300;` becomes `.byte 300`, which does not assemble |
| `ArraysDecayOnlyAtArguments` | `MCFindingWidening` | `Programs <- ArrayAssignedToParameter` | `sema/types.rs:12`: arrays decay in an assignment to an array parameter too, which then writes into the caller's array |
| `TheImmediateReaches512Bytes` | `MCFindingWidening` | `Programs <- FrameOf512Bytes`, `MemoryBytes = 640` | `docs/dive-deep/code-generation.md:61`, the small prologue's immediate reaches 512 bytes: the `ldp` that closes that frame does not |
| `TreeStaysWithinTheLimit` | `MCParserTreeLimit` | | `parser/mod.rs:30`, the tree never passes the nesting limit: a deep left operand under a long chain does |
| `BraceBelongsToTheBlock` | `MCParserTreeLimit` | `Inputs <- BrokenBraceList`, `MaxDepth = 128` | `parser/mod.rs:591`, a `}` at depth zero of recovery belongs to the block around: it may be a broken brace list's |
| `TargetsAreTheGrammars` | `MCParserTreeLimit` | `Inputs <- ElementOfCall`, `MaxDepth = 128` | `parser/expr.rs:355`, targets are the grammar's: `f(a)[a] = a` is accepted |
| `OctalEscapesAreRefused` | `MCLexer` | | `docs/dive-deep/language-subset.md:50`, nothing outside the subset is silently accepted: `"\07"` is read as a NUL and a `7` |
| `SplicedCommentsGoOn` | `MCLexer` | | the same: a `//` comment ends at its line although a backslash splices the next line to it, which is then read as code |
| `DirectivesAreSkippedWhole` | `MCLexer` | | `docs/dive-deep/lexer.md:42`, a directive is skipped: one that opens a block comment leaves the rest of the comment to be read as code |
| `DecaysOnlyAsArgument` | `MCTypeChecker` | | `sema/types.rs:12`, an array becomes a pointer at the argument position only: `p = ""` with an array parameter `p` is accepted, and the decay recorded |
| `AddressesStayInTheirPlaces` | `MCTypeChecker` | | `docs/dive-deep/language-subset.md:33`, indexing is the only legal use of an array parameter, and of 35, text is legal only as an argument or an initializer: `!p`, `p = a` and `"s"[0]` are accepted |
| `OneMistakeOneMessage` | `MCTypeChecker` | | `sema/types.rs:48`, one mistake, one message: a unary operator on an array reports it and has the array's type, so `x = -a` is reported twice |
| `SilenceMeansTooDeep` | `MCReturnAnalysis` | `Bodies <- MCNested` | `sema/mod.rs:1028`, `always_returns` is silent only about trees already reported as too deep: an int function whose blocks nest to half the limit falls off its end unreported |
| `ReportedOnlyWhenSure` | `MCReturnAnalysis` | | `sema/mod.rs:1027`, a missing return is raised only where the analysis is sure: `if (1) return 1;` is reported |
| `TempPathsAreUnique` | `MCDriver` | `process <- Together` | `docs/dive-deep/driver.md:10`, scratch paths are unique: two runs of one process that read the same nanoseconds share one |
| `CompilationsDoNotCollide` | `MCDriver` | | `docs/dive-deep/driver.md:10`, two concurrent compilations cannot collide: their scratch directories cannot, but two told to write one file interleave their truncating and writing, and both return `Ok` of a mix |
| `RemovedHoweverTheRunEnds` | `MCDriver` | | `driver.rs:10`, removed however the run ends: not after a signal |
| `OutputIsBesideTheInput` | `MCDriver` | | `lib.rs:227`, output beside the input: it is in the working directory |

`Together` puts both runs in one process (the library's `run` called twice,
as tests and threads may); separate processes have distinct ids. The passing
`driver` run gives each run its own process. A process id is not reused while
its scratch directory exists in either.

Seen while reading, and modelled as it is: the comment on `resolve`
(`sema/mod.rs:805`) says an unresolved name is typed `int`, and the code types it
`Ty::Error`, which is what keeps recovery silent (`RecoveryStaysSilent` fails of
`int`); a global `0 && 1 / 0` is refused, since both sides have to fold; a character literal of a byte from 128 on is loaded
unsigned (`codegen/expr.rs:60`), and differs from the char it was stored in; `preflight` ignores the exit status of
`clang --version`; an input without an extension in the working directory is
overwritten by its own executable (`driver` has such a command line, and
`OwnTranslation` admits it, since the file is the run's output).

## 4. Fairness

`Shim`: weak fairness of the program, and strong fairness of a `write` that is let through or refused:
signals may interrupt a call any number of times, but not every time for ever, or
`write_all` would try for ever as well.

`Parser`: `WF_vars(Next)`, since a sequential program with a call left to make
makes it. `CompiledProgram`: `WF_vars(Next)`, since a processor goes on executing.
`Driver`: weak fairness of each run's own steps, since no run waits for another
and every call of the operating system and of `clang` is taken to return; kills,
and what an orphaned clang still does, have no fairness. The other modules have safety properties only and state none.

## 5. What is proved

All theorems are for every value of the constants, from the named assumptions of
the modules (`LoweringNeedsAssumption` and its like), which TLC also evaluates.

`FrameLayoutProofs`. `NoOverlap` is not inductive: a step needs to know that
everything placed lies below the cursor, and that the owner it places is new. The
invariant `IInv` adds both: each loop index is in range (`LoopsInRange`), the
domain of `place` is exactly what the loops have run through (`PlacedSoFar`), and
everything placed ends at or before the cursor (`BelowCursor`). `Closed` relates
the size of a finished frame to its cursor. Lemma `AlignTo` says that `align_to`
returns a multiple of the alignment at or above its argument, and `PutKeepsApart`
that placing one more object past the cursor keeps the invariant's parts; the
step lemma then has one case per action. From it follow `LayoutTypeOK`,
`LayoutNoOverlap`, `LayoutAligned`, `LayoutEndsBelowIncoming` and
`LayoutPlacesEveryNeed`.

`ExpressionLoweringProofs`. `SpilledSurvives` needs the reason no two
activations share a temporary: an operand reached through `deeper` has depth one
more than its parent, and one reached through an argument the *same* depth as
the call, but a call holds no temporary. The invariant's `Shape` says so along
the whole stack: the counters of each activation follow from the one below and
the route between them (`Routed`), hence never fall and rise strictly above
whatever saves there (`Nested`); they stay within what the survey measured and
the survey's call depth is the generator's (`Within`); and the generator's
fields are those of the innermost activation (`Counters`). With it
`SpilledSurvives`, `ParkedSurvives` and `SurveySuffices` are inductive, and
`CountersRestored` follows. The theorems are `SpillDiscipline`, `ParkDiscipline`,
`SurveyIsEnough`, `CountersReturn` and `LoweringTypeOK`.

`ScopesProofs`. `ScopesHoldSymbols` says every id in a scope is of a symbol.
`ScopesImplementEnvironment` is the refinement: opening, closing and declaring
on the stack map to `Open`, `Close` and `Bind` of `Environment`, everything else
to a stutter. The lemmas are about `lookup` as a search: what appending a scope,
removing one, or adding an id to the innermost does to what each name resolves
to. `BindingsAreKept` follows from the same invariant. `SlotsAreFrames` needs another
one: the depth of the scope stack is that of the constructs the walk is in
(`Stacked`), since a frame is complete only when the function's own scopes are
closed; the number of a slot is its place in the frame (`Numbered`); and every
symbol of an open scope of the function is in the frame (`Placed`).

`DriverProofs`. The theorems are under the hypothesis `OneRunEach`, that each run is
a process of its own, as every invocation of the compiler is; two runs in one
process may give their scratch directories one name (`TempPathsAreUnique`, section
3). `NothingElseAssumption` is about the model's own values: the marks for no file
and for a file cut short are no contents, results, paths or names of directories. No
property is inductive without the reason that runs do not meet in their directories: the
name of one bears its process (`OwnName`), so no other run has a file in it open
(`OwnFile`), and what clang reads there is what its run wrote, whole (`OwnDirectory`),
and stays so until clang ends (`CloseLeaves`). They do meet in the files they were told
to write. `OwnWrite` says what a run may have open: only such a file or one of its own
directory, for what is made of its own source, and if another has it open too, that one
was told to write it as well (`Proper`). So the end of a write leaves the translation of
the run's own source, or the file is one with a rival, or the run fails. `AllIsWritten`
carries that to the return: of a run that reports success every file without a rival is
whole. `IInv` says this of each run by its program counter (`OfRun`), with
`DamageIsExplained` of every file, and that every directory that exists has a run
(`Owned`) which is not over or has kept it. One lemma for each action shows it of the run
that steps; `LeavesOthersAlone` is what a step may not touch, and `OthersStay` that all
of the above survives it, in the steps of other runs, of signals and of orphans. From
it follow `DirectoriesGoOrStay`, `SuccessIsOfWholeFiles` and the action property
`FilesAreOwnTranslations`, for any number of runs, paths and command lines, whichever
calls fail, whoever is killed and however writes interleave.

`ParserProofs`. `LevelsAreGivenBack` speaks of two places of the loop only, and what
makes it true is spread over all the calls still to make. The proof numbers them from
the last, so that a call keeps its number until it is made, and gives each call of the
statement grammar its level, the number of `restoring_depth`s below it. The invariant
says that each of them will be made at its level (`GivenBack`): the depth is its
level and nothing until then changes it, or the last `restoring_depth` before it puts
its level back, or it is the body of a statement whose level is being opened.
`Anchored` says that an error is always caught, so that a bail is defined. The steps
fall into eight classes by what they do to the calls and the depth (`WorkStep`); one
lemma for each class shows it keeps the invariant, and four lemmas put every action in
its class. The theorems are `CallsKeepTheirLevel`, which is also that the parser never
reads past its tokens nor parses deeper than the limit, and `LevelsAreAlwaysGivenBack`.

The second part of the module is about braces. `BlocksCloseAtTheirBrace` speaks of blocks that are complete; the
invariant has to speak of those being parsed, and of where a brace can be read at all.
`Counted` is the count: the braces read since a block began and not yet closed are the
blocks and brace lists still to be closed before it, and none was closed that was open
when it began (`Balanced`). It holds once the advance that is next has been made, so
`Shape` says what may stand on top of an advance, that no token an `expect` waits for
is a brace, that the end of a block comes right after its loop, and that the loop over
a block began its pass at a token that is no `}`. Lemma `SkipKeepsBalance` is about
`skip_to_boundary`: the first place where it may stop has every brace it passed closed
and none before it. `RecoveryKeepsBalance` adds that `recover_from` never has to force
its way over the `}` of a block, and `NoBlockAbandoned` that no block's end lies between
an error and the loop that catches it. The end of a *list* may lie there, which is the
exception the property makes. The steps fall into eight classes again (`BlockStep`).
The theorems are `OpenBracesAreOpenBlocks` and `BlocksAlwaysCloseAtTheirBrace`. The
SMT backend cannot read the strings `"{"`, `"}"` and `";"`, so the proofs call those
tokens `Left`, `Right` and `End` and lets only Zenon look inside the names.

`ShimProofs`. That nothing is stored below `print_int`'s buffer is not inductive: a
step that stores a digit has to know that room is left for it and for the sign. The
invariant adds that what is left of the magnitude is below the power of ten of the
room beside the sign (`RoomForTheRest`). `MagnitudeIsSize` says that negation in
unsigned arithmetic gives the magnitude of INT_MIN too, and `OneDigitLess` that a
digit takes one place and a factor of ten, so that the loop ends when one place is
left. That gives `DigitsFit`; that the buffer is long enough for the digits of INT_MIN
and a sign is the assumption, which the constants of `shim.c` meet (`char digits[12]`).

`EveryByteOnceInOrder` needs to know what each byte `write_all` holds is of what the
program asked for. `Balanced` says it: what was asked for is what came through, or
would have if no write had failed, followed by `Rest`, which `pc` tells where to find:
the text of a call just made, the string not yet walked, the bytes not yet written and
what follows them. A write takes bytes off the front of `Rest` and puts them on the
output (`Comes`), a failure takes the bytes of its call off and puts them nowhere
(`IsLost`), and every other step leaves `Rest` as it is. For an int that is the numeral
of C, so `Numbered` says that the digits stored so far are its last figures and the
magnitude what they leave of it; `TenfoldQuotient` is the arithmetic and
`NumeralLengthIs` that the loop ends at the numeral's length. `Returned` says that a
result of zero or less, with no failure remembered, is an interruption: the one case in
which the loop tries again. What has been asked for is a fold over the calls
(`FlattenSeq`); `FlattenOneMore` says what one call adds. Its induction is by a least
counterexample (`HasLeast`), since the library's induction theorems take an operator.
The theorem is `EveryByteComesOnce`, for every program, width of int and behaviour of
`write`.

`ReturnAnalysisProofs`. `StatementAssumption` says what the parser can build: which
parts a statement of each kind has. Nothing is assumed of how statements nest, not
even that they do not contain themselves, because every function here that recurses
over them carries a depth and stops at the limit. So its values at one depth are given
by those one or two deeper, and the first part of the module shows on that ground that
`stmt_walk`, `always_returns`, `escapes_the_loop` and `PastHalf` exist and satisfy their
equations (`CountsDown`, `FromTheLimit`), that a walk never takes a
report back nor changes the count of loops it was given (`WalkGrows`), and hence that of
a body walked without a report every statement was (`QuietInTurn`).

The second part is about `todo`, what is left to execute. `NoSilentFall` is not
inductive: a run must know why control cannot reach the closing brace. `RunInv` says
that some item of `todo` always returns and that nothing leads past it
(`HeldSomewhere`): no loop under way stands after it, and if it is itself a loop
under way, what is left of its body has no `break` of its own (`Held`). The
judgements on which this rests were made at a depth that a block charges twice and
anything else once, so an item keeps the level in the body it comes from (`Room`):
twice the level bounds the depth, and up to half the limit the answers given past the
limit, TRUE and FALSE, are never met. One lemma per kind of statement says what may
take its place (`Replaces`): an arm, a block's statements, a loop's body and the loop
under way. For jumps, `RunInv` says that what stands under no loop was walked with a
count of zero and nothing reported (`Innocent`), so it is neither `break` nor
`continue`. The theorems are `SomethingLeftReturns`, `AcceptedNeverFallsSilently` and
`AcceptedJumpsFindALoop`, for every set of statements, every body and every limit.

`TypeCheckerProofs`. `TypeCheckerAssumption` says what the names in scope may be
declared as, what types can be written, and that a character fits an int; the theorems
are for every such table of names, every statement or declaration and every expression
the depth guard lets the walk descend, for every depth it may leave (`Levels`). They say
nothing of deeper ones, which the guard reports and refuses, well typed or not. That what
is accepted C types, and what the subset types is accepted, is about the end of the walk,
and what makes it true is a property of every expression on the way. Analysis and judgement go
over an expression in parallel, one with types it recovers and reports, the other with
sorts and silent; the invariant ties them on the stack. An expression is `Accurate` if
its type is of its sort, or it has none, and `Right` if it has one. The bag is empty
exactly if every expression on the stack is right and the head of the declaration was
(`ReportedAsWrong`): nothing wrong goes unreported because an error type let it pass,
since what made it an error was reported, and nothing right is reported. As long as the
bag is empty, every expression is `Consistent`: each of its parts has the conversion its
node computes with (`ConvertedAsUsed`). One lemma for each kind of node (`UnaryBuilds`
to `CallBuilds`) says this of a node, given it of its operands; `AssignsAsItFits` says
that `assignability` refuses exactly what does not fit, and `ArrivesAsExpected` that what
it passes gets there with the type wanted. The steps that end a statement or a
declaration carry it over to the whole (`Judged`). What is proved on the way is that the
analyzer accepts exactly what is `AllowedByC`; `AcceptedIsWellTyped` asks less of it,
since the documents do not want all of that accepted. The theorems are
`ReportsAreOfWhatIsWrong`, `AcceptsTheWellTyped` and `ConvertsForEveryUse`.

Sorts are defined over expressions by recursion, which the provers can follow only on
numbers. `TypeJudgement` therefore defines them over the expressions of a bounded
height (`Trees`, in `TypeChecker`), and the invariant says that an expression is no higher than it is large
(`Grown`). `SortIs` and `InsideIs` are the equations that follow; sizes, joined reports
and the sort are folds (`SizesAdd`, `Flattened`, `InsertsInTurn`), whose inductions are
by a least counterexample.

`ConstantsFold` needs of a state only that constants on the stack are ints
(`Accurate`); the rest is arithmetic. `TruncatedIs` says that the quotient towards zero
leaves a remainder smaller than the divisor and of the dividend's sign, `DivisionIsOne`
that no other does, and `DivisionsAre` that C's definition of division therefore names
this one, or none for a divisor of zero. `ReportsInOrder` is about the stable sort: an
insertion goes behind what the report's span does not precede, which in a sorted
sequence are its first members (`Bounds`), so that order and turns are kept
(`InsertedInOrder`).

Only model-checked: the scanner, what trees the parser builds and compiled programs;
that one wrong name gives one report (`RecoveryStaysSilent`), which compares an
expression with what it would have been with another name in it; all liveness (TLAPS
proves no liveness under fairness here); and what is recursive over the trees of the
compiled samples and of the grammar, for which the installed provers have no induction.
The return analysis and type analysis escape that only because their recursion is
bounded, by a depth the walk carries and by the size of the expression.

## 6. What is abstracted or left out

- Arithmetic in `CompiledProgram` is on unbounded integers: signed overflow is
  undefined in C, and no sample overflows. Bytes are cut where storage cuts them.
- Evaluation order: the samples do not depend on the order of operands, since C
  leaves it open; the order the code uses is the model's.
- The reach of `cbz` and `b` is not modelled; functions are far shorter.
- `CompiledProgram` takes a `.byte` value the assembler refuses to be any outside
  -128 .. 255.
- Node ids, message texts, notes and dumps, everywhere; spans, but for `Lexer`,
  `Diagnostics` and `TypeChecker`.
- `Parser` takes every identifier as one; the code refuses those spelled like a keyword
  of C outside the subset.
- The run of `Shim` gives `print_int`'s buffer no byte to spare; `char digits[12]` of
  the program has one. The theorems are for both.
- The parser's token streams stand without space between tokens, so `+ =` is the
  adjacent `+=` that the parser reports.
- The build script (it only calls clang), and the test code: harness, generator
  and fuzz targets.
- In `CompiledProgram` the shim appends to the output in one step; `Shim` says what
  a call of it does. Its programs are ones analysis accepts, and its
  `constant_value` folds without overflow checks, which are in `TypeChecker`.
- The depth guard of `expr_used_as`. The analyzer charges a level for each statement and
  expression around a node, and past `MAX_NESTING_DEPTH` (128) reports "nesting is too
  deep" once, records `int` and looks no further. `TypeChecker` has the bound (`Levels`)
  and not the refusal: it builds only what the guard lets the walk descend. An
  expression that folds is one node there, and is taken to be within the guard too. The
  parser does not keep trees within the same bound, whatever the comment on `enter` says
  (`TreeStaysWithinTheLimit`, section 3), so deeper ones can get there.
- `TypeChecker` takes the types of names as given and has no signatures: that a
  prototype agrees with its definition, that a function returns no array and that
  a parameter is not `void` is not modelled.
- That the scan ends is not stated as a property: `Lexer`'s are about finished files,
  and every step of it but the last consumes a byte.
- `LexerReference` compares the kinds of tokens by spelling; that the parser gets
  the same kinds is by reading, for its streams are sequences of kinds.
- The run of `ReturnAnalysis` uses a limit of 8 in place of 128; what it checks is
  proved for every limit.

## 7. Plan

Written in this order, most central first: frame layout and its proofs;
expression lowering and its proofs; the executable compiler model and its
samples; the parser and its reference; scopes, their environment and the
refinement proof; the driver; the return analysis; the scanner with its
diagnostics; the shim; type analysis against C's judgement.

Next, in models: the reconciling of declarations at file scope
(`declare_function`) with what a body may then call; string interning; the
harness's wait with a deadline.

Worth proving next: `RecoveryStaysSilent` of the type analysis, by induction on the
nodes typed so far: a node over the wrong name is `Ty::Error` or of the sort it has
when the name is mended, so that what accepts the one is silent about the other.
Then, in `Lexer`, that spans lie in the file and do not overlap
(`TypeOK` of `LexerReference`), which `CaretsPointIntoTheirLine` rests on. What a
token is spelled stays with TLC, since the provers do not read inside strings.
