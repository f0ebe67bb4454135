# A verification project for the cat-lang compiler

TLA+ modules beside the cat-lang compiler (`src/src/`, driver `src/main.cpp`): models
of the parts whose state is hard to test, the TLC runs that check them on small
instances, and TLAPS proofs for every value of the parameters.

## 1. The system

`compile_pipeline` (main.cpp:75-124) runs

    Lexer -> Parser -> (errors? stop)
      -> Resolver, SemaChecker, FlowChecker, BorrowChecker, TypeChecker
      -> (errors? stop) -> AST passes -> IrEmitter -> CatOptimizer -> JIT or AOT

The five semantic passes all run, even after one of them has reported an error
(`PassManager::run`, pass_manager.h), and share the symbol table and the list of
diagnostics. Everything is sequential: there are no threads and nothing is stored
between two compilations. What is hard here is state that is copied, restored, joined
and cached while a tree or a graph is walked, and algorithms that run to a fixpoint.

| component | state it keeps | operations | what makes it correct | hard because | modules |
|---|---|---|---|---|---|
| lexer | cursor, lookahead | next token, recovery | every character is consumed once | errors inside literals | - |
| parser | current token, the call stack | one function per rule, synchronize | no error exactly for the grammar; it always ends | recovery, the end of the file | `Parser`, `Grammar` |
| symbol table, resolver | scopes, reports | enter/exit scope, declare, resolve; search for recursive structs | a name means what it means in a run; no cycle of structs is missed | scopes of branches, loops and lambdas; visited structs | `SymbolTable`, `Resolver`, `StructCycles` |
| semantic checker | scopes, known list lengths | check item, statement, expression | no wrong report of an index, a jump or a name | a known length is stale behind a branch | `SemaChecker` |
| flow checker | none (a fold over statements) | block, if, loop | a function that is accepted returns on every path | loops that may not run | `FlowChecker` |
| borrow checker | `states`, `borrow_map`, `scope_vars` | one visit per statement and argument | no accepted program uses a moved value or breaks a borrow; no valid one is rejected | maps copied, restored and joined; keyed by name | `BorrowChecker`, `Ownership` |
| type inference | substitution, fresh variables, scopes of its own | unify, infer, check | accepted programs apply every operation to values it is defined for | order of unification; the scopes are built again | `Unifier`, `TypeChecker` |
| driver, pass manager | the context the passes share | run the passes in order | a pass may rely on the ones before it | passes run after errors too | `SemaPasses` |
| AST optimizer | none | rewrites | a rewrite preserves the value | rules applied in a fixed order | - |
| IR emitter, cleanup | environments, cleanup lists, loop targets | emit statement, register/cancel/emit cleanups | what the program allocates is freed once on every path | one list for all paths | `Cleanup` |
| dominator tree | idoms, DFS numbers | build, query | dominance by paths | unreachable blocks | `Dominance`, `DomTree` |
| mem2reg | phi nodes, value stacks | fast paths, placement, renaming, clean-up | every load gets the value last stored | three strategies must agree | `Mem2Reg` |
| dataflow solver | in/out states, worklist | solve | the fixpoint, whatever the order | direction, meet, initial states | `FlowProblem`, `FlowEquations`, `Dataflow` |
| alias analysis | points-to sets, worklist | solve | the least solution | - | - |
| leak checker, function summaries | per-block heap states | transfer, join, rounds | no leak is missed, no reported leak is spurious | cut-offs | `FuncSummaries`, `LeakChecker` |
| runtime list | length, capacity, data | push, pop, grow, copy | length <= capacity | zero capacity, null data | - |
| backends, diagnostics, MLIR emitter, printer | little | - | - | I/O and translation | - |

The parser hands a tree to the semantic passes, which share a context; the emitter reads
what they found out. `DomTree` hands its result to `Mem2Reg`, whose output the leak checker
reads together with the summaries. In the modules this is `SemaPasses`, which composes five
passes on one context; `Mem2Reg` on `Dominance`, which `DomTree` is shown to compute; and
`LeakChecker` on `FuncSummaries`.

`PROJECT.json` lists each with its status, and under `hazards` the lines where it can go
wrong.

## 2. The borrow checker: `BorrowChecker.tla`

The checker walks one function after another. The program it walks is the environment:
a behaviour is the walk over one program, chosen step by step, and an action is the
visit of one statement, of one argument of a call, or of one edge of a block.
Expressions are flattened: `f(a, g(b))` is the visit of `a`, of `b`, of the call of `g`
and of the call of `f`, as `check_expr` recurses. An argument that is copied (a scalar, a
literal) is a read in front of the call, because the code checks every argument as a read
before it applies the first effect (lines 400-405).

| model | code |
|---|---|
| `states` | `states`; a name without an entry reads as `Default`, as `lookup_state`, `is_struct_var` and `is_cref_var` read it |
| `borrow_map` | `borrow_map`; `None` where the code has no entry |
| `frames` | one record per activation of `analyze_block`: its `scope_vars` entry (`names`), and the copies of the two maps that the surrounding construct keeps (`saved_states`, `saved_borrow`), with `merged` of an `if` |
| `call` | the length of `call_borrowers`; the borrower of argument i is i, since the code's `x_$call7_1` is a string no other call has |
| `rejected` | `diag.has_errors()` |
| `stmts` | a bound, not state of the code |

Parameters are kept in the names of the body's frame although the code does not put
them into `scope_vars`: they share the body's scope, and a parameter is never a
borrower. `release_borrow` of a list of borrowers is one step: `Released` is what the k
decrements leave.

Features of the programs are a constant, so that a run can say which it allows: blocks,
loops, branches, lambdas (with captures or not), names that hide outer names
(`shadow`), declarations without a value (`uninit`), and, for `Ownership`, calls that
return scalars.

## 3. What the program really does: `Ownership.tla`

`Ownership` extends `BorrowChecker` with history variables: which variables own a
struct, list or str, whose value is gone on some path and on every path to the
statement being visited, which loans are live, and what the function has done wrong up to
here (`faults`). Every history action is conjoined with the checker's action, so the history
takes the same walk. The rules are those of the checker's messages and of
tests/test_sema.cpp: let and assignment from an owner, an own binding and an argument by
value or as own move; a scalar is copied; a loan lasts until its holder's block or the call
ends; a mutable loan excludes all others.

Every breach of these rules is a fault, also one that no line of the checker looks at:

| fault | the function |
|---|---|
| `read while mutably borrowed` | reads, borrows or moves a variable that has a mutable loan |
| `write while borrowed` | assigns to a variable, or calls a mutating method on it, that has a loan |
| `taken while borrowed` | binds a variable as own, or passes it by value or as own, that has a loan |
| `borrowed twice` | borrows mutably a variable that has a loan |
| `used after a move` | uses a variable whose value every path has moved |
| `part written while borrowed` * | writes a field or an element of a variable that has a loan: an immutable one is accepted (422-441) |
| `moved while borrowed` * | moves by a let or an assignment from a variable that has a loan: an immutable one is accepted (205-206, 267-268, 411-413) |
| `used after a forgotten move` * | uses a variable whose value some path has moved, or every path, one of them by an assignment from it while it was borrowed |

The three marked with a star are `Overlooked`, and `NoConflict` says that they are all that an
accepted function can do wrong: it says of no rule that it is kept where it is not. Of the first
two the repository's texts do not speak. The third is in part the finding of `branch_move`: the
maps of branches are joined by intersection (346-354).

Left out of the history, because the checker keeps no state at all there (BorrowChecker still
walks these programs):

- names that hide others and lambdas that capture, since states are kept by name and a
  lambda's body starts from empty maps. A `let` in an inner block that hides an outer
  variable overwrites its entry (203, 229), so a moved outer variable counts as free behind
  the block: with the feature `shadow`, TLC finds `MovesSurvive` violated;
- `let x: T;` for a struct, or with a name an earlier block used: the entry is the old
  one (181);
- parameters of a lambda that are structs: they have no entry.

An assignment from a borrowed owner gives its value away, but the checker does not mark it
(411-413): it is a fault, the value is in `gone`, and `lost`, which `CertainMovesKnown` compares
with the maps, leaves it out.

## 4. The dominator tree: `Dominance.tla`, `DomTree.tla`

`CatPromotePass` builds `DomTree` and `DomFrontier` for every function in front of mem2reg.
`DomTree` has one action per turn of each loop of domtree.cpp: the recursion of `dfs`
(`stack` holds its activations), the numbering of the postorder, the rounds of
`compute_idoms` with the two fingers of `intersect` (`finger` is finger1, `new_idom` is
finger2, which is what it becomes when they meet), the numbering of the tree and the
runner of `compute_dominance_frontier` (`finger` again). `phase` is the function that
is running; `at` and `pred` are the cursors of the loops. `dom_children` is `Children`,
in ascending order as `compute_children` fills it. `kInvalidBlockId` is N.

`Dominance` is the reference: a dominates b when b is in no set that a path from the
entry can fill without a. `TreeIsExact`, `NumbersAreExact` and `FrontierIsExact` compare
the results with it.

Unreachable blocks are part of the model, because the emitter makes them: behind an if
whose branches all return, `ifcont` has no predecessor. Then `post_order` is shorter than
the number of blocks, and line 71 reads past its end. What is read is any number: a block
(`Strays`: its number in `po_idx` is overwritten) or anything else (`WriteOutside`:
undefined from there on). A block that cannot be reached and branches to a join makes the
runner of lines 209-213 go to `kInvalidBlockId` and write `df` out of bounds; so does
`while c { if a { return 1; } else { return 2; } }`, whose `ifcont` branches to
`while.cond`. With such blocks the fingers may also climb for ever. No text of the
repository says what should happen; the exact properties are about graphs whose
blocks can all be reached. For those they are also proved (section 12). No branch goes to
the entry in any of the graphs (`EntryAssumption`), as LLVM demands of every function.

## 5. Promotion to SSA values: `Mem2Reg.tla`

`PromoteMem2Reg::run` gets `DT` and `DF` and removes the loads and stores of variables.
`Mem2Reg` models what is emitted, the pass, and the execution, in this order (`phase`):

- `emit`. A function is built statement by statement on one of the control flow graphs.
  A statement loads a variable or computes a value otherwise (`from`), then stores it to a
  variable or uses it (`to`). The emitter stores right after every alloca and looks
  variables up by scope, so the first statement of a variable dominates the others. Which
  variables are promotable (`is_promotable`) is left open: `Collect` takes any of them.
- `fast`, `phis`, `rename`, `cleanup` are the stages of mem2reg.h:22-29, one action per
  turn of each loop. Values are named by what computes them, a statement `<<block, k>>` or
  a phi `<<block, variable>>`. `operand` is what each statement uses or stores, and
  `ReplaceAllUses` is LLVM's `replaceAllUsesWith`: it reaches `operand` and the incoming
  values of phis but not the pointers in `value_stacks`. The order of the variables, of the
  worklist (a deque) and of `new_phi_nodes` (a hash map) is left open.
- `run`. The function before and after the pass runs in lockstep: `mem` is what the
  variables of the emitted function hold, `env` the values of the promoted one. A value
  carries the statement that computed it and a bit that changes each time, so a value of
  the previous turn of a loop is not taken for the present one.

`DT` and `DF` are those of `Dominance`, which `TreeIsExact`, `NumbersAreExact` and
`FrontierIsExact` show to be what `DomTree` builds when all blocks can be reached; the
graphs of `Mem2Reg` are such. With unreachable blocks the tree is already undefined
(section 4), and loads in them would outlive their alloca. `LoadsAgree` and
`UsesAreDominated` are proved for every function (section 12).

The store after each alloca matters: without it `try_promote_single_block` would give a
load in front of the stores of its block `undef`, also when the block is a loop. LLVM's
pass, of which the class comment speaks (mem2reg.h:20), leaves that case to the phis. The
emitter never makes it.

## 6. Who frees what: `Cleanup.tla`

The IR emitter decides while it walks a function where `free` is called: each environment
has a list of cleanups, a move cancels one, an assignment emits one on the spot, the end of
a block and every jump emit those of some environments. `Cleanup` has two phases. In
`compile` a behaviour chooses a body statement by statement, and an action does to the
environments what the emitter does and appends to `code` what it emits. In `run` the code
is executed with every branch going either way, on a heap of which only `live` matters.

| model | code |
|---|---|
| a variable (`Slot`) | its alloca; `kind` is its type, `mem` what it holds in the run: an object, the constant of a str, or `Unset` |
| `borrow_kind` | `VarInfo::borrow_kind`. A declaration or parameter with a struct, list or str type owns its value (type.h:71-76, ir_emitter.cpp:191-192, 817-818), and so does a declaration without a type whose value is a pointer, as a struct is (874-876). A list or str declared without its type is `None`: it gets no cleanup at its `let`, and nothing that is moved from or to it by name is invalidated |
| `cleanups`, `loops` | `Env::cleanups` and `Env::loop_info` of the chain of environments, the function's first |
| `CleanupInfo` | `alloca` and `cancelled`; which kind of free it is follows from the variable's type |
| `control` | the activations of `compile_if`, `compile_while` and of the `BlockStmt` case, with `saved` of `compile_while` and the environment (`env`) they are in |
| `label` | the block each `llvm::BasicBlock` of these begins at; an `elif` is an `else` with an `if` in it |
| `terminated` | `GetInsertBlock()->getTerminator()` |
| `Frees(c, k)` | `emit_scope_cleanup` of the environments k, k+1, ...: a block's end has the last, a jump those from `loop_info` on, a return all; the last environment first, each from its last entry to its first (`LaterThan`) |
| `visible`, `moved`, `ends`, ... | not the emitter's: which variables are in scope and which have been moved on some path, so that the programs respect ownership |

The programs read no variable that a path has moved away: the borrow checker accepts some
that do (the run `branch_move`), and nothing could be said of those. They respect one rule
more, each exception to which is a feature; `features` is the set of those a program may
use, one of `FeatureSets`. With one feature allowed and the
bounds of the run, TLC finds (x: violated; the emitted code frees something that is not
live, uses something it has freed, or returns and leaks):

| feature | the program | `FreesLive` | `UsesLive` | `NothingLeaks` |
|---|---|---|---|---|
| `branch let` | declares a struct or list directly in the body of an if or while | x | | x |
| `branch move` | moves a variable from outside on one path only | | | x |
| `branch refill` | assigns it again on one path only (with `branch move`) | x | | x |
| `early return` | returns in a branch while cleanups are pending | | | x |
| `break` | breaks or continues while cleanups are pending in or inside the environment around the loop | x | x | x |
| `inner assign` | assigns to a variable of an outer block | x | x | x |
| `move after assign` | moves a variable that has been assigned | x | x | x |
| `list copy` | moves a list whose cleanup stays (with `untyped list`): from a variable that has a cleanup, by a let without a type, or by an assignment to a list declared without its type | x | x | x |
| `list return` | returns a list that was declared without its type and has been assigned since, so that it has a cleanup (with `untyped list`) | | x | x |
| `untyped list` | declares a list without its type | | | x |
| `indirect call` | passes a value by value to a function held in a variable | x | | |
| `str assign` | assigns to a str (its constant is freed) | x | | |

The environment around the loop is not always the one a jump cleans up to. When an inner loop
ends, `compile_while` puts the outer loop's targets into the inner loop's environment
(ir_emitter.cpp:1022-1023), and they stay there: a later `break` of the outer loop, still in
that environment, finds them there and leaves what is pending further out.

Lists are moved and returned like structs as long as their types are written out: the source
is invalidated, and the cleanup of what is returned is cancelled. What `list copy`, `list return`
and `untyped list` break comes from lists declared without their type.

Nothing in the repository says what the emitted code guarantees, so these are no findings
against a text of it; `cleanup` checks that outside the table all three hold, and that
`branch move`, `early return` and `untyped list` together only leak (`NothingLeaks` is about
programs without features). `Cleanup_proofs` proves both for programs of any size. `OneCleanup`
holds with all features (section 12).

Left out: the bodies of lambdas (their `return` cleans up the environments of the function
around them as well), pointers made by `&` (an untyped let registers them as structs),
`Own` of a list, what fields of a struct hold, clones, and globals.

## 7. Leaks that are reported: `FuncSummaries.tla`, `LeakChecker.tla`

After the optimizer has run, `compute_func_summaries` asks of each function of the module
whether it returns a new object and whether it frees its arguments, and a `LeakChecker`
looks at each function by itself. A behaviour of `LeakChecker` goes through five phases:
the rounds of summaries over some module; the choice of the function that is analysed, as
its author writes it, instruction by instruction; the worklist of each allocation site;
then every path of the function is followed; and the verdicts are compared with what became
of the objects.

| model | code |
|---|---|
| `func` | the functions of the module, by what they return and do to their argument (external) |
| `result`, `round`, `changed`, `visiting` | the locals of `compute_func_summaries`; an absent entry is `NoSummary` |
| `StartRound`, `Visit` | one round, one function of it; `Again` is the condition of the loop |
| `code`, `scope` | the LLVM function, its CFG; an instruction is known by its place, a value by the instruction that computes it |
| `resolved` | `resolve_alloc_sites` of every value; the code computes it at each use, and nothing it reads changes |
| `is_escaping_use`, `meet_must`, `meet_may`, `transfer_block` | the functions of these names; `FirstIn` looks for a state in the order of the code's tests |
| `site`, `block_must`, `block_may`, `worklist` | the locals of `run_dataflow`; `in_worklist` is the set of blocks in `worklist` |
| `ProcessBlock` | one turn of its loop |
| `Definite`, `Potential` | the two kinds of `LeakReport` |
| `paths` | not the checker's: for one site, a block that can be come to, the values that are the address of the object made last, and its fate |

A definite leak means that at that return the object is allocated on every path that made
it (`DefiniteIsReal`), a potential one that it is on some path (`PotentialIsReal`).
`MissedLeaks` says what silence means: if the object is live at a return and nothing is
reported, then on some path it escapes or is freed twice (either hides the others), or what
is freed is uncertain: a pointer that is one of several, or an argument of a function that
frees it on some paths only, counts as freed.

Callees that keep their argument are left out of `leak_checker`: param_effects never says
so, and the object they keep is reported as a leak (`kept_pointer`, a finding). Left out of
the model: `select`, casts and address arithmetic on the way from an object to its use,
more than one alloca, functions with more than one pointer parameter, runs without
summaries, `find_path` and `dump_reports`. The bound of 10000 turns in `run_dataflow` is
left out because `Converges` shows the worklist to become empty by itself.

## 8. The worklist solver: `FlowProblem.tla`, `FlowEquations.tla`, `Dataflow.tla`

`DataflowSolver::solve` (dataflow.h) is a template that four analyses instantiate: live
variables, reaching definitions, very busy expressions and dominators. No pass of the compiler
calls it yet.

As coded, none can: the constructor of `AnalysisCtxt` dereferences `func_data`, which nothing has
set (dataflow.cpp:10, dataflow.h:39), and that is undefined. The model is of what `build_cfg`
and the solver compute once the data is there.

`FlowProblem` is what is solved. A function is the targets of its terminators and the
instructions of its blocks; `build_cfg` adds the virtual exit; `def`, `use`, `block_defs` and
`block_expressions` are extracted as dataflow.cpp does it, which drops the order of the
instructions of a block: any read is a use, also one behind a definition, although the comment
at dataflow.h:157 defines use as "used before any definition". Each analysis is a record of
direction, meet, initial and boundary state and of `gen` and `kill`: all four transfer functions
have the form `(x \ kill) \cup gen`. `is_valid_var` looks at names; the variables it accepts are
the constant `Tracked`. `exact` is what the instructions in their order would give.

`Dataflow` is the solver: `states` are the `out_states` of a forward and the `in_states` of a
backward analysis, which is what is returned and all that is read again. `ProcessBlock` is one
turn of the loop; `push_unique` appends the neighbours in any order that `predecessors` and
`succ` may have.

`FlowEquations` is the abstract specification: in any order, the state of a block is set to what
its equation says, and what is returned solves all of them. `Dataflow` implements it
(`SolvesTheEquations`, with the same fairness on both sides): the worklist is what tells the
solver that it has arrived. That it arrives follows on the instances from the weak fairness of
its step. `ReturnsPaths` says which of the solutions it is, by paths: for the two analyses by
union, some path comes from a block that generates the fact and none on it kills it; for the two
by intersection, no path refutes the fact. Very busy expressions start from the empty set, so a
path into a loop refutes them: an expression behind a loop is not found very busy in front of it,
which is safe but not the greatest solution. `LosesNothing` compares with `exact`.

## 9. The parser: `Parser.tla`, `Grammar.tla`

A parsing function of parser.cpp is a sequence of steps on the token stream (`Expect` and
`Require` are `consume` with its result unused or tested, `If`, `While`, `List`, ... the
branches and loops around them), `todo` is the call stack: the steps of the function that runs,
then those of its callers. The tree that is built is left out, but for `place`: whether the
expression parsed last may be assigned to. A function that returns `nullopt` makes its callers
return it, up to the loop of `parse_block` or `parse_program`, which calls `synchronize`
(`Fail`). At the end of the file in a block the error goes one loop farther out (`Unclosed`).

`UncheckedKind` is `current_token->kind` where nobody has asked whether there is a token
(parse_type, line 862): of an empty optional the last token's kind is read, which the optional
still holds. `MaxDepth` is the stack of the machine.

`Grammar` is the reference, written as rules and a relation `Ends` over them, not as a machine:
`AcceptsTheGrammar` says that an error is reported exactly for what the grammar does not derive.
`or` and `and` take one operator only (467, 488): `a or b or c` is an error. `CrashesKnown` names
the three places where the parser crashes: a number literal whose value is out of range (756, 762:
`std::stoll` and `std::stod` throw, and nothing catches it; the token `long`), `x++` and `x--`,
which read through a pointer that has been moved from (732, 740), and a file that ends behind a
type constructor or `(`, where `parse_type` calls itself for ever. `ParsingEnds` needs
`synchronize` to skip the token it stops at (100-104); the price is that it also skips the `}` of
the block in which the error was, and the first keyword of the next statement.

## 10. The semantic passes: `SemaPasses.tla` and the modules it composes

`SemaPasses` is `PassManager::run` on the list of main.cpp:92-97: a behaviour takes one program
through the passes, on one context `ctx`, each pass whatever the ones before it reported. A step
is one item of one pass, or one step of the search for recursive structs. The borrow checker has
no state in the context and is section 2. The last step, `Execute`, is not one of the compiler: it
puts the runs of the program into the variable `runs`, where the properties read them.

| module | code |
|---|---|
| `SymbolTable` | types, symbols, scopes, `resolve`, the built-in functions and methods, and reports |
| `Resolver` | declarations of items, the methods of impls under their mangled names |
| `StructCycles` | `detect_cycle` and `check_struct_recursion`, an action per call, dependency and return of the recursion |
| `SemaChecker` | what `SemaChecker` checks of every item, statement and expression, and the known lengths of lists |
| `FlowChecker` | the verdicts `falls`, `returns`, `diverges` of statements and blocks |
| `Unifier`, `TypeChecker` | substitution, unification, inference of every kind of expression, and the pass that declares variables in scopes of its own |
| `ProgramRuns` | not the compiler's: what happens when the program is run |

A program is a sequence of records. A place in it is the path to it, so that every report, use
and declaration is known by where it is. `uses` records what a name resolved to in each pass.

`ProgramRuns` is the reference for all of them: `ProgramRunsOf` gives every function its runs,
each `if` going either way and each loop taken up to `MaxTurns` times. A run knows the places it
has been at, what each name meant (the declaration of the value it reads), the faults it met
(an unbound name, a jump without a loop, an index outside of the list, an operation on a value
it is not defined for), and how it ended. It knows no symbol table, no unification and no
verdicts. The properties compare reports with runs:

- `ScopesAgree`: names mean in the run what they resolve to, and undeclared names and jumps
  without a loop are reported where they are met and nowhere else;
- `IndexReportsReal`: an index that is reported is outside of the list on a run. (After an
  assignment to the list the known length is stale; such functions are left out.)
- `FlowVerdicts`, `DeadIsDead`: a function that is accepted returns, one that is rejected has a
  run that falls off its end, and no run comes to what is called unreachable. The exception is
  named in both: a loop whose body returns counts as returning (flow_checker.cpp:50);
- `PassesAgree`: the type checker's scopes give every name the declaration the semantic
  checker's gave it, unless the type checker has not kept that declaration;
- `TypesHold`: a program is accepted by the type checker exactly if no run applies an operation
  to a value it is not defined for;
- `CyclesAreReal`, `NoneMissed`: the cycles reported are cycles of fields, and there are no
  others but through a `cref`, which `collect_struct_deps` does not follow.

Met on the way, without a text of the repository that says otherwise, and named in the
properties or left out of the programs: bodies of lambdas are neither flow- nor type-checked; a
`break` in a lambda inside a loop is accepted, since `nearest_of_kind` crosses function scopes
(symbol_table.cpp:37); a function falls off its end when its loop is not entered; a `let` whose
initialiser is a `print` or reads an untyped global is not kept by the type checker, and its name
is reported as undeclared or means an outer variable; operands of comparisons and of `!` are not
compared; a `let` without a type of a function whose type is not deduced dereferences an empty
optional (type_checker.cpp:88, 99; `TypesHold` counts that as neither verdict); `unify` has no
case for two `cref`s; `print()` without arguments reads `args[0]`
(sema_checker.cpp:484); `FunctionDecl` items are declared by no pass; an `impl` in front of its
struct is rejected; the method `m` of `S` and a function `S_m` meet under one name.

## 11. Runs

| run | asks | bounds |
|---|---|---|
| `borrow_maps` | do the two maps agree, do borrows nest, are moves kept, in every walk, with errors or without? | 3 names, 2 arguments per call, 3 nested blocks, 4 statements |
| `ownership` | does the verdict agree with what the program does, up to its first error? | the same |
| `dom_tree` | are the tree, the query and the frontiers those of the definition, and does the construction end? | 5 blocks; 6 branches with all blocks reachable, 4 with at most one that is not |
| `mem2reg` | does every use get what memory would hold, and is the IR left in SSA form? | 5 blocks, 4 shapes of graphs, 2 variables, 4 statements, 2 in a block |
| `cleanup` | is what is allocated freed once on every path, after its last use? Do one-sided moves, early returns and lists without types only leak? | 2 variables, 4 statements, 2 nested blocks or branches, 3 objects, 3 types; no features or these three |
| `leak_checker` | are the reports right, the summaries exact, and does the worklist become empty? | all modules of 2 functions; 3 blocks, 4 shapes of CFG; 3 instructions of any kind, 4 of the kinds that go together |
| `dataflow` | is the solution by paths returned, for all four analyses, and on the safe side of the instructions? | 4 blocks and the virtual exit; 3 of them with any edges, 2 instructions on two variables or 3 on one; 4 with any edges for dominators |
| `parser` | is an error reported exactly outside the grammar, does parsing end, where does it crash? | 8 programs that use every rule, every edit of one token in them, all pairs of tokens |
| `passes` | do the reports of the semantic passes agree with the runs of the program? | six families of programs, see section 10 |
| `kept_pointer` | is an object that a callee keeps seen to escape? No: a finding | 1 module, 2 instructions |
| `branch_move` | is every use behind a move on some path rejected? No: a finding | 2 names, 1 argument |
| `scalar_call` | is a variable counted as moved only if it was? No, for scalars from calls: a finding | 2 names |

Four statements, three blocks deep, reach: two readers of one variable released in
different blocks; a borrow in a branch or a loop whose source is moved; a move in both
branches of an if in a loop; a call that borrows twice or moves what it borrowed. The
third name tells a holder from a second holder of the same source. Names are
interchangeable, so the runs use symmetry. `ownership` stops a walk at its first error:
the checker's verdict is settled, and what it does to its maps afterwards is
`borrow_maps`' subject.

The borrow checker has no scheduling, so no fairness is assumed and nothing is said about its
liveness: a walk ends because a program is finite.

Five blocks are the least for a cycle with two entries whose second entry makes the
first round of `compute_idoms` wrong: 80 of the 5870 graphs of `dom_tree` change in
the second round. Its blocks are numbered so that each follows one that branches to it;
another numbering only changes the order in which children and joins are visited, and the
graphs with at most four branches, among them those with a block that cannot be reached, have
all of them. A terminator is a return, a branch, or a branch to two
different blocks in either order; nothing branches to the entry, as LLVM demands.
`Terminates` assumes weak fairness of the whole step: the construction is one call that
runs by itself. Deadlock is checked, so a phase that cannot go on is found.

Four statements and two variables in loops reach: a phi that needs a phi elsewhere, a copy
of one variable to another across a loop, a variable promoted by each of the three
strategies whose value is a load of a variable that another strategy promotes, a phi whose
incoming values become equal when another phi is erased, and two rounds of the clean-up.
The graphs have joins in and behind loops and, in `TwoEntries`, in a cycle that has two
entries, which the emitter does not make. That the pass ends, in whatever order it takes
variables, blocks and phis, was checked once by hand, with three statements, no symmetry and
weak fairness of the pass: with three a round of the clean-up already makes phis superfluous
that it has looked at.

Four statements of which two may be nested reach, for `Cleanup`: a value moved in both
branches, a return in both, a block in a branch with its own cleanups, a list that grows in
a loop, one that is handed on by a let or an assignment and then returned, an assignment that
frees what another assignment registered. Five statements were
checked once by hand with the same result. What takes more the proof has shown: that a jump
cleans up too little behind an inner loop in a block (section 6) needs six statements, four of
them nested. A block, an if and a loop count as statements,
the end of each does not. Deadlock is not checked in this run: the function returns
and stops, the heap may be used up, and a program may come to a point where, within the
bounds, only statements outside its features could follow.

Three instructions of any kind in three blocks reach, for `LeakChecker`: an object freed on
one path of a join, or made there; two returns with different verdicts; an object that is
made, freed or passed on in a loop; a block that cannot be reached; the phi of two objects.
Four of the kinds {malloc, free, store, load} and {malloc, free, phi} add an object freed
through memory, twice, or behind the loop that made it. `malloc` stands for
`calloc` too. `Converges` assumes
weak fairness of the whole step, as the analysis is one call. Deadlock is not checked: the
analysis ends.

Three blocks, and a fourth that nothing branches to, reach, for `Dataflow`: loops, loops that
cannot be reached, joins, a block that comes back to the worklist, and several exits. Two
instructions in two variables and three in one reach a use behind and in front of a definition in
one block and a definition in another. `Dataflow` and `Parser` assume weak fairness of the whole
step, as each is one call that runs by itself; deadlock is not checked since both end.

One wrong token, an overlong literal among them, in programs that use every rule reaches every
call of `synchronize` in every function, and every end of the file; pairs of tokens reach two
errors in a row. The stack of 120 steps is not filled but by `parse_type` calling itself.

The families of `passes` (MCPasses.tla): `Names`, bodies of up to four statements that declare and
use two names in blocks, loops, branches and lambdas; `Flows`, four statements of returns and
jumps in loops and branches, with `elif`; `Lists`, three statements that index, change, hide and
assign a list; `Types`, every initialiser with every annotation and every use of the variable it
declares; `Orders`, up to three items that meet in names, wrong impls, duplicate fields and
methods; `Graphs`, three structs with up to two fields each. Two turns of a loop are enough for
what one turn leaves behind to be met by the next. Deadlock is not checked: the passes end.

## 12. Proofs

### `BorrowChecker_proofs.tla`

- `TypeCorrect`: `Spec => []TypeOK`, from the assumptions on the constants alone. No run checks
  it again.
- `MapsAlwaysAgree` and `BorrowsAlwaysNest`: `Spec => []MapsAgree` and
  `Spec => []BorrowsNest` under `NoShadow` (programs hide no names; section 3 says what
  happens otherwise). Neither invariant is inductive: a
  restored copy of `borrow_map` has to nest in the blocks outside the one it was saved
  for, and a new declaration is harmless only because a name no open block declares
  neither borrows nor is borrowed. `IInv` adds `SavedNest`; it was checked by TLC on the
  instance of `borrow_maps` before it was proved.

The argument has three layers: what each operator does to agreement (`ReleaseAgrees`,
`MutBorrowAgrees`, `JoinAgrees`, ...), what each change of the stack does to the saved
copies (`NameKeeps`, `PushKeeps`, `PopKeeps`, `BranchKeeps`), and one step per action.

`MovesAlwaysSurvive`: `Spec => MovesSurvive`, an action property, under `NoShadow`. What a
step does to the set of the moved is a lemma for each operator (`MarkEffect`,
`ReleaseEffect`, `JoinEffect`, `MovedEffect`). A release changes only names whose
state is a borrowed one, a borrow is marked only on a name that is not moved, and the maps that
are restored behind a loop are joined with the moves of its body.

### `Ownership_proofs.tla`

For every set of names and every bound on statements, nesting and calls:

- `NothingConflicts`: `HSpec => []NoConflict`. What a function that is not rejected has done wrong
  is one of the three things that section 3 lists as overlooked, and nothing else;
- `MovesAreReal`: `HSpec => []MovedOnSomePath`;
- `CertainMovesAreKnown`: `HSpec => []CertainMovesKnown`.

They hold under `Plain`: programs hide no names, lambdas capture nothing and no function that is
called returns a scalar. The code breaks what is proved when one of these is dropped: a hidden
name shares its entry, a lambda's body knows no state of what it captures (both in section 3), and
`scalar_call` shows a scalar that the checker takes for an owner. Whatever else the language has
is covered: loops, `if` with any number of branches, blocks, lambdas, calls that nest, all three
kinds of parameters, returns.

The invariant is `IInv /\ HInv` (`IInv` from `BorrowChecker_proofs`):

- `NowTold`. Of the names usable here the maps tell the history: `is_struct` is ownership, what is
  `Moved` is gone on some path, and, unless the function is rejected, what is lost on all paths is
  `Moved`, and `borrow_map` has exactly the live loans. The checker's tests then see every fault
  but the overlooked ones (`FaultsSeen`, `FaultsOverlooked`), so a visit adds none without a
  report (`QuietVisit`, `VisitKeeps`).
- `CopiesTold`. The same of each copy that a loop, a branch or a lambda has saved, of the names
  outside it: what was gone, lost and lent when it was entered. It is what comes back at the end,
  so `LeaveKeeps` needs it to restore `NowTold`, and `EnterKeeps` makes it of `NowTold`.
- `MergedTold`. What every branch so far has lost is among the moves merged so far; without it the
  maps behind an `if` would know too little (`JoinKeeps`, `EndIfKeeps`, `NextBranchKeeps`).
- `GoneGrows`, `LambdaKeeps`. What is gone in front of a block stays gone in it, and a lambda
  moves nothing of what is outside: the history cannot fall behind a copy.
- `LoansNest`, `Shape`. A loan's holder is no further out than its source and a name belongs to
  one block, so a block that ends takes with it the loans that the checker releases
  (`LoansRelease`), and what it declares disturbs no copy (`DeclareTold`, `OutsideKeeps`).

`HInv` was checked by TLC before it was proved: with three names and three statements, and with
two names and five statements.

### `DomTree_proofs.tla`

`NeverMissesADominator`: `Spec => []NothingMissed`, for every number of blocks and every
control flow graph, from `SizeAssumption` and `GraphsAssumption` alone. `NothingMissed`
says nothing of graphs with unreachable blocks. The invariant `Inv` has a part for the
phase `postorder` and one for the phase `idoms`:

- `DfsInv`. The stack of `dfs` is a path, so each block on it can be reached around every
  block that is not on it below (`StackIsPath`). Every block entered is on the stack or
  finished, once (`Once`, `Entries`), and what the loops have passed has been entered
  (`Passed`). Hence a block finishes before its dominators (`DominatorsLater`): they were
  below it on the stack when it finished (`FinishKeeps`).
- When `dfs` returns, the visited set is closed under branches, so it is all of `Blocks`
  (`DfsComplete`), `post_order` is a bijection (`PostorderLength`), line 71 stays within
  it, and a dominator has the higher number (`NumberKeeps`: `DominatorsHigher`).
- `IdomInv`. A finger climbs only while its number is the lower one; so what both fingers
  are to meet at is never passed by either (`ClimbKeepsAbove`), and the dominators of the
  current block but itself dominate both fingers, and in the end the idom it is given
  (`FingersAbove`, `IdomsAbove`).

What `DomTree` returns, for every number of blocks and every graph whose blocks can all be
reached, and in which no branch goes to the entry (`EntryAssumption`: LLVM's verifier demands
that). The first half shows that nothing is missed; this half that nothing else is kept.

- `TreeExact`, `NumbersAnswer`, `FrontierExact`: the immediate dominators, the interval test of
  `dominates` and the frontiers agree with `Dominance`.
- `IdomsOnlyRise`: `IdomsRise`, an action property.
- `NeverUndefined`: the phase `undefined` is not reached, so no vector is read or written past its
  end and the runner never arrives at `kInvalidBlockId`.

The proof is about chains: `Chain(idoms, b)` is b, its parent, and so on, the least set that is
closed under parents. Parents have higher numbers, so two chains are comparable (`Rising`).

- Rounds (`RoundsInv`). `OrderInv` and `TreeInv`: the blocks known so far form a tree, and the loop
  meets every block after a predecessor. `ForwardChains`: what is above a block is above its
  predecessors in reverse postorder, unless the loop has been at it since. `MeetsAbove`: what is
  above all predecessors that are known is above the block. From it follows that a new idom is on
  the old chain, so idoms only rise (`SetIdomRaises`). `FingersMeet`: the fingers are on the
  chains of the predecessors seen, and at or below every block that is on all of them; so they
  meet at the nearest one. `RoundInv`: in a round that has changed nothing, each block's idom is
  above all its predecessors (`SetIdomAgrees`). When such a round ends (`ConvergeExact`) the set
  of blocks below a given block can be entered only through it, so chains consist of dominators
  (`ChainIsDom`); with `NothingMissed` that makes them exact.
- Numbers (`NumbersInv`). The stack is a branch of the tree, intervals nest along the tree and
  are apart otherwise. That the loop over a block's children has been at all of them when it ends
  is a counting argument (`ChildrenCounted`, `PassChild`).
- Frontiers (`FrontierInv`). A block is in `df[a]` exactly when the runner of some predecessor
  has been at a; when the loop leaves a join, that is the definition of the frontier.

All of these invariants were checked by TLC on all graphs with four blocks and up to eight
branches before they were proved. Only model-checked: `Terminates`, which is liveness.
Graphs with unreachable blocks are outside of these theorems; what happens to them is in section 4.

### `Mem2Reg_proofs.tla`

For any number of blocks, any graph, any variables and bounds:

- `PhisAlwaysPlaced`: `Spec => []PhisPlaced`;
- `LoadsAlwaysAgree`: `Spec => []LoadsAgree`. Whichever strategy takes a variable, in whatever
  order, every use of what was loaded from it gets what the memory would hold;
- `UsesAlwaysDominated`: `Spec => []UsesAreDominated`. No erased value is used, and every use is
  dominated by its definition.

The assumptions are that the entry has no predecessor (`GraphsAssumption`; LLVM's verifier demands
it), that `undef` is not computed by any statement (`ValuesAssumption`) and that bounds are numbers.
The tree and the frontiers are those of `Dominance`; `TreeExact`, `NumbersAnswer` and
`FrontierExact` prove that `DomTree` builds them.

Phis. The invariant of the worklist's loop is that a definition whose frontier is not yet
covered is still on the worklist (`Placing`); a phi's block is put there unless it defines the
variable by a store, and then it is there already or has been taken (`PlaceKeeps`). When
the worklist is empty the variable is `Covered`, and so it stays while the next variable
gets its phis: their names differ.

Values. What the pass does with the operands is right if there is a certificate `at`: for points
in front of a statement and for variables, the value that the promoted function has for the
variable there. `Cert` says that each such value is available at its point (`Avail`), that behind a
statement it is what the statement stores or what was held in front of it, and that a load that
has been replaced is replaced by what is held there. `Edges` says that what a block begins with is
what all its predecessors end with, or a phi of the block that gets it. No path occurs in it, so
no induction over paths is needed. `PromotionInv` says that there is a certificate, and for each
phase how far it reaches:

- `FastInv`: it holds the variables promoted so far. A single store holds the value wherever
  it dominates (`SingleStoreKeeps`); in a single block the value is that of a
  recursion over the statements (`SingleBlockKeeps`). The replacement is made in the whole
  certificate, as it is in all operands (`Substituted`): a value held for another variable may
  be the load that is replaced now.
- `RenameInv`: besides, it holds everything the walk has passed. The stacks hold it: the top of the
  stack of a variable at the height of an open call is what is held where that call stands
  (`StackInv`), with the heights `h` of all open calls as a witness, because a call pops what it
  has pushed and not what it has found. What a block without a phi begins with is what its
  immediate dominator ends with (`Inherits`), and so on up to a dominator as long as no
  definition is in between (`Undefined`). When the first call returns all blocks have been
  seen (`TreeReachesAll`), and only here `Covered` is needed: on an edge to a block without a
  phi nothing between the immediate dominator and the predecessor defines the variable
  (`StartCleanupKeeps`).
- `CleanInv`: it holds all promoted variables on all edges. A phi whose incoming values are one
  value c and itself is replaced by c in the certificate; c is available there because a block
  whose predecessors c or the block itself dominate is dominated by c (`DomOfPreds`,
  `CommonIsAbove`). A phi without uses is taken out of it, with all points that hold it: none
  that remains depends on them (`DropKeeps`).
- `RunInv`: what is held where the execution is evaluates to what the memory holds
  (`ExecuteKeeps`, `BranchKeeps`: a branch computes all phis at once from the old values).

The emission gives what the rest starts from (`EmitInv`, `ProgInv`): a store to a variable
dominates each load of it. Before the proof the invariant was checked by TLC
with the certificate, the blocks seen and the heights as history variables, on two graphs.

### `Cleanup_proofs.tla`

`NeverTwoCleanups`: `Spec => []OneCleanup`, for every set of features and all bounds. The
invariant adds that the entries of the lists are variables of the function: a new variable
has no entry (`AddNew`), an assignment cancels the one uncancelled entry there can be before
it adds another (`ReplaceOne`), and everything else only cancels or takes away whole lists.

`FreesAreLive` and `UsesAreLive`: `Spec => []FreesLive` and `Spec => []UsesLive`, when no set of
features has more than `branch move`, `early return` and `untyped list` (`LeakFeatures`; the
table of section 6 has a program against each other feature). `NeverLeaks`:
`Spec => []NothingLeaks`, without a hypothesis, as the property is about programs without
features. The bounds may be any numbers.

- The run. `own` gives for each instruction the variables that hold a value of their own
  wherever execution comes there. `Flow` says that the code respects it: what is used or freed is
  owned, and what a jump takes along is owned at its target. If each owned variable holds
  a live object (or the constant of a str), no two the same one, and without features everything
  live is held by one (`Holds`), then a step of the run keeps that (`RunStep`).
- The compilation. There is such an `own` for the code emitted so far, and for each open
  construct `held` remembers what was owned where it began (`Owned`): what is to be cleaned up is
  owned, and without features what is owned is to be cleaned up. Three facts about the lists
  carry it. `Scopes`: an entry is in the environment of its variable, so the end of a
  block frees the variables that go out of scope; constructs and environments nest. `Targets`:
  the loop found is the innermost one, in the environment around it or further in. `NoEnds`: a
  first branch has no end before its own.
  What is handed on without its cleanup being cancelled has none (`NoCleanupKept`): an untyped
  list that was never assigned.
- When the function ends every label is placed (`Pending`), and `Owned` becomes the invariant of
  the run (`EndsInRun`).

`held` is what the back edge of a loop has to own again, and what the branches of an if start
from. `NeverLeaks` was false at first, with the feature `break` about what the jump itself cleans
up: what the jump overlooks because of the targets an inner loop leaves behind is lost, in
programs larger than the run's. The feature is about the environment around the loop since.

### `LeakChecker_proofs.tla`

- `SummariesAlwaysSound`: `Spec => []SummariesSound`, for any number of functions that call
  each other in any way, from `ModulesAssumption` alone. It is inductive with the types: the
  chain of calls of a callee is part of the caller's (`ResultChain`, `ArgumentChain`), so
  what a visit claims of a function some path of it does (`FreshIsReal`, `FreeIsReal`).
- `MustIgnoresOrder` and `MayIgnoresOrder`: both meets are idempotent, commutative and
  associative on `LeakState`, so the order of `llvm::predecessors` does not matter, and
  `in_must` and `in_may` may take any. For `meet_must` this follows for every order in
  which all states occur once (`FirstInAssociates`); `meet_may` is first shown to be the
  code's cascade of tests (`MayCascade`).

- `SummariesEndExact`: `Spec => []SummariesExact` for up to ten functions (`K <= 10`), because
  the rounds end after ten. The hypothesis cannot be weaker: with eleven functions of which each
  calls the next one in the module, TLC finds the first without its summary at the end. The
  invariant, `RoundInv`, says it for each of the two bits of a summary (`Progress`): in round
  n, one more than n summaries have the bit, or n have it and the functions visited so far are
  settled, that is, say all that follows from the summaries at hand. So a visit finds something
  new or settles its function (`VisitFinds`, `ProgressKeeps`), a round without a find settles
  all, and ten rounds with one leave no function out (`RoundsSettle`). Settled summaries are
  exact: the functions of which a bit is not known would otherwise be closed under calls
  (`SettledFrees`, `SettledFresh`). TLC checked `RoundInv` for all modules of three functions.

Only model-checked: what relates the states of blocks to paths, an induction over the fold of
`transfer_block`.

### `Dataflow_proofs.tla`

For every number of blocks, every function and each of the four analyses:

- `TypeCorrect`: states are sets of facts and the worklist is a sequence of blocks;
- `AlwaysSettledOffList`: a block that is not on the worklist satisfies its equation. A step may
  change the equation of a block only by changing a source of it (`EquationLocal`), then the block
  depends on it (`SourcesDepend`) and is pushed, or is on the list already (`PushMembers`); the
  block just solved satisfies its own equation, also when it is its own neighbour;
- `OnlySolutionsReturned`: every step is a step of `FlowEquations` or a stutter, and since the
  worklist is empty at the return, all equations hold then. This is the safety part of
  `SolvesTheEquations`;
- `SolutionByPaths`: `Spec => []ReturnsPaths`, whatever order the worklist takes the blocks in;
- `NothingLost`: `Spec => []LosesNothing`.

For the last two, `ByPaths` is first a matter of sets: the recursion that defines `Paths` gives
the sequences in which each block takes its input from the next and none comes twice
(`PathsAre`, by the first k at which the two would differ). Blocks from which a path leads to A
through C are the least set that holds A and each block of C with a source in it (`FedByPaths`);
what is not held by all sources has a path that refutes it, the longest one outside the least
set (`RefutedOutside`, `RefutedNotHeld`). So there is a set `Holding(p, f)` for each fact. The
states are always on one side of it (`OneSided`): live variables, definitions and very busy
expressions are found only where they hold, dominators are dropped only where they do not
(`EquationOneSided`); and states that satisfy all equations are not on that side alone
(`SolutionHolds`). That the initial value of a may analysis is empty is needed (`ProblemPosed`):
with another one a cycle could keep a fact nothing generates. `NothingLost` compares the gen
sets of each analysis with the exact ones (`GivenSets`), path by path.

The induction theorems of the library take operators; the proofs use that a set of numbers has a
last element (`LastOf`), which follows from the order of finite subsets.

Only model-checked: that the solver ends, which is liveness.

### `StructCycles_proofs.tla`

For every set of names, every layout and every order of the map:

- `ReportsAreCycles`: every report is a cycle of fields;
- `AcceptedStructsEnd`: without a report no set of structs is such that each contains one of the
  set, so none contains itself.

The stack is a path whose frames have followed what is no longer in their `rest` (`Path`,
`Behind`). `NoneMissed` is not inductive: `Returned` adds that a struct whose call has returned is
in no endless set, because the member of the set that it contains had returned before or was
found on the stack, and then a cycle was reported. The run `passes` checks the same
two properties through `SemaPasses`; they are stated in a module without recursion for the proof.

Recursive operators keep the other modules of the semantic passes, and the grammar, out of the
prover's reach: `SemaPasses`, `ProgramRuns` and `MCParser` are model-checked only.
`CrashesKnown` of `Parser` is not a theorem either: a stack overflow is modelled by `MaxDepth`,
and with too small a stack programs that nest deeply crash it in other places.

## 13. Not modelled

- Lexer: one cursor over characters; what it does is wording and layout. The parser is modelled
  from its tokens on.
- AST optimizer: rewrites without state. A property would be about an evaluator of expressions.
- Alias analysis: only a test calls it, and of its rules only inclusion between variables ever
  applies: `load_from` is keyed by the load (alias.h:55), whose set is always empty, and no store
  edge is made.
- Code for expressions, types and functions in the IR emitter, the built-ins' instructions, the
  MLIR emitter, the backends and LLVM: translations. The growth of the runtime list is among them.
- Features left out of the cleanup's programs are in the table of section 6, what is left out of
  the other models at the end of their sections.
- Printing, formatting, files, spans, the command line.

What could come next: a second pass through loop bodies in `Ownership`; lambdas in `Cleanup`; an
evaluator for the AST rewrites.
