# bit(N): models, checks and proofs

This directory holds a TLA+ verification project for the bit(N) compiler and the
RP2040 emulator of this repository: models of the C code, TLC configurations that
check them on small instances, and proofs that TLAPS checks for all values of the
constants. `PROJECT.json` lists every run, every property, the source lines each
definition stands for, the hazards, and what was found.

Source paths below are relative to the repository; `parser.c` and the other files
of the compiler are in `src/`, and `rp2040.c` is in `mcu/rp2040/src/`.

To repeat the work, with TLC, TLAPS and the community modules installed:

    tlc -config MCParser.cfg MCParser        # a run: the configuration and its module
    tlapm SymbolTableProofs.tla              # a proof module

## 1. The system

### 1.1 Components

bit(N) reads a device file (`peripheral ... register ... field`, and functions in a
small language) and writes a C header. It is a batch program: one thread, one pass
after the other, data handed on in memory. The emulator is a library of its own.

| component | state | operations | used by |
|---|---|---|---|
| lexer (`lexer.c`) | position, line, column in the text | `lexer_create`, `lexer_next_token` | the parser, the token pass of `main.c` |
| parser (`parser.c`) | the current token, a sticky error flag | `parser_parse_program` and one function per construct; eleven for expressions | `main.c` |
| AST (`ast.c`) | trees of nodes with growing arrays | constructors, `ast_*_add_*`, `ast_free_*` | parser, type checker, header generator |
| symbol table (`symbol_table.c`) | a chain of scopes, each a growing array of symbols | push, pop, add, lookup, lookup in the current scope, free | type checker |
| type system and inference (`type_system.c`, `type_inference.c`) | symbol table, expected return type, error count | `infer_expr_type`, `check_program_types` | no caller: `main.c` never runs it |
| C header generator (`backend/codegen`) | an open file | `codegen_generate`, one emitter per construct | `main.c` |
| linker script generator (`backend/linker`) | a table of at most ten regions | add region, generate | no caller |
| driver (`main.c`) | options, the source text, exit code | read arguments and file, token pass, parse, generate, clean up | the user |
| emulator (`rp2040.c`) | two cores, memories, 32 breakpoints, a flag, a cycle counter; a static `last_core` | create, load, step, run, registers, memory, breakpoints, GPIO, UART | the user of the library |
| core registers (`core/registers.c`) | one register file per architecture | reset, get, set by number | emulator |
| ARM decoder, execution, SRAM, peripherals | - | declared and called | not in the repository: there is no implementation |

### 1.2 Interaction

* The parser pulls tokens: `parser_advance` calls `lexer_next_token`. The lexer never
  looks back and goes on answering EOF; the parser relies on both.
* A token's `value` is a pointer into the text, *without* a terminator at the end of
  the token. AST nodes keep these pointers as names. What reads such a name as a C
  string (the symbol table's `strcmp`, the generator's `%s`) reads the rest of the file.
* The type checker walks the AST and keeps the symbol table in step with the walk; it
  takes types out of the table by cloning, since the table may move or free a symbol.
* `main` owns the source text and the parser; the parser makes the tree, whose nodes and
  types are freed by `ast_free_program`. The generator reads the tree and owns its file.
* A run function of the emulator is a loop around `rp2040_step`, which serves the cores
  in turn. The loop, the two cores and the API calls between runs share the breakpoint
  flag, the list of breakpoints and the cycle counter. `last_core` is shared by *all*
  systems of a process.

### 1.3 What is hard here

There is no concurrency between threads, no persistence and no network. What is hard
to test is of another kind:

* **Loops that must end.** The loops over statements, fields and registers end at `}` or
  EOF only; after an error each
  relies on functions below to consume something. The lexer must consume something in
  every call. A run of the emulator ends at a count that a breakpoint stops.
* **Error recovery.** `parser_expect` reports and carries on. Any token dropped, added
  or changed must lead to a report, not before its place, and never to a wrong tree.
* **Failing steps.** Eight allocations of `rp2040_create`, a load in chunks, the ways out of
  `main`: each leaves something behind that another function must have freed or finished.
  The generator tests no write and no allocation, and `main` cuts a name to fit its buffer.
* **Ownership.** Nodes, `Type` objects and names change hands between parser, tree, symbol
  table and type context; who frees what is a convention.
* **Protocols.** Push and pop on all ways out of the type checker's functions; a search
  that must give what lexical scoping gives, while arrays grow.
* **Bookkeeping on the side.** Lines and columns; error counts beside result values;
  a list reordered by removals.
* **Numeric edges.** A `uint32_t` difference that is tested for `<= 0`; a 64-bit target
  that wraps; capacities and a table of 32; a line that outgrows its buffer.
* **Taking turns.** A breakpoint is seen when the core that is on it is served, and has to stop
  the other core as well.
* **Stale state.** Names that are pointers into the text; static `last_core`; a breakpoint
  flag that nothing resets; a type context that is used twice.

`PROJECT.json`, "hazards", has each with its line, the properties that cover it, or the
reason why none does yet.

### 1.4 What makes each component correct

* *Lexer*: a text is cut into blanks, comments and longest tokens, with nothing lost in
  between; positions are right; EOF is reached and final.
* *Parser*: accepts the language and nothing else; the tree has every name and literal of
  the source, in order, below the right owner; expressions have the tree that precedence
  asks for; errors are not early; it ends or reports.
* *Symbol table*: it is lexical scoping; no scope has a name twice or outgrows its array.
* *Type checker*: the verdict is that of the typing rules; scopes are balanced; every
  refusal is counted.
* *Emulator control*: no breakpoint is stepped over, by any function; runs are as long as
  asked; both cores are served, and a breakpoint of one stops the other after one step more of
  it at most; removal of a breakpoint removes only it.
* *Emulator memory*: a system is there with all its parts or not at all; an access that is
  accepted lies in the SRAM; a load puts the file where it belongs or says that it did not;
  registers read back as they were set, bits that cannot be set excepted.
* *Driver, AST, header generator*: whatever way the program ends, what was allocated is freed
  once; it writes a whole header or none, with the registers where the text puts them. None of
  this is true without exceptions: the properties name them, and section 4 says what they mean.

## 2. The modules

| module | what it is |
|---|---|
| `Lexer` | `lexer_next_token`: one call is one step |
| `Loops` | a `while` loop of the C code as a function of the state it starts from |
| `LexerProofs` | invariants and action properties of `Lexer`, for every text |
| `Numbers` | `strtoull` with base 0, as the parser calls it on the place of a token |
| `TokenCursor` | the primitives of the parser: current token, advance, match, expect, error |
| `ExprParser` | the expression functions, as operators from cursor to cursor and tree |
| `Expressions` | all texts over an alphabet, for the expression functions to be tried on |
| `Parser` | `parser_parse_program` and the functions below it, with an explicit call stack |
| `ParserProofs` | the token window, the expression functions, the call stack of `Parser`; that it does not turn silently; the devices in the tree are those of the text; lemmas about trees and what is measured of them |
| `Grammar` | reference: the language as a recogniser of sets, the tree of an expression by precedence |
| `SymbolTable` | `symbol_table.c`: one call is one step |
| `ScopedEnv` | abstract: nested environments, each a function from names to declarations |
| `SymbolTableProofs` | invariants of `SymbolTable`, and that it implements `ScopedEnv` |
| `TypeInference` | `infer_expr_type` as an operator from environment and expression to type and error count |
| `TypeChecker` | `check_program_types` with the functions below it, over an instance of `SymbolTable` |
| `TypeCheckerProofs` | scopes in step with the walk, the verdict with the error count, `Type` objects with their owners |
| `Rp2040` | stepping, running, breakpoints and pc of the emulator |
| `Rp2040Proofs` | invariants and action properties of `Rp2040` |
| `Registers` | `core/registers.c`: reset, get and set of both register files, as operators |
| `Rp2040Memory` | creation, destruction, loading, memory, register and peripheral access of the emulator |
| `Rp2040MemoryProofs` | all four properties of `Rp2040Memory`, with lemmas about `Registers` |
| `Foundations` | lemmas several proof modules use: induction over numbers, `while` loops, sequences of anything |
| `Ast` | `ast.c`: the trees, the places of the text they refer to, what is allocated and freed for them |
| `Codegen` | `codegen_generate`: the pieces of a header in their order, the lines of them that are cut, the names that are never freed |
| `Compiler` | `main.c`: the driver, over the steps of `Parser` |
| `CompilerProofs` | the tree loses nothing of the text; what is allocated is freed, with exceptions that are counted; headers are whole or a beginning |
| `MCLexer`, `MCExprParser`, `MCParser`, `MCSymbolTable`, `MCTypeChecker`, `MCRp2040`, `MCRp2040Memory`, `MCCompiler` | small instances for TLC, and the reference definitions only TLC can use |

The loops of the lexer, the expression functions and `infer_expr_type` are not recursive
operators but functions that are equal to their own unfolding (`Loops`, `Expression`,
`Infer`), so that they can be proved about. `Infer` is defined on the constant set `Exprs`, in
which every expression has its parts and is larger than they are (`Size`,
`ExprsAssumption`): the trees of finite depth that a program points at. `TypeFrom` is the body
of the C function, with its recursive calls as a function.
`ExprParser` says what each C function does with the results of the functions it calls
(`parse`), and `Expression` ties the knot: `parse` is applied to a goal, which function or
loop is entered and with which cursor. A loop over operators returns the operators with
their right operands in a list, which `Joined` makes into the tree that the C loop builds
turn by turn.

Next to some definitions stands a variant of the same name with a suffix (`Advance` and
`AdvanceOneLine`). A variant is a plausible bug, used by no action. The properties are
tried against these: with the variant in place of the definition, the property named in
`PROJECT.json`, "mutants", must fail.

### 2.1 How state and steps correspond to the code

**Lexer.** `lexer` is `pos`, `line`, `column`; `input` a string without its `'\0'`;
reading at the end gives `NUL`. A token is type, place and length, as in C, where `value`
is a pointer. `lexer_advance` is `Advance`, and every way through the lexer goes through
it. The `switch` over operator characters is a table of the spellings it reaches together
with its rule, to go on while a longer spelling is there. A loop is `While`: the states in
which it goes on, what a turn does, and where it starts. `calls` is the parity of the
number of calls; it lets fairness be stated of a variable that every call changes.

**Parser.** The cursor is the token sequence, the position, and the position of the first
message (the C flag says only that there was one; every message is printed). A frame of `stack` is a
C function that has not returned, with the node it builds. One action is one trip between
two tests of a loop: the head of a construct, one statement, field or register, or the
close. A name or number is the index of its token. A trip that consumes nothing and stays in its
loop leaves the nodes as they are, which turns the C parser's endless appending, after an
error, into a cycle of states. `lap` is the parity of the trips.

**Symbol table.** `scopes` is the chain, global scope first; a scope is its symbols and
its capacity. A search is the first of the matching places, innermost scope first, as the
loops find it. `answer` is what the last call returned. `MaxDepth` bounds the open scopes.

**Type checker.** `work` is the C call stack of the walk: what each activation has still
to do. `errors` is `error_count`, counted twice where the code counts twice; `ok` is what
the functions return. All calls of the symbol table are steps of `SymbolTable`, taken
inside the checker's own step. A `session` is the programs that one `TypeContext` is used
for, one after the other, and `type_context_free` at the end; `before` is history. `types`
is the number of `Type` objects of the context that are allocated: the clone for a symbol,
what `scope_free` frees with a scope, and the expected return type. `UIntModulus` is 2^32 in the code; the run uses 2^16, which
keeps every width of its programs on the same side of 8, 16 and 32 as in C.

**Emulator.** `system[s]` has the pc of both cores, the breakpoints, the flag and the
counter; `last_core` is the static variable. Every API call is one step, except for the
two run functions, whose loop is a start, turns and a return. `arm_thumb2_execute` is not
in the repository: its caller sees that it may move the pc and may fail, so it may do
both. `halted` is left out because nothing sets it. The counter is kept modulo `CycleModulus`,
2^64 in the code. History for properties: `stepped` is what was stepped last, and of a run
`asked` is its argument, `flagged` whether the flag was set at its start, and `late` how
often a core was stepped while the other one stood on a breakpoint (`Overlooks`).

**Emulator memory.** `heap` is what is allocated, `parts` the pointers of the struct that
are not NULL. `rp2040_create` and `rp2040_load_elf` are a start, steps that can each fail, and
an end; the other calls are one step. A byte of SRAM is the call it came from and its place
in what that call was given, so that a byte in the wrong place is seen. `uint32_t` is
`WordModulus`, and the sum of the bounds check wraps. Of peripherals there is only which call
used them last: what the calls do is not in the repository. Of stepping there is what
`arm_thumb2_execute` may do to the core it is given (`Execute`): leave other values in a register
and other flags in the top byte of the psr, which `arm_set_register` must then keep.

**Compiler.** One action is one turn of the loop over `argv`, one way of loading the input,
one step of `Parser`, the opening of the output, one piece of the header, or one way out.
Every step changes `lap`, like those of the parser. `live`, `objects` and `types` count what
is allocated: `objects` and `types` grow by what the constructors make of the tokens a step
consumes (`ExprObjects`, `MakeStatement`, ...) and shrink by what the free functions find in
the tree (`FreedObjects`, `FreedTypes`), two counts that know nothing of each other. What an
endless loop of the parser appends is not counted, like its nodes. The files are `disk`, with `before`
and `broken` as history; of a header a file has the pieces and the lines that are cut.

A name is the place of a token, and what is printed of it is the rest of the text from there
(`RestLength`) or what `sanitize_identifier` keeps of that (`SafeLength`). From these and from
its format `OwnLines` and `MemberLine` have the length of each line with a name, and `Cut` those
that do not fit `BufferSize`, 4096 in the code. `strings` counts the names that are made and not
freed; the buffers that a function frees before it returns are not counted. `Output` is the name
that `main` makes in a buffer of `NameSize`, 256 in the code, and `Overruns` that the ending goes
beyond it: then the build's guards may stop the program at once (`OverrunStops`) or when `main`
returns (`MainReturns`), or nobody notices. `CrashAtTarget` is the target name that cannot be
allocated. In `MCCompiler` the tokens come from `Lexer` and the numbers from
`Numbers`; a text is written with one blank between its tokens, since how tokens are
separated is what the run `lexer` is about.

## 3. The runs

| run | states | what it shows |
|---|---|---|
| `lexer` | 295 255 | on every text of six sets of short texts: `PositionsAreRight`, `TokensAreRight`, `NumbersAreRead`, `EofIsFinal`, `ReachesEof` |
| `expressions` | 299 593 | on all sequences of up to six of eight tokens: `AcceptsExpressions`, `TreeIsByPrecedence`, `ConsumesOrReports` |
| `parser` | 37 844 | on 4908 inputs: `AcceptsTheLanguage`, `NoEarlyError`, `NothingLost`, `FieldsHaveTheirOwners`, `NoSilentStall`, `Settles` |
| `symbol_table` | 9 516 | `NoDuplicates`, `WithinCapacity`, `ImplementsLexicalScoping` |
| `type_checker` | 444 246 | on 31 554 programs and 200 sessions of two or three programs: `ScopesFollowTheWalk`, `VerdictHasMessages`, `AcceptsWellTyped`, `TypesHaveOwners` |
| `emulator` | 271 872 | `RunsTheCyclesAskedFor`, `BothCoresStop`, `NoStepOverBreakpoint`, `RemoveTakesOne`, `RunCyclesReturns`, `NoCoreStarves` |
| `emulator_memory` | 1 271 753 | every allocation and read failing, files of every length, accesses at every address, instructions that change registers and flags: `PartsHaveOwners`, `LoadedOrReported`, `RegistersReadBack` |
| `compiler` | 608 798 | 1782 texts, 17 argument lists, every failure: `OnlyTypesAndNamesLeak`, `HeaderWholeOrUntouched`, `LayoutAsDeclared`, `DriverReturns` |
| `parser_readme`, `type_checker_slices`, `type_checker_names`, `emulator_halt` | - | violations, section 4 |

Each passing run of a state machine but `compiler` also checks its type invariant `TypeOK`.

### 3.1 Bounds, and why they are enough

* **Lexer.** A decision looks at two characters, at most three in an operator. Each
  alphabet exercises one part - blanks and comments up to six characters (`/**/` and one
  on each side), strings with escapes up to six, numbers, operators (`<<<`, `->`, `//`
  as neighbours), words and keywords, and a mixture up to four.
* **Expressions.** The alphabet has operators of three of the eight levels, the highest
  and the lowest among them, `-` as prefix and infix, parentheses, calls and commas. Six
  tokens are enough for two operators of any two levels with operands and a prefix, for
  `f(x,1)`, and for nested parentheses. The levels differ by their set of operators only.
* **Parser.** Three programs have every construct, every optional part present and absent,
  and both spellings where there are two. The inputs are these and everything one dropped,
  inserted or replaced token away, or cut off anywhere: what `parser_expect` meets is one
  wrong token.
* **Symbol table.** Two names, two declarations, three scopes, arrays of one entry at
  first: hiding, revealing, refusing and growing all occur.
* **Type checker.** Bodies of up to two items, blocks one deep (two deep in a set of their
  own), functions of none, one and two parameters, repeated names of each kind, all kinds
  of statements and of expressions. `MaxDepth` 6 is never reached, so no push is lost.
* **Emulator.** One system, three addresses, three breakpoints (so that first, middle and
  last differ), a counter modulo 3 that wraps within a run, runs of every length. With the
  shared `last_core` two systems would starve cores; see section 6.

* **Numbers.** `ULLongMax` is 99 in the run, so that a number of the texts overflows.
* **Emulator memory.** An address space of 16, an SRAM of 5 bytes from 8 on, chunks of 2,
  words of 2: the SRAM is no whole number of chunks, sums wrap, a word reaches over the end,
  and files are shorter than a chunk, as long as the SRAM, and longer. Four calls: create,
  two calls that can affect one another, destroy.
* **Compiler.** Two registers of each type, field or not, at offsets in order, with gaps,
  repeated and in other spellings, and a second peripheral; two statements of twelve, right
  and wrong in each place where the parser goes on, in three kinds of functions, with a
  peripheral behind them or not; five devices with errors. Argument lists have each option,
  missing arguments, `-c` with and without a file, and names with the last `.` in each place.
  Numbers are kept modulo 256 with `ULLongMax` 1000, which no offset of the texts reaches.
  `BufferSize` is 136, so that lines of every kind are cut in one text or another, all lines
  with a name in one of them, and none in most. `NameSize` is 8: three names are longer, one
  without a `.`, one whose `.` is in the last place that is taken, which is where an ending
  just leaves the buffer, and one whose last `.` is cut away.

`CHECK_DEADLOCK FALSE` stands where the program ends: the parser and the type checker
return, the symbol table is freed, and `expressions` only enumerates texts up to a length.
The calls of `emulator_memory` are bounded. The lexer, the emulator and, by a step that
changes nothing once it has ended, the compiler can always go on.

### 3.2 Fairness

The program has one thread, and none of its loops waits for anything; so a loop that has
been entered goes on by itself until its condition ends it. This is all that is assumed:

* `Parser!FairSpec`: weak fairness of a trip (`Turn`) as long as the parser has not
  returned. It is stated with `lap` as the subscript, which every trip changes; so a loop
  that changes nothing else still counts as progress of the program, and does not satisfy
  a liveness property by default.
* `Lexer!FairSpec`: the caller asks until it gets EOF, as the token pass of `main.c` does.
* `Rp2040!FairSpec`: `RunTurn` and `RunReturn`, the loop of a run. Nothing is assumed of
  the program that calls the API: it may never call again.

* `Compiler!MainSpec`: weak fairness of a step of `main` (`MainTurn`) until it has ended.

`Settles` is what can be asked of the parser: it ends *or reports*. It does not always
return (section 4). `DriverReturns` inherits this exception from the parser and has no other.

## 4. What was found

Four runs show the code in disagreement with what the repository says of it:

* `parser_readme`: `README.md:35-71` shows a device definition that the parser refuses,
  and on which it then never returns: `parser_parse_register` is entered once, at
  `base_address`, and its loop over fields (`parser.c:537`) turns for ever at `register`,
  which nothing in `parser_parse_field` consumes. The same happens after many syntax errors,
  in each of the three loops; `Settles` holds because an error is always reported before.
* `type_checker_slices`: the guard `width <= 0` on a `uint32_t` (`type_inference.c:144`)
  catches empty slices only; an inverted one gets type u64.
* `type_checker_names`: the type checker on a tree that the parser made finds no declared
  variable, because a name is the rest of the text.
* `emulator_halt`: `breakpoint_triggered` is never reset. After the first hit, every run
  returns at once, with no core at a breakpoint and no way to clear it.

Further disagreements are part of what properties of the passing runs say. These properties
state what the code does in the case in question, not what a reader of the document expects:

* `docs/ROADMAP.md:333` has "Zero memory leaks". The names of registers and fields that the
  generator makes are never freed (`codegen.c:120`, `153`), nor are the return type of a
  function and the type of a declaration that is given up. `OnlyTypesAndNamesLeak` counts
  these, and says that nothing else leaks. The clone for a symbol that is refused leaks as
  well (`TypesHaveOwners`).
* `main.c:222` reports "Successfully generated C code" also of a header that could not be
  written (`codegen.c:34`, `59`), and of one with lines that were cut at 4096 bytes (`codegen.c:43`).
  `docs/ROADMAP.md:334` has "Comprehensive error handling"; but the ending `.h` behind 255
  characters leaves the buffer of `main` (`main.c:202`), and a target name that cannot be allocated
  is written through NULL (`codegen.c:24`). `HeaderWholeOrUntouched` says of each what the disk
  holds then: a beginning of the header, or all of it but the ends of lines with long names,
  and nothing else has changed.
* `README.md:573-575` promises a structure "correctly sized" and "proper offsets". Registers
  are laid out in order of declaration as `uint32_t`, whatever their offsets (`codegen.c:119`):
  `LayoutAsDeclared` says that the k-th is where the text puts it exactly if that is
  4(k - 1). The comment behind `@` is always right.
* `rp2040_run_cycles`, "Run for specific number of cycles" (`rp2040.c:258`), makes no step at all
  when the sum of the counter and that number wraps (264): `RunsTheCyclesAskedFor`.
* The lexer has a branch for "binary: 0b..." (`lexer.c:177`). The parser reads such a token with
  `strtoull`, as 0, and reads `010` as 8: `NumbersAreRead`.
* `rp2040_load_binary` accepts a length that wraps its sum, and a word at the last bytes of the
  SRAM is written over the end: the two exceptions in `LoadedOrReported`.

Observed while reading, and not the subject of a run of their own:

* `mcu/rp2040/QUICK_REFERENCE.md:189-212` shows functions with parameters. The parser has none
  (`parser.c:420-421`), and neither has `Grammar`, which is the language as the code has it.
  No input of the runs has a function with parameters but as one wrong token.
* `main.c` never calls the type checker. It exits with 0 after parse errors and after
  `--compile` without a peripheral. `-c` sets `default_source` too, so that a file wins over it.
  The name of the output is the input's up to the last `.` of the whole path: `./u` gives `.h`,
  and `u.h` is overwritten by its own header. Of a name of more than 255 characters the rest is
  dropped, ending and all.
* A name in a comment of a header is the rest of the source, over all its lines.
* `error_count` counts some errors twice and is never set back, so that after a program with
  an error no other is right in the same context, and neither is one that repeats a function.
  `return` without a value passes in every function; `if` and `while` are not checked and
  calls are not supported.
* `rp2040_load_elf` copies the file as it is, sets the pc of core 0 only, and takes a read
  error for the end of the file. The initial stack pointer is `0x10000000 + SRAM_SIZE`, while
  the SRAM begins at `0x20000000`.
* The linker generator prints FLASH and RAM whatever regions it has.

## 5. The proofs

TLC shows a property of a small instance; these theorems hold for every value of the
constants, from the assumptions named in the modules, which TLC evaluates in every run. Where
a theorem has a hypothesis of its own, its section says what it is and why it holds.

### 5.1 `SymbolTableProofs`

Assumed: `CapacityAssumption` (a scope has room for one symbol at first: the code has 16),
`DepthAssumption` (the global scope is allowed), `NullAssumption` (NULL is no declaration).

* `TypeCorrectness`, `NamesAreUnique`, `NoOverrun`: the three invariants. The inductive
  invariant is `IInv == TypeOK /\ NoDuplicates /\ WithinCapacity /\ InnermostExists`. The
  parts need one another: without `TypeOK` the entries of a scope are unknown;
  `WithinCapacity` survives growth because a full array doubles, which needs a capacity
  above 0, from `TypeOK`. There is a lemma for the effect of each operation on a scope
  (`ExtendedProperties`, ...) and one per action for `IInv`.
* `Refinement`: `Spec => ImplementsLexicalScoping`. A scope at depth d stands for the
  environment in which every name has the declaration that a search from scope d finds, and
  for the set of its own names. Push copies the innermost environment; an added symbol
  changes one name in the innermost environment, because it is the only symbol of that
  name in its scope, and no environment further out; pop brings the outer environment
  back as it was; a refused add is the abstract refusal. The proof has one
  step lemma per action, and uses `NoDuplicates` where the first match has to be the match.

### 5.2 `Rp2040Proofs`

Assumed: `AddrAssumption` (the reset pc and the base of SRAM are addresses),
`BoundAssumption` (the array of breakpoints and the counter have some size).

* `TypeCorrectness`: `TypeOK`, inductive by itself. It includes that the list of
  breakpoints never outgrows its array, by `AddBreakpoint`'s guard and because
  `WithoutIsAList` shows that a removal never makes the list longer.
* `RunLength`: `RunsTheCyclesAskedFor`. The inductive part is `WithinTarget`: the counter is
  between `target - asked` and `target`. A start that wraps has a target below what was
  asked (`WrappedSum`), and so below the counter: the loop ends at once, and nothing changes until
  then (`StaysWhenWrapped`, `WrappedRunEnds`). If it has not wrapped, the counter is `asked` below the target, and a
  turn is taken below the target only, where one more cycle does not wrap. `FlagHasAReason`:
  while a run is in progress the flag is set if it was set before and no step has been made, or if
  a core is on a breakpoint. That it stays there needs that nothing but the run moves a core or
  changes a breakpoint. So a loop that ends below its target has one of these two reasons.
  A step that fails ends a run in the middle; of such a run nothing is claimed.
* `HitStopsTheOther`: `BothCoresStop`. While the run goes on, a core has been stepped past a
  breakpoint of the other once at most, and if so the other one is still there and is next
  (`NextIsStopped`): that turn sets the flag and is the last one. It rests on `NextCore` going
  around and on a core at a breakpoint not moving.
* `BreakpointsHold`: `NoStepOverBreakpoint`. `SteppingEffect` says what one step can do;
  then one step per action, with all calls that do not step at once.
* `RemovalTakesOne`: `RemoveTakesOne`. `WithoutEntries` says which entries are left when the
  last one has been moved into the gap, and `WithoutTakesOne` counts them: the places of the
  removed address lose the last place or the gap, and the places of every other address
  keep their number, since what leaves the end arrives in the gap.

### 5.3 `Rp2040MemoryProofs`

Assumed: `RegisterAssumption` (the Thumb bit is a bit of a word) and `MemoryAssumption` (the SRAM and one more chunk behind it end below
the end of the address space). The sizes of SRAM, chunk, word and address space, the lengths
of files and the number of calls are any.

* `TypeCorrect`: `TypeOK`. The inductive part is `Shape`: types, what a call in progress looks
  like, a psr whose top byte is the Thumb bit, and an x0 that is 0.
* `OwnersCorrect`: `PartsHaveOwners`, from `Owners`: while a system is created it has exactly
  the parts in front of the one that is next.
* `LoadsCorrect`: `LoadedOrReported`, from `Loads`: while a file is loaded, what was read of
  it lies in front of the memory from before (`FileGrows`), and unless a read was cut short it
  is whole chunks or the whole file. `ChunkInside` is why the loader may rely on a test that
  wraps: no sum of the loader does.
* `RegistersCorrect`: `RegistersReadBack`, from `Shape`, `ArmSetEffect` and `RiscvSetEffect`.

### 5.4 `TypeCheckerProofs`

Assumed: `TableAssumption` (what `SymbolTable` assumes, and that the null pointer is no
type), `ModulusAssumption`, and `ExprsAssumption` (expressions are finite trees). `ScopesCorrect`
asks nothing of the programs, not even that they are programs: frames and scopes are kept in
sequences of anything. The others ask `SessionsOver(S)`: the sessions are sequences of programs
whose bodies are statements of S, with names of `Names`, types of `Types` and expressions of
`Exprs`, and blocks made of statements of S, of any length and depth. `MCTypeChecker` has an
ASSUME that says it of the sessions of its runs.

* `ScopesCorrect`: `ScopesFollowTheWalk`. The invariant `Walk` adds `FramesNest`, which tells
  from the kind of the innermost frame how deep the walk is: a pop never meets the global
  scope, where it would do nothing, because a frame that pops lies on another. There is one
  lemma for the turns that stay in a frame, one for those that enter, one for those that leave.
* `Judged`: an expression has a type and nothing is reported, or it has none and at most one
  error is. First `InferenceExists`: by induction over sizes there is a function that calls
  itself as `TypeFrom` does, it is unique, and so `Infer` equals its unfolding
  (`InferEquation`); then the claim goes from the parts of an expression to the whole.
* `VerdictCorrect`: `VerdictHasMessages`. The invariant `Counted` ties result and count
  together while a program is walked and at its end. What a turn reports of an expression
  is a number of errors by `Judged`, which `Over(S)` makes applicable: all that the walk has
  left to do consists of statements of S.
* `UsesTheTable`: `Spec => Table!Spec`. Whatever a turn does to the table is a call of
  `SymbolTable` with a name and a declaration the table knows (`WalkCalls`), so what is proved of
  the table by itself holds of the one in the walk. `NamesAreLexical` takes the refinement of
  5.1 over: in every run of the checker names mean what lexical scoping says.
* `OwnersCorrect`: `TypesHaveOwners`. The owners are counted as a set, the places of all
  symbols: a push adds none, an added symbol adds one (`AddSymbols`), a pop takes away as
  many as the innermost scope has (`PopSymbols`). The inductive invariant `IInv` has all parts:
  that there are as many scopes as the walk is deep makes a pop take away one scope and
  `type_context_free` meet the global one; that a parameter is added after a search only is why
  its clone is never lost; and a function's return type is not null, so that the next function
  frees exactly one.
* `TypeCorrect`: `TypeOK`, from the same invariant. That `types` never goes below 0 is the
  half of `TypesHaveOwners` that says nothing is freed twice.

### 5.5 `ParserProofs`

Assumed: `AlphabetAssumption` and `MaxLengthAssumption` (texts are made of tokens and have a
length, of `Expressions` only) and `InputsAssumption` (an input is the sequence of
tokens in front of EOF).

* `ExpressionConsumes`: from any place of any text, `Expression` leaves the tokens alone,
  never goes back, keeps the first error, and consumes a token or has reported an error; and
  without an error it has passed over none of PERIPHERAL, REGISTER and FIELD (`Consumes`). The
  functions call each other in a circle. `Weight` orders the calls: a callee has fewer tokens
  before it, or as many and a lower rank (an argument list over the levels of operators,
  from the loosest to the tightest, over the loop of a level). A lemma per function
  says at once that its result is determined by lighter calls and that it makes progress if they
  do (`ReachEffect`). The first half gives, by induction over the weight, that there is a
  function that calls itself as the code does (`ParseExists`), without which the definition of
  `Expression` would say nothing; the second half gives the progress of that function. Of
  the loop of a level only `Passes` holds: it may find no operator.
* `ExpressionsConsumeOrReport`: `ConsumesOrReports`, for texts of any length over any alphabet.
* `TypeCorrect`: `TypeOK`. The call stack is one that the grammar functions can have: which
  function is on which follows from what each action requires of the innermost one.
* `StallsAreReported`: `NoSilentStall`. Per action: it consumes a token, or one of its
  `parser_expect` reports, or it returns to its caller. Lemmas say it of each function of a
  cursor first (`Progress`, `Onward` of `TokenCursor`).
* `FirstErrorStays`: `Onward` of every step; the error position a user sees is the first one.
* `FieldsAreOwned`: `FieldsHaveTheirOwners`, of programs of any length. The property speaks of the end, when the tree is complete; the invariant `Faithful` says it at every
  turn (`Tracks`). Without an error, what the finished part of the tree and the nodes under
  construction have of devices is what the tokens so far declare, and the peripheral and the
  register under construction are those that began last (`LastBeforeIs`), and lie in
  this order. There is one lemma per action, made of what it consumes (`Found`: no device word, or the one
  that the action names), and of what the innermost node gives to the one around it
  (`Received`). No token of an input is EOF, so the loop ends at the end of the text
  and not in front of a device.

The rest of the module is lemmas that 5.7 rests on. `Trees[h]` is the set of trees no higher than
h; it is defined by recursion over h, and `Frontier`, `FreedObjects` and `FreedTypes` by recursion
over it. For each of them the lemmas say that the recursion has a solution, that there is only
one, and that a higher set gives a tree the same value. The amounts a word stands for
(references, objects, `Type` objects, devices of a kind) are numbers or lists; `Plus` and `All` add
either. What is measured of lists behind each other is what is measured of each (`BelowFlat`), and
the same holds of stretches of a text (`Span`).

### 5.6 `LexerProofs`

Assumed: `TextsAssumption` (a text has a length, and no NUL before it). Texts, and so the
loops over them, are of any length.

* The loops are `While`, a function that is equal to its own unfolding. That there is such a
  function is proved in `Foundations`, for every loop whose turns make a measure smaller
  (`WhileEquation`; here what is left of the text), and what each turn keeps holds where the loop
  ends (`WhileInvariant`). Both rest on `Induction` over numbers, stated of a set
  instead of a predicate and proved from the least element of a set of numbers.
* `TypeCorrect`: `TypeOK`, in particular that no token reaches beyond the text, although
  strings and comments may have no end.
* `PositionsCorrect`: `PositionsAreRight`. One character of `lexer_advance` keeps `IsPlace`,
  so every function made of it does; a token that is a string begins one after its place.
* `EofStays`: `EofIsFinal`. EOF is answered at the end of the text only, where a skip of
  blanks stays in place.
* `TokensConsume`: every call before EOF consumes something, a character that begins no token
  included. With a text of finite length this is why `ReachesEof` holds, which TLC checks.

### 5.7 `CompilerProofs`

Assumed, besides `InputsAssumption`: `ArgListsAssumption` (argv is a list of strings) and
`TokensAssumption` (the lexer's tokens end before EOF), `LengthsAssumption` (what is kept of a name is
no longer than what it is taken from) and `BuffersAssumption` (the buffers have a size). Texts,
argument lists, disks, the meaning of numbers, the sizes of the buffers and which step fails are any.

* `NothingIsLost`: `Spec => []NothingLost`. The property compares a tree with a text; the
  invariant (`Kept`) compares what is under construction with the tokens consumed so far. It has
  two parts. `Framed`: each node on the stack has kids no higher than the tokens left room
  for, so that they are in `Trees[Height]` and have a frontier at all. `Told`: as long as no error
  is reported, the frontiers of what lies on the stack, the outermost first, are the references
  of the text so far. The role of a token depends on the token before it; so `Told` also says
  that the parser does not stand behind a word that gives a role (`AfterRole`). There are lemmas
  that expressions refer to what they consume, in order, by the induction over weights of 5.5,
  with one lemma per function; one lemma per head of a construct and per statement, which reads
  off from its `parser_expect`s which tokens it took; and one per trip for the stack. A construct that closes hands its amount to the one around it, which
  leaves the whole as it was (`Stock`).
* `OnlyTypesAndNamesAreLeaked`: `MainSpec => []OnlyTypesAndNamesLeak`. `Balance`: the objects that are made and not
  freed are those of the stack, and the `Type` objects those of the stack, the return types of its
  functions, and one at most for each `let` or `var` in front of the parser (`Lets`), none if there
  is no error. That the constructors make what the tree then has is a lemma for expressions
  (`MadeObjects` counts tokens, `FreedObjects` walks the tree) and one per statement. `MainInv`
  says, for each phase of `main`, what is allocated, and that the finished tree has what the
  stack had. It includes `Shaped`: below a program there are functions and peripherals only,
  below a peripheral registers, below a register fields. The return types that the stack counts
  are therefore those of the functions that the property counts (`FunctionsCounted`). For the names, `Files` says that those
  not freed so far and those that the pieces of `todo` are going to leave (`Owed`) are
  together those of the whole header, which are as many as the text has registers and fields
  (`AllIsOwed`). The property says nothing of a crash, at which nothing is freed at all.
* `HeadersAreWhole`: `MainSpec => []HeaderWholeOrUntouched`. `Files` says that the disk is the one
  from before but for the output, which has the pieces written so far, and that these, what was
  lost and `todo` are together the whole of `Generated`, where nothing was lost unless a write
  has failed (`Splits`). So what the file has is a beginning of the whole (`TakenIsBeginning`), at
  the end and at a crash, and all of it when nothing was lost. A line that is cut has a name
  whose text fills the buffer (`PieceOfWhole`, `MayBeCut`): twice the text and 38 characters bound
  every line. That the pieces generated
  from a tree have the names of the text in its order is `Told` once more: of the words PERIPHERAL,
  REGISTER and FIELD, the tree has behind each other what the text has (`TreeHasNames`), and the
  pieces of a peripheral, and then of the header, have what the tree has (`PeripheralPieces`,
  `GeneratedNames`), since a tree has registers and fields where they belong only (`Shaped`).

### 5.8 What is model-checked only

* Liveness: `ReachesEof`, `Settles`, `RunCyclesReturns`, `NoCoreStarves`, `DriverReturns`.
  Reasoning about fairness and `ENABLED` is out of the prover's reach.
* Comparisons with a reference that is a RECURSIVE operator or a recogniser of sets of texts
  (`AcceptsExpressions`, `TreeIsByPrecedence`, `AcceptsTheLanguage`, `NoEarlyError`,
  `AcceptsWellTyped`). The modules with the references cannot be used in a proof.
* What is read character by character (`TokensAreRight`, `NumbersAreRead`) and
  `LayoutAsDeclared`, which calls `strtoull` on the text: the provers know nothing of the
  characters of a string.

## 6. Not modelled

* `if`, `while`, `for` and array syntax exist as AST kinds that no parser function makes;
  the type checker passes over the first two, and the model has them as such.
* Failure of `malloc` where the code does not test for it (the lexer, the parser, the tree,
  the symbol table), except for the target name of the generator. The arrays of tree nodes
  other than calls; they grow and end with their node.
* `Symbol *` answers of the symbol table: the model returns values. The one caller uses an answer
  before its next call of the table.
* The linker script generator: nothing calls it, and its output does not depend on its table.
* Wording of messages and headers, indentation and the characters of names (their number is
  modelled); a source file of which only a part can be read; the target name. What the ending
  of a long name overwrites on the stack of `main`, and so what an unguarded build does then.
* Two systems of the emulator at once. `last_core` is shared, so a program that steps two
  systems in turn steps core 0 of one and core 1 of the other only; no document says
  otherwise, and `NoCoreStarves` is stated of a run, during which no other call is made.
* What happens inside SRAM, GPIO, UART and bus: `sram.h` and the others are not in the
  repository. Negative register numbers of a RISC-V core, which read in front of the array.
* Instruction decoding and execution: declared, not implemented.
* `token.c` (a table of names), `examples/` and test stubs (no behaviour).

## 7. Plan

All parts that hold state are modelled, checked and composed where they interact, and each is
proved about, from assumptions on constants only: the symbol table, type inference and the type
checker, the expression functions and the parser, the lexer, the emulator with its memory, and
the compiler from its arguments to its files. Of the safety properties those of 5.8 are left. The
nearest is `NoEarlyError`: that a text with an error at a place has no accepted continuation could
follow from a grammar stated as a function on sequences, in place of the recogniser of `Grammar`.
