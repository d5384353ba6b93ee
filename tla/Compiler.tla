------------------------------ MODULE Compiler -------------------------------
(***************************************************************************)
(* main of src/main.c: the compiler from its arguments to its exit code,   *)
(* composed of the lexer, the parser (a step of which is a step here), the *)
(* ownership of the tree and the header generator.                         *)
(*                                                                         *)
(* The files are a function of the paths that exist; a file holds a text   *)
(* or the pieces of a header.  main answers a malloc that fails for the    *)
(* source text and for the context of the generator; a target name that    *)
(* cannot be allocated is written through NULL.  Every other allocation is *)
(* taken to succeed.                                                       *)
(***************************************************************************)
EXTENDS Ast, Codegen

CONSTANTS ArgLists,       \* argv, without the name of the program
          Disks,          \* what the files can hold when the program starts
          NameSize,       \* of the buffer for the name of the output
          DefaultSource,  \* the text that is compiled without a file
          TokensOf(_)     \* the types of the tokens of a text

\* What can be compiled: the default, a word of argv, or the text of a file.
TextsOn(files) == {files[p].text : p \in {q \in DOMAIN files : files[q].has = "text"}}
Texts == {DefaultSource}
         \cup (UNION {{words[i] : i \in 1..Len(words)} : words \in ArgLists})
         \cup (UNION {TextsOn(files) : files \in Disks})

\* EOF is what comes behind the last token.
ASSUME ArgListsAssumption == ArgLists \subseteq Seq(STRING)
ASSUME TokensAssumption   == \A text \in Texts : TokensOf(text) \in Seq(STRING \ {"EOF"})

\* What is kept of a name is not longer than what it is taken from.
ASSUME LengthsAssumption ==
  \A text \in Texts : \A k \in 1..Len(TokensOf(text)) + 1 :
    /\ RestLength(text, k) \in Nat /\ SafeLength(text, k) \in Nat
    /\ SafeLength(text, k) <= RestLength(text, k)

ASSUME BuffersAssumption == BufferSize \in Nat /\ NameSize \in Nat

VARIABLES args,    \* what of argv is not read yet
          options, \* what main has read of it
          source,  \* the text that is compiled
          phase,   \* where main is
          todo,    \* pieces of the header that are not written yet
          disk,    \* the files
          before,  \* history: the files when the program started
          broken,  \* history: a write has failed, and all after it
          live,    \* what is allocated, the tree apart
          objects, \* nodes of the tree that are not freed
          types,   \* Type objects that are not freed
          strings, \* names that the generator has made and not freed
          exit     \* how the program has ended

heap == <<live, objects, types, strings>>
mainVars == <<vars, args, options, source, phase, todo, disk, before, broken, heap, exit>>

\* phase, when main stays, when it goes on, and the way out.  Like a trip of the
\* parser, every step of main changes lap.
Stays == UNCHANGED <<phase, exit>> /\ lap' = 1 - lap
Goes(to) == phase' = to /\ UNCHANGED exit /\ lap' = 1 - lap
Exits(how) == phase' = "exit" /\ exit' = how /\ lap' = 1 - lap

MainInit ==
  /\ cursor = Start(<<>>) /\ stack = <<>> /\ program = NullNode /\ lap = 0
  /\ args \in ArgLists
  /\ options = [compile |-> FALSE, input |-> "none"]
  /\ source = DefaultSource
  /\ phase = "arguments"
  /\ todo = <<>>
  /\ disk \in Disks
  /\ before = disk
  /\ broken = FALSE
  /\ live = {} /\ objects = 0 /\ types = 0 /\ strings = 0
  /\ exit = "running"

-----------------------------------------------------------------------------
(* Arguments and input *)

Compiling == <<cursor, stack, program, todo, disk, before, broken, heap>>

IsOption(word) == SubSeq(word, 1, 1) = "-"
WithArgument == {"--target", "-c"}

\* An unknown option that the loop does not pass.
TakenIfKnown(word) ==
  CASE word \in WithArgument                                       -> 2
    [] ~IsOption(word) \/ word \in {"--compile", "--verbose"}      -> 1
    [] IsOption(word) /\ word \notin WithArgument \cup {"--compile", "--verbose"} -> 0

\* How many words of argv a turn of the loop takes.
Taken(word) == IF word \in WithArgument THEN 2 ELSE 1

\* One turn of the loop over argv; an option that is not known is passed over,
\* and so is --verbose, which only prints.
ReadArgument ==
  /\ phase = "arguments" /\ args # <<>>
  /\ ~(Head(args) \in WithArgument /\ Len(args) = 1)
  /\ args' = SubSeq(args, Taken(Head(args)) + 1, Len(args))
  /\ options' = CASE Head(args) = "--compile"   -> [options EXCEPT !.compile = TRUE]
                  [] ~IsOption(Head(args))      -> [options EXCEPT !.input = Head(args)]
                  [] OTHER                      -> options
  /\ source' = IF Head(args) = "-c" THEN args[2] ELSE source
  /\ Stays
  /\ UNCHANGED Compiling

MissingArgument ==
  /\ phase = "arguments" /\ Len(args) = 1 /\ Head(args) \in WithArgument
  /\ Exits("failed")
  /\ UNCHANGED <<Compiling, args, options, source>>

\* -c sets default_source as well, so that a file wins over it.
NoFile ==
  /\ phase = "arguments" /\ args = <<>> /\ options.input = "none"
  /\ Goes("lex")
  /\ UNCHANGED <<Compiling, args, options, source>>

LoadFile ==
  /\ phase = "arguments" /\ args = <<>> /\ options.input # "none"
  /\ options.input \in DOMAIN disk /\ disk[options.input].has = "text"
  /\ source' = disk[options.input].text
  /\ live' = live \cup {"source"}
  /\ Goes("lex")
  /\ UNCHANGED <<cursor, stack, program, args, options, todo, disk, before, broken, objects, types,
                 strings>>

\* It cannot be opened, or there is no memory for its text.
InputFails ==
  /\ phase = "arguments" /\ args = <<>> /\ options.input # "none"
  /\ Exits("failed")
  /\ UNCHANGED <<Compiling, args, options, source>>

-----------------------------------------------------------------------------
(* Lexing and parsing *)

Driver == <<args, options, source, disk, before, broken>>

\* The token pass, which is for printing and counting only, and then
\* parser_create and ast_program_create.
StartParser ==
  /\ phase = "lex"
  /\ cursor' = Start(TokensOf(source))
  /\ stack' = <<Node("program", <<>>)>>
  /\ live' = live \cup {"parser"}
  /\ objects' = 1
  /\ Goes("parse")
  /\ UNCHANGED <<program, types, strings, todo, Driver>>

\* Objects and Type objects that are made in a step.  Those of a loop that turns
\* for ever are not counted, like its nodes.
Made(n, t) == IF UNCHANGED <<cursor, stack>>
              THEN UNCHANGED <<objects, types>>
              ELSE objects' = objects + n /\ types' = types + t

MakeStatement ==
  Made(LET from == IF cursor'.pos = cursor.pos THEN cursor.pos
                   ELSE ExprStart(cursor.src, cursor.pos, cursor'.pos)
       IN  ExprObjects(cursor.src, from, cursor'.pos)
           + IF Head(stack').kids[Len(Head(stack').kids)] = NullNode THEN 0 ELSE 1,
       IF Current(cursor) \in {"LET", "VAR"}
       THEN DeclaredTypes(cursor.src, cursor.pos, cursor'.pos) ELSE 0)

\* A function without a body is made at once, with an empty block.
MakeFunction == Made(IF Len(stack') = Len(stack) THEN 2 ELSE 0, 1)

Parse ==
  /\ phase = "parse"
  /\ \/ SimpleStatement /\ MakeStatement
     \/ ParseFunction /\ MakeFunction
     \/ (CloseBlock \/ CloseSingle \/ FinishFunction) /\ Made(1, 0)
     \/ (ParsePeripheral \/ ParseField) /\ Made(1, 0)
     \/ ParseRegister /\ Made(1, 1)
     \/ (OpenBlock \/ CloseRegister \/ ClosePeripheral) /\ Made(0, 0)
     \/ (EndOfProgram \/ RejectToken) /\ Made(0, 0)
  /\ UNCHANGED <<live, strings, phase, exit, todo, Driver>>

-----------------------------------------------------------------------------
(* Code generation *)

HasPeripherals == OfKind(program.kids, "peripheral") # <<>>

\* A generator that runs after a parse error, too.
WantedAnyway == options.compile /\ HasPeripherals

Wanted == cursor.err = 0 /\ options.compile /\ HasPeripherals

\* After an error, without --compile or without a peripheral.
NothingToGenerate ==
  /\ phase = "parse" /\ Done /\ ~Wanted
  /\ Goes("cleanup")
  /\ UNCHANGED <<cursor, stack, program, heap, todo, Driver>>

\* The ending of what the buffer takes of the name of the input is replaced:
\* what is behind its last '.', wherever in the path that is.
Output(input) ==
  LET name == SubSeq(input, 1, Min({Len(input), NameSize - 1}))
      dots == {k \in 1..Len(name) : SubSeq(name, k, k) = "."}
  IN  CASE input = "none"                  -> "generated.h"
        [] input # "none" /\ dots = {}     -> name \o ".h"
        [] OTHER                           -> SubSeq(name, 1, Max(dots) - 1) \o ".h"

\* The ending is written over the end of the buffer on the stack of main.
Overruns == options.input # "none" /\ Len(Output(options.input)) >= NameSize

\* The build guards the stack: main may find it damaged when it returns, or never.
MainReturns(how) == \/ Exits(how)
                    \/ Wanted /\ Overruns /\ Exits("crashed")

\* What a file holds of a header, and the lines in it that are cut.
Header(pieces, cut) == [has |-> "header", pieces |-> pieces, cut |-> cut]

\* The files with one that is new or overwritten.
Put(files, path, file) ==
  [p \in DOMAIN files \cup {path} |-> IF p = path THEN file ELSE files[p]]

\* codegen_init, which empties the file.
OpenOutput ==
  /\ phase = "parse" /\ Done /\ Wanted
  /\ disk' = Put(disk, Output(options.input), Header(<<>>, {}))
  /\ live' = live \cup {"context", "output", "target"}
  /\ todo' = Generated(source, program)
  /\ Goes("generate")
  /\ UNCHANGED <<cursor, stack, program, objects, types, strings, args, options, source, before,
                 broken>>

\* The build guards strcat, too, and stops the program at an overrun.
OverrunStops ==
  /\ phase = "parse" /\ Done /\ Wanted /\ Overruns
  /\ Exits("crashed")
  /\ UNCHANGED <<cursor, stack, program, heap, todo, Driver>>

\* strcpy to the NULL that malloc returned for the target name.
CrashAtTarget ==
  /\ phase = "parse" /\ Done /\ Wanted
  /\ disk' = Put(disk, Output(options.input), Header(<<>>, {}))
  /\ Exits("crashed")
  /\ UNCHANGED <<cursor, stack, program, heap, todo, args, options, source, before, broken>>

\* Freeing the parser, the tree and the text.
FreeAll == /\ live' = live \ {"parser", "source"}
           /\ objects' = objects - FreedObjects(Height(cursor.src), program)
           /\ types' = types - FreedTypes(Height(cursor.src), program)

\* An early exit that forgets to free.
OutputFailsHastily ==
  /\ phase = "parse" /\ Done /\ Wanted
  /\ Exits("failed")
  /\ UNCHANGED <<cursor, stack, program, heap, todo, Driver>>

\* No memory for the context, or the file cannot be opened for writing.
OutputFails ==
  /\ phase = "parse" /\ Done /\ Wanted
  /\ FreeAll
  /\ MainReturns("failed")
  /\ UNCHANGED <<cursor, stack, program, strings, todo, Driver>>

\* codegen_write, which cuts what does not fit its buffer, and fputc; when the
\* medium is full it fails, and so do all after it.
WritePiece ==
  /\ phase = "generate" /\ todo # <<>>
  /\ broken' \in {broken, TRUE}
  /\ disk' = IF broken' THEN disk
             ELSE LET file == disk[Output(options.input)]
                  IN  Put(disk, Output(options.input),
                          Header(Append(file.pieces, Head(todo)),
                                 file.cut \cup Cut(source, Head(todo))))
  /\ strings' = strings + NamesLost(Head(todo))
  /\ todo' = Tail(todo)
  /\ Stays
  /\ UNCHANGED <<cursor, stack, program, live, objects, types, args, options, source, before>>

\* codegen_cleanup; whatever was written, the generator has succeeded.
CloseOutput ==
  /\ phase = "generate" /\ todo = <<>>
  /\ live' = live \ {"context", "output", "target"}
  /\ Goes("cleanup")
  /\ UNCHANGED <<cursor, stack, program, objects, types, strings, todo, Driver>>

Cleanup ==
  /\ phase = "cleanup"
  /\ FreeAll
  /\ MainReturns("ok")
  /\ UNCHANGED <<cursor, stack, program, strings, todo, Driver>>

-----------------------------------------------------------------------------
Ended == exit # "running"
Stopped == Ended /\ UNCHANGED mainVars

MainNext == \/ ReadArgument \/ MissingArgument \/ NoFile \/ LoadFile \/ InputFails
            \/ StartParser \/ Parse \/ NothingToGenerate
            \/ OpenOutput \/ OverrunStops \/ CrashAtTarget \/ OutputFails
            \/ WritePiece \/ CloseOutput \/ Cleanup
            \/ Stopped

\* The program runs alone, and nothing blocks it.
MainTurn == ~Ended /\ lap' = 1 - lap
MainSpec == MainInit /\ [][MainNext]_mainVars /\ WF_lap(MainTurn)

-----------------------------------------------------------------------------
(* Properties *)

\* The program ends or has reported a parse error, after which it may turn for
\* ever: no other loop of main, of the parser or of the generator is endless.
DriverReturns == <>(Ended \/ cursor.err # 0)

\* What the generator is asked for: the device of a text without an error.
NamesAfter(word) ==
  FlattenSeq([k \in 1..Len(cursor.src) |-> IF cursor.src[k] = word THEN <<k + 1>> ELSE <<>>])
Asked == cursor.err = 0 /\ options.compile /\ NamesAfter("PERIPHERAL") # <<>>

\* Of the Type objects are left the return type of every function and, after a
\* parse error, that of a declaration that was given up.
OnlyTypesStay ==
  exit \in {"ok", "failed"} =>
    /\ live = {} /\ objects = 0
    /\ IF program = NullNode THEN types = 0
       ELSE types - Len(OfKind(program.kids, "function")) \in
              IF cursor.err = 0 THEN {0}
              ELSE 0..Cardinality({k \in 1..Len(cursor.src) : cursor.src[k] \in {"LET", "VAR"}})

\* Of the names in a header, one is left for every register and every field.
NamesStay ==
  /\ exit = "failed" => strings = 0
  /\ exit = "ok" => strings = IF Asked THEN Len(NamesAfter("REGISTER")) + Len(NamesAfter("FIELD"))
                              ELSE 0

\* Whichever way the program ends, but for a crash, it has freed what it had
\* allocated, nothing twice, except for those Types and names.
OnlyTypesAndNamesLeak == OnlyTypesStay /\ NamesStay

\* The names of and in the pieces of a kind.
NamesOf(header, kind) ==
  FlattenSeq([k \in 1..Len(header) |-> IF header[k].piece = kind THEN <<header[k].name>> ELSE <<>>])
MembersOf(header, kind) ==
  FlattenSeq([k \in 1..Len(header) |-> IF header[k].piece = kind THEN NamesIn(header[k]) ELSE <<>>])

\* A header with all that the device has, and its beginning.
IsWhole(header) ==
  /\ header # <<>> /\ Head(header).piece = "begin" /\ header[Len(header)].piece = "end"
  /\ NamesOf(header, "struct")      = NamesAfter("PERIPHERAL")
  /\ MembersOf(header, "struct")    = NamesAfter("REGISTER")
  /\ NamesOf(header, "bitfield")    = NamesAfter("REGISTER")
  /\ MembersOf(header, "bitfield")  = NamesAfter("FIELD")
  /\ MembersOf(header, "accessors") = NamesAfter("FIELD")

IsBeginning(header) ==
  /\ header # <<>> => Head(header).piece = "begin"
  /\ IsPrefix(NamesOf(header, "struct"), NamesAfter("PERIPHERAL"))
  /\ IsPrefix(MembersOf(header, "struct"), NamesAfter("REGISTER"))
  /\ IsPrefix(NamesOf(header, "bitfield"), NamesAfter("REGISTER"))
  /\ IsPrefix(MembersOf(header, "bitfield"), NamesAfter("FIELD"))
  /\ IsPrefix(MembersOf(header, "accessors"), NamesAfter("FIELD"))

\* The longest line has a name twice and 38 characters besides.
MayBeCut(name) == 2 * RestLength(source, name) + 38 >= BufferSize

\* The files are as they were, but for one.
SameBut(path) == /\ DOMAIN disk \ {path} = DOMAIN before \ {path}
                 /\ \A p \in DOMAIN before \ {path} : disk[p] = before[p]

\* A program that ends with an error has left every file as it was.  One that
\* ends well and was asked for a header has written all pieces of it, with the
\* names of the text in their order, and has cut no line but one with a name
\* that is long, the text behind it included; when a write has failed, which it
\* does not notice, and when it crashes, the file is a beginning of that.  No
\* file but the output is ever touched, the input only when it is the output.
HeaderWholeOrUntouched ==
  LET out  == Output(options.input)
      file == disk[out]
  IN  /\ SameBut(out)
      /\ exit = "failed" => disk = before
      /\ exit = "ok" /\ ~Asked => disk = before
      /\ exit = "ok" /\ Asked /\ ~broken => IsWhole(file.pieces)
      /\ Ended /\ disk # before => /\ IsBeginning(file.pieces)
                                  /\ \A line \in file.cut : MayBeCut(line.name)
=============================================================================
