--------------------------- MODULE TemplateCompiler ---------------------------
(***************************************************************************)
(* How a page renders a template, after it was parsed: the compiler turns  *)
(* the statements of each program into opcodes for a stack machine, and a  *)
(* program that looks n scopes out gets n contexts from the program around *)
(* it (lib/handlebars.js, lib/render.js).                                  *)
(***************************************************************************)
EXTENDS TemplateParser

CONSTANTS
  PageTemplate,   \* templates: their text, and the statements it was written for,
                  \* when it is valid
  PageContext     \* what they are rendered with

VARIABLES
  template,   \* the template that is loaded
  rendered    \* what it was rendered to, and with what

templateVars == <<template, rendered>>

-----------------------------------------------------------------------------
(* Compiler: the opcodes of a program, and the scopes it looks out to.       *)

Op(name, arg) == [opcode |-> name, arg |-> arg]

KnownHelpers == {"each", "if", "unless", "with"}

ClassifyMustache(mustache) ==
  IF ~mustache.id.isSimple THEN "simple"
  ELSE IF mustache.params # <<>> \/ mustache.id.parts[1] \in KnownHelpers THEN "helper"
  ELSE "ambiguous"

\* ID, and simpleMustache for `this`.
PushId(id) ==
  <<Op("getContext", id.depth)>>
    \o IF id.parts = <<>> THEN <<Op("pushContext", 0)>>
       ELSE <<Op("lookupOnContext", id.parts[1])>>
              \o [i \in 1 .. Len(id.parts) - 1 |-> Op("lookup", id.parts[i + 1])]

PushParam(param) ==
  IF param.type = "STRING" THEN <<Op("pushString", param.string)>> ELSE PushId(param)

\* The last parameter is pushed first.
PushParams(params) ==
  FlattenSeq([i \in 1 .. Len(params) |-> PushParam(params[Len(params) + 1 - i])])

\* The guid of a program stands for the program.
Programs(program, inverse) == <<Op("pushProgram", program), Op("pushProgram", inverse)>>

HelperMustache(mustache, program, inverse) ==
  PushParams(mustache.params) \o Programs(program, inverse)
    \o <<Op("invokeHelper", <<Len(mustache.params), mustache.id.parts[1]>>)>>

AmbiguousMustache(mustache, program, inverse) ==
  <<Op("getContext", mustache.id.depth)>> \o Programs(program, inverse)
    \o <<Op("invokeAmbiguous", mustache.id.parts[1])>>

CompileBlock(block) ==
  LET mustache == block.mustache
      kind == ClassifyMustache(mustache)
  IN  (CASE kind = "helper" -> HelperMustache(mustache, block.program, block.inverse)
         [] kind = "simple" -> PushId(mustache.id) \o Programs(block.program, block.inverse)
                                 \o <<Op("blockValue", 0)>>
         [] kind = "ambiguous" -> AmbiguousMustache(mustache, block.program, block.inverse)
                                    \o Programs(block.program, block.inverse)
                                    \o <<Op("ambiguousBlockValue", 0)>>)
      \o <<Op("append", FALSE)>>

CompileMustache(mustache) ==
  LET kind == ClassifyMustache(mustache)
  IN  (CASE kind = "helper"    -> HelperMustache(mustache, NoProgram, NoProgram)
         [] kind = "simple"    -> PushId(mustache.id)
         [] kind = "ambiguous" -> AmbiguousMustache(mustache, NoProgram, NoProgram))
      \o <<Op("append", mustache.escaped)>>

CompileNode(node) ==
  CASE node.type = "content"  -> <<Op("appendContent", node.string)>>
    [] node.type = "mustache" -> CompileMustache(node)
    [] node.type = "block"    -> CompileBlock(node)

Opcodes(program) == FlattenSeq([i \in DOMAIN program |-> CompileNode(program[i])])

\* AddDepth
IdDepths(mustache) ==
  ({mustache.id.depth}
     \cup {mustache.params[i].depth : i \in {j \in DOMAIN mustache.params :
                                               mustache.params[j].type = "ID"}}) \ {0}

NodeDepths(node) ==
  CASE node.type = "content"  -> {}
    [] node.type = "mustache" -> IdDepths(node)
    [] node.type = "block"    -> IdDepths(node.mustache)

\* Mutant: a program looks no further than the program around it.
OuterNone(depths) == {}

\* What the programs inside need from further out is needed from the program around
\* them.
Outer(depths) == {d - 1 : d \in {e \in depths : e >= 2}}

DepthsOf(inner, program) ==
  (UNION {NodeDepths(program[i]) : i \in DOMAIN program})
    \cup (UNION {Outer(inner[q]) : q \in Inside(program)})

Depths[program \in Program] == DepthsOf([q \in Inside(program) |-> Depths[q]], program)

-----------------------------------------------------------------------------
(* The machine: one stack stands for the variables and the inline expressions of
   the JavaScript that is generated.  A program that is pushed on the stack is a
   closure on the contexts it needs.  inner has the functions that are generated
   for the programs of the blocks.                                           *)

Machine == [stack |-> <<>>, context |-> 0, lastHelper |-> FALSE, buffer |-> <<>>]

Push(m, v) == [m EXCEPT !.stack = Append(@, v)]
Pop(m, n)  == [m EXCEPT !.stack = SubSeq(@, 1, Len(@) - n)]
Peek(m, n) == m.stack[Len(m.stack) - n]
Replace(m, n, v) == Push(Pop(m, n), v)

Closure(at, program) == [type |-> "program", program |-> program, at |-> at]

\* A context that was not passed is not declared.
ReferenceError == Str(<<"ReferenceError">>)
At(at, depth) == IF depth \in DOMAIN at THEN at[depth] ELSE ReferenceError

\* The parameters of the function of a program: its context, and those it looks out to.
Parameters(program) == {0} \cup Depths[program]

\* program, programWithDepth
Declared(program, context, at) ==
  [d \in Parameters(program) |-> IF d = 0 THEN context ELSE At(at, d - 1)]

Call(inner, closure, context) ==
  inner[closure.program][Declared(closure.program, context, closure.at)]

RunBlock(inner, runs, fn, inverse) ==
  Str(FlattenSeq([i \in DOMAIN runs |->
        Call(inner, IF runs[i].which = "program" THEN fn ELSE inverse, runs[i].context)]))

\* What a helper returns.
Invoked(inner, name, this, params, fn, inverse) ==
  IF name \in Blocks THEN RunBlock(inner, BlockRuns(name, this, params), fn, inverse)
                     ELSE Str(HelperText(name, this, params))

-----------------------------------------------------------------------------
(* Opcodes.                                                                  *)

AppendContent(m, string) == [m EXCEPT !.buffer = Append(@, <<string>>)]

\* append, appendEscaped
AppendValue(m, escaped) == [Pop(m, 1) EXCEPT !.buffer = Append(@, Appended(Peek(m, 0), escaped))]

\* The page raises an exception when a name is looked up on an undefined context: a
\* program that is not handed on the contexts it looks out to gets Undefined here.
GetContext(m, depth)         == [m EXCEPT !.context = depth]
LookupOnContext(m, at, name) == Push(m, Field(At(at, m.context), name))
PushContext(m, at)           == Push(m, At(at, m.context))
Lookup(m, name)              == Replace(m, 1, Field(Peek(m, 0), name))
PushString(m, string)        == Push(m, Str(<<string>>))
PushProgram(m, at, program)  == Push(m, Closure(at, program))

\* setupParams: the programs of the block, then the parameters.
Params(m, n) == [i \in 1 .. n |-> Peek(m, i + 1)]

InvokeHelper(inner, m, at, n, name) ==
  Replace(m, n + 2, Invoked(inner, name, At(at, 0), Params(m, n), Peek(m, 1), Peek(m, 0)))

\* A helper has precedence over a name of the context.
InvokeAmbiguous(inner, m, at, name) ==
  LET found == name \in Helpers
      value == IF found THEN Invoked(inner, name, At(at, 0), <<>>, Peek(m, 1), Peek(m, 0))
                        ELSE Field(At(at, m.context), name)
  IN  [Replace(m, 2, value) EXCEPT !.lastHelper = found]

BlockValue(inner, m, at) ==
  Replace(m, 3, RunBlock(inner, SectionRuns(Peek(m, 2), At(at, 0)), Peek(m, 1), Peek(m, 0)))

\* What a helper returned stays.
AmbiguousBlockValue(inner, m, at) == IF m.lastHelper THEN Pop(m, 2) ELSE BlockValue(inner, m, at)

Step(inner, at, m, op) ==
  CASE op.opcode = "appendContent"       -> AppendContent(m, op.arg)
    [] op.opcode = "append"              -> AppendValue(m, op.arg)
    [] op.opcode = "getContext"          -> GetContext(m, op.arg)
    [] op.opcode = "lookupOnContext"     -> LookupOnContext(m, at, op.arg)
    [] op.opcode = "pushContext"         -> PushContext(m, at)
    [] op.opcode = "lookup"              -> Lookup(m, op.arg)
    [] op.opcode = "pushString"          -> PushString(m, op.arg)
    [] op.opcode = "pushProgram"         -> PushProgram(m, at, op.arg)
    [] op.opcode = "invokeHelper"        -> InvokeHelper(inner, m, at, op.arg[1], op.arg[2])
    [] op.opcode = "invokeAmbiguous"     -> InvokeAmbiguous(inner, m, at, op.arg)
    [] op.opcode = "blockValue"          -> BlockValue(inner, m, at)
    [] op.opcode = "ambiguousBlockValue" -> AmbiguousBlockValue(inner, m, at)

\* The machine after its opcodes, from m.
After(inner, at, m, ops) ==
  LET after[k \in 0 .. Len(ops)] ==
        IF k = 0 THEN m ELSE Step(inner, at, after[k - 1], ops[k])
  IN  after[Len(ops)]

\* The function that is generated for a program: it returns its buffer.
CreateFunction(inner, program) ==
  [at \in [Parameters(program) -> PageValue \cup {ReferenceError}] |->
     FlattenSeq(After(inner, at, Machine, Opcodes(program)).buffer)]

FunctionContext[program \in Program] ==
  CreateFunction([q \in Inside(program) |-> FunctionContext[q]], program)

\* template: a parameter that is not passed is undefined.
TemplateFn(program, context) ==
  FunctionContext[program][[d \in Parameters(program) |-> IF d = 0 THEN context ELSE Undefined]]

-----------------------------------------------------------------------------
\* A text is one of the statements that its template was written for.
ASSUME PageTemplateAssumption ==
  /\ PageContext \subseteq PageValue
  /\ \A t \in PageTemplate :
       LET parsed == Parse(t.text)
       IN  IF t.valid THEN t.program \in Program /\ Accepted(parsed) /\ Statements(parsed) = t.program
                      ELSE ~Accepted(parsed)

NoTemplate  == [text |-> <<>>, program |-> <<>>, valid |-> FALSE]
NotRendered == <<>>
Exception   == <<"exception">>

TemplatesInit == template = NoTemplate /\ rendered = NotRendered

\* withTemplate: the text of the template has come.
LoadTemplate(t) ==
  /\ template = NoTemplate
  /\ template' = t
  /\ UNCHANGED rendered

\* render: a template is parsed and compiled when it is used.
RenderTemplate(context) ==
  /\ template # NoTemplate /\ rendered = NotRendered
  /\ LET parsed == Parse(template.text) IN
     rendered' = <<context, IF Accepted(parsed) THEN TemplateFn(Statements(parsed), context)
                                                ELSE Exception>>
  /\ UNCHANGED template

TemplatesNext ==
  \/ \E t \in PageTemplate : LoadTemplate(t)
  \/ \E context \in PageContext : RenderTemplate(context)

TemplatesSpec == TemplatesInit /\ [][TemplatesNext]_templateVars

-----------------------------------------------------------------------------
\* A page shows what its template stands for, however its blocks are nested and however
\* far out they look: what the stack machine leaves in the buffer is the rendering of the
\* statements the text was written for.  A text with tags that do not match is not shown.
RendersTheTemplate ==
  rendered # NotRendered =>
    rendered[2] = IF template.valid THEN Rendering[template.program][<<rendered[1]>>]
                                    ELSE Exception
===============================================================================
