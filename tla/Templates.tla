------------------------------- MODULE Templates -------------------------------
(***************************************************************************)
(* The templates of the pages (lib/handlebars.js), the helpers they call   *)
(* (lib/render.js, component/request.js), and what a template stands for:  *)
(* its statements rendered one after the other, a name looked up in the    *)
(* innermost scope, and each `..` one scope further out.  TemplateCompiler *)
(* shows that what the compiler makes of a template renders the same.      *)
(***************************************************************************)
EXTENDS Naturals, Sequences, SequencesExt

CONSTANTS
  Catalogue,   \* keys that have a text in the language of the user
  Special,     \* texts with characters that are special in HTML
  Program,     \* programs of the templates, those of their blocks included
  Nesting,     \* how many blocks of a program are one in the other
  PageValue    \* what templates are rendered with, and the values in it

-----------------------------------------------------------------------------
(* The data a page renders: a text is a sequence of pieces.                  *)

Undefined  == [type |-> "undefined"]
True       == [type |-> "true"]
False      == [type |-> "false"]
Num(n)     == [type |-> "number", text |-> <<n>>]
Str(s)     == [type |-> "string", text |-> s]
Arr(items) == [type |-> "array", items |-> items]
Obj(f)     == [type |-> "object", fields |-> f]

Missing(v) == v.type = "undefined"
Falsy(v)   == v \in {Undefined, False, Num("0"), Str(<<>>)}
IsEmpty(v) == (Falsy(v) /\ v.type # "number") \/ (v.type = "array" /\ v.items = <<>>)

\* An object is a sequence of named values.
Field(v, name) ==
  LET i == IF v.type = "object" THEN SelectInSeq(v.fields, LAMBDA field : field[1] = name) ELSE 0
  IN  IF i = 0 THEN Undefined ELSE v.fields[i][2]

\* What a value is in a page.  Only the texts without characters that are special in
\* HTML are the same when they are escaped.
Printed(v) ==
  CASE v.type \in {"string", "number"} -> v.text
    [] v.type = "true" -> <<"true">>
    [] v.type \in {"array", "object"} -> <<v.type>>
    [] OTHER -> <<>>

EscapeExpression(pieces) ==
  [i \in DOMAIN pieces |-> IF pieces[i] \in Special THEN "escaped " \o pieces[i] ELSE pieces[i]]

Appended(v, escaped) ==
  IF escaped THEN EscapeExpression(Printed(v)) ELSE IF Falsy(v) /\ v.type # "number" THEN <<>> ELSE Printed(v)

-----------------------------------------------------------------------------
(* Statements of a template.                                                 *)

Scopes == {"..", ".", "this"}

\* IdNode
Id(parts) ==
  [type  |-> "ID",
   depth |-> Len(SelectSeq(parts, LAMBDA p : p = "..")),
   parts |-> SelectSeq(parts, LAMBDA p : p \notin Scopes),
   isSimple |-> Len(parts) = 1 /\ parts[1] \notin Scopes]

Literal(string) == [type |-> "STRING", string |-> string]
Content(string) == [type |-> "content", string |-> string]

Mustache(id, params, escaped) ==
  [type |-> "mustache", id |-> id, params |-> params, escaped |-> escaped]

NoProgram == <<>>
Block(mustache, program, inverse) ==
  [type |-> "block", mustache |-> mustache, program |-> program, inverse |-> inverse]

-----------------------------------------------------------------------------
(* Helpers.                                                                  *)

\* loc: a key without a text is shown between ##.
Loc(key) == IF key \in Catalogue THEN <<"text of " \o key>> ELSE <<"##" \o key \o "##">>

FirstWith(items, name, value) ==
  SelectInSeq(items, LAMBDA item : Printed(Field(item, name)) = Printed(value))

\* The first link with a relation, or nothing.
Link(this, rel) ==
  LET links == Field(this, "links").items
      i == FirstWith(links, "rel", rel)
  IN  IF i = 0 THEN <<>> ELSE Printed(Field(links[i], "href"))

\* getResource and the signature of an event: the events of a resource, or those of the
\* context.
EventText(this, code, resource, signature) ==
  LET owner  == IF Missing(Field(resource, "events")) THEN this ELSE resource
      events == Field(owner, "events").items
      i      == FirstWith(events, "code", code)
  IN  IF i = 0 THEN <<>>
      ELSE FoldLeft(LAMBDA out, name : out \o Printed(Field(events[i], name)), <<>>, signature)

\* An image of the status, its text, and the message when there is one.
RequestStatus(status, message) ==
  <<"image of " \o status>> \o Loc("request.status." \o status)
    \o IF Missing(Field(message, "code")) THEN <<>> ELSE Loc(Printed(Field(message, "code"))[1])

ProjectRole(role) == <<"image of " \o role>> \o Loc("projectRole." \o role)

Simple  == {"loc", "link", "eventElapsed", "eventTimestampAndElapsed", "requestStatus", "projectRole"}
Blocks  == {"each", "if", "unless", "with", "granted"}
Helpers == Simple \cup Blocks

\* A parameter that is not given is undefined.
Param(params, i) == IF i <= Len(params) THEN params[i] ELSE Undefined

HelperText(name, this, params) ==
  CASE name = "loc"           -> Loc(Printed(params[1])[1])
    [] name = "link"          -> Link(this, params[1])
    [] name = "requestStatus" -> RequestStatus(Printed(params[1])[1], Param(params, 2))
    [] name = "projectRole"   -> ProjectRole(Printed(params[1])[1])
    [] name = "eventElapsed"  ->
         EventText(this, params[1], Param(params, 3), <<"elapsedTimeAndAuthor">>)
    [] name = "eventTimestampAndElapsed" ->
         EventText(this, params[1], Param(params, 3), <<"formattedTimestamp", "elapsedTimeAndAuthor">>)

\* A block helper renders its program or its inverse in some contexts.
Run(which, context) == [which |-> which, context |-> context]
Once(which, context) == <<Run(which, context)>>
InEach(items) == [i \in DOMAIN items |-> Run("program", items[i])]

\* blockHelperMissing
SectionRuns(value, this) ==
  CASE value = True -> Once("program", this)
    [] value \in {Undefined, False} -> Once("inverse", this)
    [] value.type = "array" -> IF value.items = <<>> THEN Once("inverse", this) ELSE InEach(value.items)
    [] OTHER -> Once("program", value)

EachRuns(value, this) ==
  LET items == CASE value.type = "array"  -> value.items
                 [] value.type = "object" -> [i \in DOMAIN value.fields |-> value.fields[i][2]]
                 [] OTHER -> <<>>
  IN  IF items = <<>> THEN Once("inverse", this) ELSE InEach(items)

IfRuns(value, this)   == Once(IF Falsy(value) \/ IsEmpty(value) THEN "inverse" ELSE "program", this)
UnlessRuns(value, this) == Once(IF Falsy(value) \/ IsEmpty(value) THEN "program" ELSE "inverse", this)

\* Nothing is rendered otherwise, not even the inverse.
WithRuns(value) == IF IsEmpty(value) THEN <<>> ELSE Once("program", value)

GrantedRuns(action, this) ==
  IF \E i \in DOMAIN Field(this, "actions").items : Printed(Field(this, "actions").items[i]) = Printed(action)
  THEN Once("program", this) ELSE <<>>

BlockRuns(name, this, params) ==
  CASE name = "each"    -> EachRuns(Param(params, 1), this)
    [] name = "if"      -> IfRuns(Param(params, 1), this)
    [] name = "unless"  -> UnlessRuns(Param(params, 1), this)
    [] name = "with"    -> WithRuns(Param(params, 1))
    [] name = "granted" -> GrantedRuns(Param(params, 1), this)

-----------------------------------------------------------------------------
(* Programs.  The parser makes them of a text, which ends: blocks are one in
   the other a number of times.                                              *)

CallsHelper(mustache) == mustache.id.isSimple /\ mustache.id.parts[1] \in Helpers

IdNode       == [type : {"ID"}, depth : Nat, parts : Seq(STRING), isSimple : BOOLEAN]
StringNode   == [type : {"STRING"}, string : STRING]
ContentNode  == [type : {"content"}, string : STRING]
MustacheNode == [type : {"mustache"}, id : IdNode, params : Seq(IdNode \cup StringNode),
                 escaped : BOOLEAN]
BlockNode    == [type : {"block"}, mustache : MustacheNode, program : Program, inverse : Program]

\* Parameters are given to a helper, and the helpers that render blocks stand in blocks.
ValidCall(mustache, helpers) ==
  /\ mustache.id.isSimple => mustache.id.depth = 0 /\ Len(mustache.id.parts) = 1
  /\ IF CallsHelper(mustache) THEN mustache.id.parts[1] \in helpers ELSE mustache.params = <<>>

ValidNode(node, nesting) ==
  CASE node.type = "content"  -> TRUE
    [] node.type = "mustache" -> ValidCall(node, Simple)
    [] node.type = "block"    -> /\ ValidCall(node.mustache, Blocks)
                                 /\ Nesting[node.program] < nesting
                                 /\ Nesting[node.inverse] < nesting

\* The programs of the blocks of a program.
Inside(program) ==
  UNION {{program[i].program, program[i].inverse} :
           i \in {j \in DOMAIN program : program[j].type = "block"}}

Literals(mustache) == {mustache.params[i] : i \in DOMAIN mustache.params} \cap StringNode

ASSUME ProgramAssumption ==
  /\ Nesting \in [Program -> Nat]
  /\ \A program \in Program :
       /\ program \in Seq(ContentNode \cup MustacheNode \cup BlockNode)
       /\ \A i \in DOMAIN program : ValidNode(program[i], Nesting[program])

\* What a template finds in a value it is rendered with is one of them.
ASSUME PageValueAssumption ==
  /\ Undefined \in PageValue
  /\ \A v \in PageValue :
       /\ v.type = "array"  => v.items \in Seq(PageValue)
       /\ v.type = "object" => v.fields \in Seq(STRING \X PageValue)
  /\ \A program \in Program : \A i \in DOMAIN program :
       program[i].type = "block" =>
         \A literal \in Literals(program[i].mustache) : Str(<<literal.string>>) \in PageValue

-----------------------------------------------------------------------------
(* What a template stands for.  The innermost scope comes first; nothing is  *)
(* around the outermost one.                                                 *)

Outward(scopes, depth) == IF depth < Len(scopes) THEN scopes[depth + 1] ELSE Undefined

\* The value that is found by its names, one in the other.
Path(value, names) ==
  LET found[k \in 0 .. Len(names)] == IF k = 0 THEN value ELSE Field(found[k - 1], names[k])
  IN  found[Len(names)]

Looked(id, scopes) == Path(Outward(scopes, id.depth), id.parts)

ParamValue(param, scopes) ==
  IF param.type = "STRING" THEN Str(<<param.string>>) ELSE Looked(param, scopes)

ParamValues(mustache, scopes) ==
  [i \in DOMAIN mustache.params |-> ParamValue(mustache.params[i], scopes)]

MustacheValue(mustache, scopes) ==
  IF CallsHelper(mustache)
  THEN Str(HelperText(mustache.id.parts[1], Outward(scopes, 0), ParamValues(mustache, scopes)))
  ELSE Looked(mustache.id, scopes)

RunsOf(mustache, scopes) ==
  IF CallsHelper(mustache)
  THEN BlockRuns(mustache.id.parts[1], Outward(scopes, 0), ParamValues(mustache, scopes))
  ELSE SectionRuns(Looked(mustache.id, scopes), Outward(scopes, 0))

\* inner: what the programs of the block stand for.
Statement(inner, node, scopes) ==
  CASE node.type = "content"  -> <<node.string>>
    [] node.type = "mustache" -> Appended(MustacheValue(node, scopes), node.escaped)
    [] node.type = "block"    ->
         LET runs == RunsOf(node.mustache, scopes)
         IN  FlattenSeq([i \in DOMAIN runs |->
                           inner[node[runs[i].which]][<<runs[i].context>> \o scopes]])

Rendered(inner, program) ==
  [scopes \in Seq(PageValue) |->
     FlattenSeq([i \in DOMAIN program |-> Statement(inner, program[i], scopes)])]

Rendering[program \in Program] ==
  Rendered([q \in Inside(program) |-> Rendering[q]], program)
================================================================================
