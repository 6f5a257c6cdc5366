------------------------------ MODULE PageTemplates ------------------------------
(***************************************************************************)
(* Templates for TLC: the forms that the templates of the pages use        *)
(* (app/template/*.html), one in the other, and the data they are rendered *)
(* with.                                                                   *)
(***************************************************************************)
EXTENDS TemplateCompiler

X    == Mustache(Id(<<"x">>), <<>>, TRUE)
Raw  == Mustache(Id(<<"x">>), <<>>, FALSE)
This == Mustache(Id(<<".">>), <<>>, TRUE)
Gui  == Mustache(Id(<<"link">>), <<Literal("gui")>>, TRUE)
Up(n, name) == Mustache(Id([i \in 1 .. n |-> ".."] \o <<name>>), <<>>, TRUE)

\* Statements without a block; those that look n scopes out stand in n blocks.  The
\* plain ones render in any context, the helpers need an object.
PlainAt(level) == {X, This} \cup {Up(n, "x") : n \in 1 .. level}

LeavesAt(level) ==
  PlainAt(level)
    \cup {Gui, Mustache(Id(<<"y", "z">>), <<>>, TRUE), Mustache(Id(<<"loc">>), <<Id(<<"k">>)>>, TRUE)}

OtherLeaves ==
  {Raw, Content("markup"),
   Mustache(Id(<<"loc">>), <<Literal("known")>>, TRUE),
   Mustache(Id(<<"projectRole">>), <<Id(<<"k">>)>>, FALSE),
   Mustache(Id(<<"requestStatus">>), <<Id(<<"k">>), Id(<<"y">>)>>, FALSE),
   Mustache(Id(<<"eventElapsed">>), <<Id(<<"k">>)>>, FALSE),
   Mustache(Id(<<"eventTimestampAndElapsed">>), <<Literal("known"), Literal("icon"), Id(<<"y">>)>>, FALSE)}

\* What opens a block inside `level` blocks.
HeadsAt(level) ==
  {Mustache(Id(<<"each">>), <<Id(<<"items">>)>>, TRUE),
   Mustache(Id(<<"if">>), <<Id(<<"x">>)>>, TRUE),
   Mustache(Id(<<"with">>), <<Id(<<"y">>)>>, TRUE),
   Mustache(Id(<<"items">>), <<>>, TRUE),
   Mustache(Id(<<"y">>), <<>>, TRUE)}
    \cup {Up(n, "items") : n \in 1 .. level}

OtherHeads ==
  {Mustache(Id(<<"unless">>), <<Id(<<"y", "z">>)>>, TRUE),
   Mustache(Id(<<"granted">>), <<Literal("update")>>, TRUE),
   Mustache(Id(<<"granted">>), <<Literal("delete")>>, TRUE)}

\* These give their program the texts of an object.
TextHeads == {Mustache(Id(<<"each">>), <<Id(<<"y">>)>>, TRUE), Mustache(Id(<<"x">>), <<>>, TRUE)}

Deepest(level) == {<<leaf>> : leaf \in LeavesAt(level)}

Innermost ==
  {<<Block(head, body, NoProgram)>> : head \in HeadsAt(2), body \in Deepest(3)}

\* Three blocks, one in the other; what follows the inner ones looks outside too.
NestedBlocks ==
  {<<Block(outer, <<Block(head, body \o <<Up(2, "x")>>, NoProgram), Up(1, "x")>>, NoProgram)>> :
     outer \in {Mustache(Id(<<"items">>), <<>>, TRUE), Mustache(Id(<<"with">>), <<Id(<<"y">>)>>, TRUE)},
     head \in HeadsAt(1), body \in Innermost}

\* The two programs of a block look out at different depths.
WithInverses ==
  {<<Block(outer, <<Block(head, <<inside>>, <<outside>>)>>, <<X>>)>> :
     outer \in HeadsAt(0), head \in HeadsAt(1) \cup OtherHeads,
     inside \in LeavesAt(2), outside \in {X, Up(1, "x"), Up(2, "x")}}

\* Two blocks next to each other.
SideBySide ==
  {<<Block(first, <<leaf>>, NoProgram), leaf, Block(second, <<leaf>>, <<Gui>>)>> :
     first \in OtherHeads, second \in HeadsAt(0), leaf \in OtherLeaves \cup LeavesAt(0)}

InTexts ==
  {<<Block(head, <<leaf>>, <<Gui>>)>> : head \in TextHeads, leaf \in PlainAt(1)}

Named(name) ==
  Obj(<<<<"x", Str(<<name>>)>>, <<"k", Str(<<"known">>)>>,
        <<"links", Arr(<<Obj(<<<<"rel", Str(<<"gui">>)>>, <<"href", Str(<<"/" \o name>>)>> >>)>>)>>,
        <<"actions", Arr(<<Str(<<"update">>)>>)>>,
        <<"events", Arr(<<Obj(<<<<"code", Str(<<"known">>)>>,
                               <<"formattedTimestamp", Str(<<"then">>)>>,
                               <<"elapsedTimeAndAuthor", Str(<<"by " \o name>>)>> >>)>>)>> >>)

With(object, name, value) == Obj(<<<<name, value>>>> \o object.fields)

\* A block that renders its inverse only.
InverseBlocks ==
  {<<Block(head, <<Block(inside, NoProgram, <<leaf>>)>>, NoProgram)>> :
     head \in HeadsAt(0), inside \in HeadsAt(1), leaf \in {X, Up(2, "x")}}

MCPrograms == SideBySide \cup WithInverses \cup NestedBlocks \cup InTexts \cup InverseBlocks

-----------------------------------------------------------------------------
(* How a template is written: a sequence of tags, each a sequence of tokens. *)

PathTokens(id) ==
  LET up    == [i \in 1 .. id.depth |-> ".."]
      names == IF up \o id.parts = <<>> THEN <<".">> ELSE up \o id.parts
  IN  <<Token("ID", names[1])>>
        \o FlattenSeq([i \in 1 .. Len(names) - 1 |-> <<Token("SEP", "/"), Token("ID", names[i + 1])>>])

ParamTokens(param) ==
  IF param.type = "STRING" THEN <<Token("STRING", param.string)>> ELSE PathTokens(param)

Tag(tag, tokens) == <<Token(tag, "")>> \o tokens \o <<Token("CLOSE", "")>>

MustacheTag(tag, mustache) ==
  Tag(tag, PathTokens(mustache.id)
             \o FlattenSeq([i \in DOMAIN mustache.params |-> ParamTokens(mustache.params[i])]))

RECURSIVE Written(_)

WrittenBlock(block) ==
  (IF block.program = NoProgram
   THEN <<MustacheTag("OPEN_INVERSE", block.mustache)>> \o Written(block.inverse)
   ELSE <<MustacheTag("OPEN_BLOCK", block.mustache)>> \o Written(block.program)
          \o IF block.inverse = NoProgram THEN <<>>
             ELSE <<Tag("OPEN_INVERSE", <<>>)>> \o Written(block.inverse))
    \o <<Tag("OPEN_ENDBLOCK", PathTokens(block.mustache.id))>>

Written(program) ==
  FlattenSeq([i \in DOMAIN program |->
    CASE program[i].type = "content"  -> <<<<Token("CONTENT", program[i].string)>>>>
      [] program[i].type = "mustache" ->
           <<MustacheTag(IF program[i].escaped THEN "OPEN" ELSE "OPEN_UNESCAPED", program[i])>>
      [] program[i].type = "block"    -> WrittenBlock(program[i])])

-----------------------------------------------------------------------------
(* The templates.                                                            *)

TextOf(tags) == FlattenSeq(tags)

\* A tag of a block is missing, or two tags that close blocks are exchanged.
OfBlock(tag)  == tag[1].token \in {"OPEN_BLOCK", "OPEN_ENDBLOCK"}
Closes(tag)   == tag[1].token = "OPEN_ENDBLOCK"
Exchanged(tags, i) == [tags EXCEPT ![i] = tags[i + 1], ![i + 1] = tags[i]]

Mistakes(tags) ==
  {RemoveAt(tags, i) : i \in {j \in DOMAIN tags : OfBlock(tags[j])}}
    \cup {Exchanged(tags, i) : i \in {j \in 1 .. Len(tags) - 1 :
              Closes(tags[j]) /\ Closes(tags[j + 1]) /\ tags[j] # tags[j + 1]}}

MCTemplates ==
  {[text |-> TextOf(Written(program)), program |-> program, valid |-> TRUE] : program \in MCPrograms}
    \cup {[text |-> TextOf(tags), program |-> <<>>, valid |-> FALSE] :
            tags \in UNION {Mistakes(Written(program)) : program \in InverseBlocks}}

Inner == With(With(Named("inner"), "z", Str(<<"<">>)), "items", Arr(<<Named("i")>>))

MCContexts ==
  {With(With(Named("a"), "items", Arr(<<With(Named("b"), "y", Inner), With(Named("c"), "items", Arr(<<>>))>>)),
        "y", Inner),
   With(With(Named("<"), "items", Arr(<<>>)), "y", False),
   With(With(Named("d"), "items", Arr(<<With(Named("e"), "items", Arr(<<Named("f"), Named("g")>>))>>)),
        "y", With(Named("h"), "y", Named("j")))}

-----------------------------------------------------------------------------
(* What the constants of the templates are.                                  *)

\* The programs in the statements of some programs.
WithInside(programs) ==
  programs \cup
    {IF i \in DOMAIN program /\ program[i].type = "block" THEN program[i][which] ELSE NoProgram :
       program \in programs, i \in 1 .. 3, which \in {"program", "inverse"}}

\* There are at most four blocks one in the other.
AllPrograms == WithInside(WithInside(WithInside(WithInside(MCPrograms))))

RECURSIVE NestingOf(_)
NestingOf(program) ==
  IF Inside(program) = {} THEN 0 ELSE 1 + Max({NestingOf(q) : q \in Inside(program)})

AllNestings == [program \in AllPrograms |-> NestingOf(program)]

RECURSIVE WithParts(_)
WithParts(v) ==
  {v} \cup CASE v.type = "array"  -> UNION {WithParts(v.items[i]) : i \in DOMAIN v.items}
             [] v.type = "object" -> UNION {WithParts(v.fields[i][2]) : i \in DOMAIN v.fields}
             [] OTHER -> {}

\* The last ones are the literals that are given to blocks.
AllPageValues ==
  {Undefined, Str(<<"update">>), Str(<<"delete">>)} \cup UNION {WithParts(context) : context \in MCContexts}

\* TLC evaluates a definition once, and the definition of a constant each time.
MCProgram   == AllPrograms
MCNesting   == AllNestings
MCPageValue == AllPageValues
==================================================================================
