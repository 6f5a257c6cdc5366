----------------------------- MODULE TemplateParser -----------------------------
(***************************************************************************)
(* How the text of a template becomes its statements (the parser of        *)
(* lib/handlebars.js).  The text is a sequence of tokens; the parser       *)
(* shifts them one by one, keeps the blocks that are not closed on its     *)
(* stack, and reduces a tag to a statement when it closes.  The parts of   *)
(* the grammar that the pages do not use are left out: hashes, data,       *)
(* numbers, partials.                                                      *)
(***************************************************************************)
EXTENDS Templates

Token(token, text) == [token |-> token, text |-> text]
Tags == {"OPEN", "OPEN_UNESCAPED", "OPEN_BLOCK", "OPEN_INVERSE", "OPEN_ENDBLOCK"}

-----------------------------------------------------------------------------
(* The state of the parser.                                                  *)

\* A program that is not complete, and the tag that opened it.
Frame(tag, path, mustache) ==
  [tag |-> tag, path |-> path, mustache |-> mustache,
   program |-> <<>>, inverse |-> <<>>, inInverse |-> FALSE]

NoTag == "none"
Root == Frame("root", <<>>, NoTag)

Parser == [frames |-> <<Root>>, tag |-> NoTag, params |-> <<>>, sep |-> FALSE, failed |-> FALSE]

\* parseError: an exception, and no template.
Fail(s) == [s EXCEPT !.failed = TRUE]
OnTopFrame(s, frame) == [s EXCEPT !.frames = Append(Front(@), frame)]

-----------------------------------------------------------------------------
(* Inside a tag: a path, then other paths and strings.                       *)

IsPath(param) == param.type = "path"
EndsWithPath(s) == s.params # <<>> /\ IsPath(Last(s.params))

\* A path has a new part after a separator; there is a new parameter otherwise.
ShiftId(s, name) ==
  IF s.sep THEN [s EXCEPT !.params[Len(s.params)].parts = Append(@, name), !.sep = FALSE]
           ELSE [s EXCEPT !.params = Append(@, [type |-> "path", parts |-> <<name>>])]

ShiftSep(s) == IF EndsWithPath(s) /\ ~s.sep THEN [s EXCEPT !.sep = TRUE] ELSE Fail(s)

ShiftString(s, string) ==
  IF s.params # <<>> /\ ~s.sep THEN [s EXCEPT !.params = Append(@, Literal(string))] ELSE Fail(s)

\* IdNode: the scopes come first in a path.
ValidPath(parts) ==
  \A i \in 1 .. Len(parts) - 1 : parts[i + 1] \in Scopes => parts[i] \in Scopes

ValidParams(s) == ~s.sep /\ \A i \in DOMAIN s.params : IsPath(s.params[i]) => ValidPath(s.params[i].parts)

ParamNode(param) == IF IsPath(param) THEN Id(param.parts) ELSE param

InMustache(s) ==
  Mustache(Id(s.params[1].parts), [i \in 1 .. Len(s.params) - 1 |-> ParamNode(s.params[i + 1])],
           s.tag # "OPEN_UNESCAPED")

-----------------------------------------------------------------------------
(* A tag is complete.                                                        *)

\* A statement goes to the program on top of the stack, or to its inverse.
AddStatement(s, node) ==
  LET frame == Last(s.frames) IN
  OnTopFrame(s, IF frame.inInverse THEN [frame EXCEPT !.inverse = Append(@, node)]
                                   ELSE [frame EXCEPT !.program = Append(@, node)])

OpenProgram(s) == [s EXCEPT !.frames = Append(@, Frame(s.tag, s.params[1].parts, InMustache(s)))]

\* A program has one inverse.
SimpleInverse(s) ==
  IF Last(s.frames).inInverse THEN Fail(s)
                              ELSE OnTopFrame(s, [Last(s.frames) EXCEPT !.inInverse = TRUE])

\* verifyMatch
VerifyMatch(s) == Len(s.frames) > 1 /\ s.params[1].parts = Last(s.frames).path

\* What an inverse block opens is its inverse.
BlockOf(frame) ==
  IF frame.tag = "OPEN_BLOCK" THEN Block(frame.mustache, frame.program, frame.inverse)
                              ELSE Block(frame.mustache, frame.inverse, frame.program)

CloseProgram(s) ==
  IF Len(s.params) = 1 /\ VerifyMatch(s)
  THEN AddStatement([s EXCEPT !.frames = Front(@)], BlockOf(Last(s.frames)))
  ELSE Fail(s)

Reduced(s) ==
  CASE ~ValidParams(s)                                 -> Fail(s)
    [] s.params = <<>> /\ s.tag = "OPEN_INVERSE"       -> SimpleInverse(s)
    [] s.params = <<>> /\ s.tag # "OPEN_INVERSE"       -> Fail(s)
    [] s.params # <<>> /\ s.tag \in {"OPEN", "OPEN_UNESCAPED"} -> AddStatement(s, InMustache(s))
    [] s.params # <<>> /\ s.tag \in {"OPEN_BLOCK", "OPEN_INVERSE"} -> OpenProgram(s)
    [] s.params # <<>> /\ s.tag = "OPEN_ENDBLOCK"      -> CloseProgram(s)

OpenTag(s, tag) == IF s.tag = NoTag THEN [s EXCEPT !.tag = tag] ELSE Fail(s)
CloseTag(s)     == [Reduced(s) EXCEPT !.tag = NoTag, !.params = <<>>, !.sep = FALSE]

-----------------------------------------------------------------------------
Outside(token) == token.token \in Tags \cup {"CONTENT"}

Shift(s, token) ==
  CASE s.failed -> s
    [] ~s.failed /\ Outside(token) # (s.tag = NoTag) -> Fail(s)
    [] ~s.failed /\ s.tag = NoTag /\ token.token = "CONTENT" -> AddStatement(s, Content(token.text))
    [] ~s.failed /\ s.tag = NoTag /\ token.token \in Tags    -> OpenTag(s, token.token)
    [] ~s.failed /\ s.tag # NoTag /\ token.token = "ID"      -> ShiftId(s, token.text)
    [] ~s.failed /\ s.tag # NoTag /\ token.token = "SEP"     -> ShiftSep(s)
    [] ~s.failed /\ s.tag # NoTag /\ token.token = "STRING"  -> ShiftString(s, token.text)
    [] ~s.failed /\ s.tag # NoTag /\ token.token = "CLOSE"   -> CloseTag(s)

\* The end of the text ends the outermost program.
Accepted(s) == ~s.failed /\ s.tag = NoTag /\ Len(s.frames) = 1

Parse(text) == FoldLeft(LAMBDA s, token : Shift(s, token), Parser, text)
Statements(s) == s.frames[1].program

==================================================================================
