------------------------------ MODULE RequestPage ------------------------------
(***************************************************************************)
(* The edition of one entry of a request in the browser                    *)
(* (controller/request-view.js): the entry is loaded into the page, one    *)
(* field per locale, and a field is saved when the user leaves it, presses *)
(* Shift+Enter or its button.  The server answers out of order or not at   *)
(* all, other users edit the same entry, and the request may be closed.    *)
(***************************************************************************)
EXTENDS Ajax, Naturals, Sequences

CONSTANTS
  Locale,
  Value,
  Rejected,    \* values the controls of the server have a message for
  MaxRendering \* bound on the answers that wait for the template

NoFocus == "no focus"

ASSUME PageAssumption ==
  /\ Value # {} /\ MaxRendering \in Nat
  /\ NoFocus \notin Locale

VARIABLES
  editable,    \* the entry may be edited, as the page was told when it was loaded
  status,      \* of the request, on the server: CLOSED when merged or deleted
  stored,      \* value of the entry in each locale, on the server
  held,        \* values each locale has had on the server
  header,      \* the icon that loads the entry
  rendering,   \* answers to the load that wait for the template
  fields,      \* the field of each locale
  focus,       \* locale of the field that has the focus
  message,     \* the error dialog is open
  disturbed    \* history: fields left or cancelled during a save, or whose save failed

Server == <<status, stored, held>>
vars == <<calls, editable, Server, header, rendering, fields, focus, message, disturbed>>

Mark == {"warning", "success", "invalid"}

Field == [present : BOOLEAN,
          text : Value, previous : Value,     \* val() and data-previous-value
          marks : SUBSET Mark,
          typing : BOOLEAN,                   \* flag of jquery.typing
          element : Element]

AnyValue == CHOOSE v \in Value : TRUE
NoField == [present |-> FALSE, text |-> AnyValue, previous |-> AnyValue, marks |-> {},
            typing |-> FALSE, element |-> Plain]

\* What a call is about; live: the field it was sent from is still in the page.
LoadAbout == [locale : {NoFocus}, value : [Locale -> Value], live : {TRUE}]
SaveAbout == [locale : Locale, value : Value, live : BOOLEAN]
LoadCall == [method : {"GET"}, outcome : Outcome, about : LoadAbout]
SaveCall == [method : {"PUT"}, outcome : Outcome, about : SaveAbout]

TypeOK ==
  /\ calls \in [Connection -> {NoCall} \cup LoadCall \cup SaveCall]
  /\ editable \in BOOLEAN /\ message \in BOOLEAN
  /\ status \in {"EXPORTED", "CLOSED"}
  /\ stored \in [Locale -> Value]
  /\ held \in [Locale -> SUBSET Value]
  /\ header \in Element
  /\ rendering \in Seq([Locale -> Value]) /\ Len(rendering) <= MaxRendering
  /\ fields \in [Locale -> Field]
  /\ focus \in Locale \cup {NoFocus}
  /\ disturbed \subseteq Locale

Init ==
  /\ calls = [c \in Connection |-> NoCall]
  /\ editable \in BOOLEAN
  /\ status = "EXPORTED"
  /\ stored \in [Locale -> Value]
  /\ held = [l \in Locale |-> {stored[l]}]
  /\ header = Plain
  /\ rendering = <<>>
  /\ fields = [l \in Locale |-> NoField]
  /\ focus = NoFocus
  /\ message = FALSE
  /\ disturbed = {}

-----------------------------------------------------------------------------
(* Loading the entry.  The icon keeps reacting to clicks while it loads.  The
   error dialog is modal.                                                    *)

\* Using the mouse elsewhere takes the focus from the field that had it.
CanClick == ~message /\ focus = NoFocus

LoadEntry ==
  /\ CanClick /\ header.visible
  /\ Send(Get([locale |-> NoFocus, value |-> [l \in Locale |-> AnyValue], live |-> TRUE]))
  /\ header' = ShowLoading(header, "append", TRUE)
  /\ UNCHANGED <<editable, Server, rendering, fields, focus, message, disturbed>>

\* There is no entry any more when the request was deleted.
ServeLoad(c) ==
  /\ Is(c, "GET") /\ Reached(c, "pending")
  /\ \/ calls' = [calls EXCEPT ![c].outcome = "ok", ![c].about.value = stored]
     \/ status = "CLOSED" /\ Serve(c, "refused")
  /\ UNCHANGED <<editable, Server, header, rendering, fields, focus, message, disturbed>>

Loaded(c) ==
  /\ Is(c, "GET") /\ Reached(c, "ok")
  /\ Len(rendering) < MaxRendering
  /\ Return(c)
  /\ header' = ShowLoading(header, "append", FALSE)
  /\ rendering' = Append(rendering, About(c).value)
  /\ UNCHANGED <<editable, Server, fields, focus, message, disturbed>>

\* Mutant: a locale the entry has no value for is rendered as it comes.
RenderedFieldUndefined(value) ==
  [NoField EXCEPT !.present = editable, !.text = "undefined", !.previous = value]

RenderedField(value) ==
  [NoField EXCEPT !.present = editable, !.text = value, !.previous = value,
                  !.marks = IF value \in Rejected THEN {"invalid"} ELSE {}]

\* The template is there: new fields replace those of an earlier load, which had
\* the focus or a call in flight.
Render ==
  /\ rendering # <<>>
  /\ rendering' = Tail(rendering)
  /\ header' = [header EXCEPT !.visible = FALSE]
  /\ fields' = [l \in Locale |-> RenderedField(Head(rendering)[l])]
  /\ calls' = [c \in Connection |->
                 IF Is(c, "PUT") THEN [calls[c] EXCEPT !.about.live = FALSE] ELSE calls[c]]
  /\ focus' = NoFocus
  /\ disturbed' = {}
  /\ UNCHANGED <<editable, Server, message>>

-----------------------------------------------------------------------------
(* The user edits a field.                                                   *)

Focus(l) ==
  /\ CanClick /\ fields[l].present
  /\ focus' = l
  /\ UNCHANGED <<calls, editable, Server, header, rendering, fields, message, disturbed>>

\* jquery.typing reports the first key only, until the user has paused.
Type(l, v) ==
  /\ ~message /\ focus = l /\ fields[l].text # v
  /\ fields' = [fields EXCEPT
       ![l].text = v,
       ![l].typing = TRUE,
       ![l].marks = IF fields[l].typing THEN @ ELSE (@ \ {"success"}) \cup {"warning"}]
  /\ UNCHANGED <<calls, editable, Server, header, rendering, focus, message, disturbed>>

StopTyping(l) ==
  /\ fields[l].typing
  /\ fields' = [fields EXCEPT ![l].typing = FALSE]
  /\ UNCHANGED <<calls, editable, Server, header, rendering, focus, message, disturbed>>

Saving(l) == {c \in Connection : Is(c, "PUT") /\ About(c).live /\ About(c).locale = l}
Changed(l) == fields[l].text # fields[l].previous
SaveOf(l) == Put([locale |-> l, value |-> fields[l].text, live |-> TRUE])
Disturb(l) == disturbed' = IF Saving(l) = {} THEN disturbed ELSE disturbed \cup {l}

\* Mutant: the value sent is the previous one from then on.
SaveAtOnce(l) ==
  /\ IF Changed(l)
     THEN /\ Send(SaveOf(l))
          /\ fields' = [fields EXCEPT ![l].element = ShowLoading(@, "append", TRUE),
                                      ![l].previous = fields[l].text]
     ELSE UNCHANGED <<calls, fields>>
  /\ Disturb(l)

\* saveEntryForLocale
Save(l) ==
  /\ IF Changed(l)
     THEN /\ Send(SaveOf(l))
          /\ fields' = [fields EXCEPT ![l].element = ShowLoading(@, "append", TRUE)]
     ELSE UNCHANGED <<calls, fields>>
  /\ Disturb(l)

ShiftEnter(l) ==
  /\ ~message /\ focus = l
  /\ Save(l)
  /\ UNCHANGED <<editable, Server, header, rendering, focus, message>>

Blur(l) ==
  /\ ~message /\ focus = l
  /\ Save(l)
  /\ focus' = NoFocus
  /\ UNCHANGED <<editable, Server, header, rendering, message>>

Submit(l) ==
  /\ CanClick /\ fields[l].present
  /\ Save(l)
  /\ UNCHANGED <<editable, Server, header, rendering, focus, message>>

Cancel(l) ==
  /\ CanClick /\ fields[l].present
  /\ fields' = [fields EXCEPT
       ![l].text = fields[l].previous,
       ![l].marks = IF "success" \in @ THEN (@ \ {"success"}) \cup {"warning"}
                                       ELSE @ \ {"warning"}]
  /\ Disturb(l)
  /\ UNCHANGED <<calls, editable, Server, header, rendering, focus, message>>

-----------------------------------------------------------------------------
(* The server and its answers.                                               *)

Store(l, v) ==
  /\ stored' = [stored EXCEPT ![l] = v]
  /\ held' = [held EXCEPT ![l] = @ \cup {v}]
  /\ UNCHANGED status

ServeSave(c) ==
  /\ Is(c, "PUT") /\ Reached(c, "pending")
  /\ IF status = "EXPORTED"
     THEN Store(About(c).locale, About(c).value) /\ Serve(c, "ok")
     ELSE Serve(c, "refused") /\ UNCHANGED Server
  /\ UNCHANGED <<editable, header, rendering, fields, focus, message, disturbed>>

\* Mutant: the previous value is not updated.
SavedFieldForgets(field, value) ==
  [field EXCEPT !.element = ShowLoading(@, "append", FALSE),
                !.marks = (@ \ {"warning"}) \cup {"success"}]

SavedField(field, value) ==
  [field EXCEPT
     !.element = ShowLoading(@, "append", FALSE),
     !.previous = value,
     !.marks = (@ \ {"warning", "invalid"}) \cup {"success"}
               \cup (IF value \in Rejected THEN {"invalid"} ELSE {})]

Saved(c) ==
  /\ Is(c, "PUT") /\ Reached(c, "ok")
  /\ Return(c)
  /\ LET l == About(c).locale IN
     fields' = IF About(c).live
               THEN [fields EXCEPT ![l] = SavedField(@, About(c).value)]
               ELSE fields
  /\ UNCHANGED <<editable, Server, header, rendering, focus, message, disturbed>>

\* Mutant: the indicator is hidden by a successful answer only.
FailedFieldLoading(c, l, leaves) ==
  IF leaves /\ l = focus THEN ShowLoading(fields[l].element, "append", TRUE)
                         ELSE fields[l].element

FailedField(c, l, leaves) ==
  LET answered == IF c \in Saving(l) THEN ShowLoading(fields[l].element, "append", FALSE)
                                     ELSE fields[l].element
  IN  IF leaves /\ l = focus THEN ShowLoading(answered, "append", TRUE) ELSE answered

\* A failure is shown in a dialog when there is a message for it.  The dialog
\* takes the focus, and the field that had it is saved.
Failed(c) ==
  /\ Reached(c, "refused") \/ Reached(c, "lost")
  /\ message' = (message \/ HasMessage(calls[c].outcome))
  /\ LET leaves == HasMessage(calls[c].outcome) /\ focus # NoFocus
         saves  == leaves /\ Changed(focus)
     IN  /\ calls' = [calls EXCEPT ![c] = IF saves THEN SaveOf(focus) ELSE NoCall]
         /\ fields' = [l \in Locale |->
                         [fields[l] EXCEPT !.element = FailedField(c, l, saves)]]
         /\ focus' = IF leaves THEN NoFocus ELSE focus
         /\ disturbed' = disturbed
                \cup {l \in Locale : c \in Saving(l)}
                \cup {l \in Locale : leaves /\ l = focus /\ Saving(l) # {}}
  /\ header' = IF Is(c, "GET") THEN ShowLoading(header, "append", FALSE) ELSE header
  /\ UNCHANGED <<editable, Server, rendering>>

CloseMessage ==
  /\ message
  /\ message' = FALSE
  /\ UNCHANGED <<calls, editable, Server, header, rendering, fields, focus, disturbed>>

LoseCall(c) ==
  /\ Lose(c)
  /\ UNCHANGED <<editable, Server, header, rendering, fields, focus, message, disturbed>>

\* Another user edits the entry, or merges or deletes the request.
OtherEdits(l, v) ==
  /\ status = "EXPORTED" /\ stored[l] # v
  /\ Store(l, v)
  /\ UNCHANGED <<calls, editable, header, rendering, fields, focus, message, disturbed>>

Close ==
  /\ status = "EXPORTED"
  /\ status' = "CLOSED"
  /\ UNCHANGED <<calls, editable, stored, held, header, rendering, fields, focus, message, disturbed>>

-----------------------------------------------------------------------------
Answers ==
  \/ Render
  \/ \E c \in Connection : ServeLoad(c) \/ Loaded(c) \/ ServeSave(c) \/ Saved(c) \/ Failed(c)

Next ==
  \/ Answers
  \/ \E c \in Connection : LoseCall(c)
  \/ LoadEntry \/ CloseMessage \/ Close
  \/ \E l \in Locale :
       \/ Focus(l) \/ StopTyping(l) \/ ShiftEnter(l) \/ Blur(l) \/ Submit(l) \/ Cancel(l)
       \/ \E v \in Value : Type(l, v) \/ OtherEdits(l, v)

\* Each call is answered or found lost, and the page renders what it got.
Fairness ==
  /\ WF_vars(Render)
  /\ \A c \in Connection :
       WF_vars(ServeLoad(c) \/ Loaded(c) \/ ServeSave(c) \/ Saved(c) \/ Failed(c))

Spec == Init /\ [][Next]_vars /\ Fairness

-----------------------------------------------------------------------------
\* What the page takes for the previous value of a field, and restores when the
\* user cancels, is a value the server has had, whatever is lost or overtaken.
PreviousWasOnServer ==
  \A l \in Locale : fields[l].present => fields[l].previous \in held[l]

\* A field the user has left holds what the last answer confirmed: no edition is
\* forgotten.  Except when the user left it or cancelled while a save of it was
\* under way, or when a save failed.
QuietFieldsAreSaved ==
  \A l \in Locale :
    fields[l].present /\ focus # l /\ l \notin disturbed /\ Saving(l) = {} =>
      ~Changed(l)

\* Loading indicators go away whatever happens to the calls, or the user is told
\* of a failure: its dialog takes the focus, and what it leaves is saved again.
IndicatorsEnd ==
  /\ \A l \in Locale :
       fields[l].element.disabled ~> ~fields[l].element.disabled \/ message
  /\ header.disabled ~> ~header.disabled
==============================================================================
