----------------------------- MODULE ContributionPage -----------------------------
(***************************************************************************)
(* The page of a contribution (app/contribution.js): the user searches for *)
(* labels, edits their fields, and each edition he leaves goes to a list   *)
(* which he submits as a whole, or removes from.  A reviewer starts with   *)
(* the list of the contribution under review.  Searches, submissions and   *)
(* the rendering of the two boxes of the page overlap.                     *)
(***************************************************************************)
EXTENDS Ajax, Naturals, Sequences, FiniteSets, SequencesExt

CONSTANTS
  Label,        \* a key in a locale
  Value,
  FieldId,
  IdOf,         \* id of the field of a label
  Selectable,   \* ids a selector finds: those without a dot
  Matches,      \* sets of labels that searches find
  Stored,       \* value of each label when the page is opened
  Reviewed      \* labels changed by the contribution under review

VARIABLES
  source,       \* value of each label, on the server
  contributionId,  \* 0 but for a review
  list,         \* contributions
  shown,        \* the list in the manage-box, and whether it has the reject button
  toShow,       \* the manage-box waits for its template
  fields,       \* the field of each label in the edition-box
  focus,
  dialog,       \* modal dialog that is open: an error, the prompt of the rejection
  left,         \* the user was sent to another page
  kept           \* history: editions saved while no call would replace the list,
                 \* which the server has not accepted yet

contributionVars == <<calls, source, contributionId, list, shown, toShow, fields,
                      focus, dialog, left, kept>>

NoFocus == "no focus"
NoId == "no id"
NoEdition == "no edition"

\* Keys of different names may get fields with one id: getContributionId joins the names
\* with dashes and turns a dot into an underscore.
ASSUME ContributionPageAssumption ==
  /\ Value # {} /\ NoEdition \notin Value
  /\ NoFocus \notin Label
  /\ IdOf \in [Label -> FieldId] /\ NoId \notin FieldId
  /\ Matches \subseteq SUBSET Label
  /\ Stored \in [Label -> Value]
  /\ DOMAIN Reviewed \subseteq Label /\ IsFiniteSet(DOMAIN Reviewed)
  /\ \A l \in DOMAIN Reviewed : Reviewed[l] \in Value

Review == 1
review == contributionId > 0

Edition == [id : FieldId \cup {NoId}, label : Label, new : Value]
Field == [present : BOOLEAN, text : Value, old : Value]

AnyValue == CHOOSE v \in Value : TRUE
NoField == [present |-> FALSE, text |-> AnyValue, old |-> AnyValue]
NoFields == [l \in Label |-> NoField]

Search  == [what : {"search"}, values : UNION {[found -> Value] : found \in Matches}]
Details == [what : {"details"}, list : Seq(Edition)]
Submit  == [what : {"submit"}, id : {0, Review}, list : Seq(Edition)]
Reject  == [what : {"reject"}, id : {0, Review}]
Settled == [what : {"search", "details", "submit", "reject"}]
PageCall == [method : {"GET", "POST", "DELETE"}, outcome : Outcome,
             about : Search \cup Details \cup Submit \cup Reject \cup Settled]

PageTypeOK ==
  /\ calls \in [Connection -> {NoCall} \cup PageCall]
  /\ source \in [Label -> Value]
  /\ contributionId \in {0, Review}
  /\ list \in Seq(Edition)
  /\ shown \in [list : Seq(Edition), review : BOOLEAN]
  /\ fields \in [Label -> Field]
  /\ focus \in Label \cup {NoFocus}
  /\ dialog \in {"none", "error", "prompt"}
  /\ {toShow, left} \subseteq BOOLEAN
  /\ kept \in [Label -> Value \cup {NoEdition}]

DetailsCall == Get([what |-> "details", list |-> <<>>])

PageInit ==
  /\ source = Stored
  /\ contributionId \in {0, Review}
  /\ LET first == CHOOSE c \in Connection : TRUE
     IN  calls = [c \in Connection |-> IF review /\ c = first THEN DetailsCall ELSE NoCall]
  /\ list = <<>>
  /\ shown = [list |-> <<>>, review |-> FALSE]
  /\ toShow = FALSE
  /\ fields = NoFields
  /\ focus = NoFocus /\ dialog = "none" /\ left = FALSE
  /\ kept = [l \in Label |-> NoEdition]

Calling(what) == \E c \in Connection : InFlight(c) /\ About(c).what = what
Answered(c, what, outcome) == Reached(c, outcome) /\ About(c).what = what
CanClick == ~left /\ dialog = "none" /\ focus = NoFocus

-----------------------------------------------------------------------------
(* The list.                                                                 *)

\* Mutant: the first edition is not looked at.
IndexOfAfterFirst(id) == SelectInSubSeq(list, 2, Len(list), LAMBDA e : e.id = id)

\* indexOfContribution, 0 when there is none.
IndexOf(id) == SelectInSeq(list, LAMBDA e : e.id = id)

\* Mutant: the box is not shown again for an empty list.
DisplayUnlessEmpty == toShow' = (toShow \/ list' # <<>>)

\* displayContributions
Display == toShow' = TRUE

ShowList ==
  /\ toShow
  /\ shown' = [list |-> list, review |-> review]
  /\ toShow' = FALSE
  /\ UNCHANGED <<calls, source, contributionId, list, fields, focus, dialog, left,
                 kept>>

\* Mutant: an edition that is listed keeps its first value.
SavedListOnce(e) == IF IndexOf(e.id) = 0 THEN Append(list, e) ELSE list

SavedList(e) ==
  IF IndexOf(e.id) = 0 THEN Append(list, e) ELSE [list EXCEPT ![IndexOf(e.id)].new = e.new]

EditionOf(l) == [id |-> IdOf[l], label |-> l, new |-> fields[l].text]

\* A submission or the details of the review replace the list when they come.
Replacing == Calling("submit") \/ Calling("details")

\* saveEdition
SaveEdition(l) ==
  IF fields[l].text # fields[l].old
  THEN /\ list' = SavedList(EditionOf(l))
       /\ Display
       /\ kept' = [kept EXCEPT ![l] = IF Replacing THEN NoEdition ELSE fields[l].text]
  ELSE UNCHANGED <<list, toShow, kept>>

-----------------------------------------------------------------------------
(* The fields.                                                               *)

Focus(l) ==
  /\ CanClick /\ fields[l].present
  /\ focus' = l
  /\ UNCHANGED <<calls, source, contributionId, list, shown, toShow, fields, dialog,
                 left, kept>>

Type(l, v) ==
  /\ focus = l /\ v # fields[l].text
  /\ fields' = [fields EXCEPT ![l].text = v]
  /\ UNCHANGED <<calls, source, contributionId, list, shown, toShow, focus, dialog,
                 left, kept>>

ShiftEnter(l) ==
  /\ focus = l
  /\ SaveEdition(l)
  /\ UNCHANGED <<calls, source, contributionId, shown, fields, focus, dialog, left>>

Blur(l) ==
  /\ focus = l
  /\ SaveEdition(l)
  /\ focus' = NoFocus
  /\ UNCHANGED <<calls, source, contributionId, shown, fields, dialog, left>>

\* Mutant: the value is read from an attribute the field does not have.
RestoredUndefined(field) == [field EXCEPT !.text = "undefined"]

Restored(field) == [field EXCEPT !.text = field.old]

\* The edition that was saved before stays in the list.
Escape(l) ==
  /\ focus = l
  /\ fields' = [fields EXCEPT ![l] = Restored(@)]
  /\ UNCHANGED <<calls, source, contributionId, list, shown, toShow, focus, dialog,
                 left, kept>>

\* A row of the box is removed through the field it was edited in, the first one with
\* its id: nothing happens when the field is not in the page, or when its id is no
\* selector.
RemoveEdition(e) ==
  /\ CanClick
  /\ e.id \in Selectable
  /\ \E l \in Label : /\ fields[l].present /\ IdOf[l] = e.id
                       /\ fields' = [fields EXCEPT ![l] = Restored(@)]
  /\ IF IndexOf(e.id) = 0
     THEN UNCHANGED <<list, toShow, kept>>
     ELSE /\ list' = RemoveAt(list, IndexOf(e.id))
          /\ Display
          /\ kept' = [kept EXCEPT ![list[IndexOf(e.id)].label] = NoEdition]
  /\ UNCHANGED <<calls, source, contributionId, shown, focus, dialog, left>>

-----------------------------------------------------------------------------
(* The calls.                                                                *)

UnchangedPage ==
  UNCHANGED <<contributionId, list, shown, toShow, fields, focus, dialog, left, kept>>

SendSearch ==
  /\ CanClick
  /\ \E found \in Matches :
       Send(Post([what |-> "search", values |-> Restrict(Stored, found)]))
  /\ UnchangedPage /\ UNCHANGED source

\* The form is submitted whether or not its button is disabled.
SendSubmit ==
  /\ CanClick
  /\ shown.list # <<>> /\ list # <<>>
  /\ Send(Post([what |-> "submit", id |-> contributionId, list |-> list]))
  /\ UnchangedPage /\ UNCHANGED source

PromptReject ==
  /\ CanClick
  /\ shown.list # <<>> /\ shown.review
  /\ dialog' = "prompt"
  /\ UNCHANGED <<calls, source, contributionId, list, shown, toShow, fields, focus,
                 left, kept>>

\* The contribution rejected is the one of the time the prompt is answered.
SendReject ==
  /\ dialog = "prompt"
  /\ dialog' = "none"
  /\ Send(Del([what |-> "reject", id |-> contributionId]))
  /\ UNCHANGED <<source, contributionId, list, shown, toShow, fields, focus, left,
                 kept>>

CloseDialog ==
  /\ dialog # "none"
  /\ dialog' = "none"
  /\ UNCHANGED <<calls, source, contributionId, list, shown, toShow, fields, focus,
                 left, kept>>

\* The arguments of a call matter until it is served.
Settle(c, outcome) ==
  calls' = [calls EXCEPT ![c].outcome = outcome, ![c].about = [what |-> About(c).what]]

\* The details of the review: its changes have no field id.
ReviewedList ==
  SetToSeq({[id |-> NoId, label |-> l, new |-> Reviewed[l]] : l \in DOMAIN Reviewed})

ServeRead(c) ==
  /\ \/ Answered(c, "search", "pending")
        /\ calls' = [calls EXCEPT ![c].outcome = "ok", ![c].about.values = 
                            Restrict(source, DOMAIN About(c).values)]
     \/ Answered(c, "details", "pending")
        /\ calls' = [calls EXCEPT ![c].outcome = "ok", ![c].about.list = ReviewedList]
  /\ UnchangedPage /\ UNCHANGED source

\* The values of the labels once the editions of s are applied, in their order.
Applied(s) ==
  [l \in Label |-> LET last == SelectLastInSeq(s, LAMBDA e : e.label = l)
                   IN  IF last = 0 THEN source[l] ELSE s[last].new]

\* What was saved of a label is among the editions of s.
Listed(s, l) == \E i \in 1 .. Len(s) : s[i].label = l /\ s[i].new = kept[l]

\* The editions are written to the source at once, or kept for a review.
ServeSubmit(c) ==
  /\ Answered(c, "submit", "pending")
  /\ Settle(c, "ok")
  /\ kept' = [l \in Label |->
                IF Listed(About(c).list, l) THEN NoEdition ELSE kept[l]]
  /\ source' \in {source, Applied(About(c).list)}
  /\ UNCHANGED <<contributionId, list, shown, toShow, fields, focus, dialog, left>>

ServeReject(c) ==
  /\ Answered(c, "reject", "pending")
  /\ Serve(c, "ok")
  /\ UnchangedPage /\ UNCHANGED source

\* Another reviewer was faster, or the server fails.
Refuse(c) ==
  /\ Reached(c, "pending")
  /\ Settle(c, "refused")
  /\ UnchangedPage /\ UNCHANGED source

LoseCall(c) ==
  /\ Reached(c, "pending") \/ Reached(c, "ok")
  /\ Settle(c, "lost")
  /\ UnchangedPage /\ UNCHANGED source

\* displayResults: the fields are there once their templates are.  They replace
\* those of an earlier search, edited or not.
Found(c) ==
  /\ Answered(c, "search", "ok")
  /\ Return(c)
  /\ LET values == About(c).values
     IN  fields' = [l \in Label |-> IF l \in DOMAIN values
                                    THEN [present |-> TRUE, text |-> values[l], old |-> values[l]]
                                    ELSE NoField]
  /\ focus' = NoFocus
  /\ UNCHANGED <<source, contributionId, list, shown, toShow, dialog, left, kept>>

GotDetails(c) ==
  /\ Answered(c, "details", "ok")
  /\ Return(c)
  /\ list' = About(c).list
  /\ Display
  /\ UNCHANGED <<source, contributionId, shown, fields, focus, dialog, left, kept>>

\* Everything is cleared, what was edited since the submission was sent included.
Submitted(c) ==
  /\ Answered(c, "submit", "ok")
  /\ Return(c)
  /\ contributionId' = 0
  /\ list' = <<>>
  /\ Display
  /\ fields' = NoFields /\ focus' = NoFocus
  /\ UNCHANGED <<source, shown, dialog, left, kept>>

\* The user goes to the list of the contributions.
Rejected(c) ==
  /\ Answered(c, "reject", "ok")
  /\ left' = TRUE
  /\ calls' = [d \in Connection |-> NoCall]
  /\ toShow' = FALSE /\ focus' = NoFocus /\ dialog' = "none"
  /\ UNCHANGED <<source, contributionId, list, shown, fields, kept>>

\* A failure there is a message for is shown in a dialog, which takes the focus.
Failed(c) ==
  /\ Reached(c, "refused") \/ Reached(c, "lost")
  /\ IF HasMessage(calls[c].outcome)
     THEN /\ dialog' = "error" /\ focus' = NoFocus
          /\ IF focus = NoFocus THEN UNCHANGED <<list, toShow, kept>> ELSE SaveEdition(focus)
     ELSE UNCHANGED <<list, toShow, kept, focus, dialog>>
  /\ Return(c)
  /\ UNCHANGED <<source, contributionId, shown, fields, left>>

-----------------------------------------------------------------------------
PageNext ==
  \/ ShowList
  \/ SendSearch \/ SendSubmit \/ PromptReject \/ SendReject \/ CloseDialog
  \/ \E i \in 1 .. Len(shown.list) : RemoveEdition(shown.list[i])
  \/ \E l \in Label :
       \/ Focus(l) \/ ShiftEnter(l) \/ Blur(l) \/ Escape(l)
       \/ \E v \in Value : Type(l, v)
  \/ \E c \in Connection :
       \/ ServeRead(c) \/ ServeSubmit(c) \/ ServeReject(c) \/ Refuse(c) \/ LoseCall(c)
       \/ Found(c) \/ GotDetails(c) \/ Submitted(c) \/ Rejected(c) \/ Failed(c)

\* The browser gets the templates it asks for.
PageSpec == PageInit /\ [][PageNext]_contributionVars /\ WF_contributionVars(ShowList)

-----------------------------------------------------------------------------
\* The id of a field has one edition in the list, however often the fields that have it
\* are saved and removed and whatever replaces the list in between.
UniqueIds ==
  \A i, j \in 1 .. Len(list) : list[i].id = list[j].id /\ list[i].id # NoId => i = j

\* The editions of labels that share an id go to one edition, that of the first label.
OwnId(l) == \A m \in Label : IdOf[m] = IdOf[l] => m = l

\* An edition the user has left is in the list, or the server has accepted it,
\* unless the user removed it.  Except when it was saved while a call that replaces
\* the list was in flight, or when the label shares its id.
NoEditionForgotten ==
  \A l \in Label : OwnId(l) /\ kept[l] # NoEdition => Listed(list, l)

\* The manage-box shows the list in the end, whatever the page is answered
\* meanwhile.
ManageBoxCatchesUp == shown.list # list ~> shown.list = list \/ left

-----------------------------------------------------------------------------
\* contribution.js:178 says of the escape key that it "cancels the changes": none is
\* listed for the field that gets its old value back.
EscapeCancelsTheEdition ==
  [][\A l \in Label : Escape(l) => \A i \in 1 .. Len(list') : list'[i].id # IdOf[l]
    ]_contributionVars
===================================================================================
