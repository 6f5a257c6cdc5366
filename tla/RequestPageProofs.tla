--------------------------- MODULE RequestPageProofs ---------------------------
(***************************************************************************)
(* Proofs about the edition of an entry in the browser, for every number   *)
(* of locales, of values, and of calls in flight.                          *)
(***************************************************************************)
EXTENDS RequestPage, TLAPS

-----------------------------------------------------------------------------
(* What happens to a call.                                                   *)

LEMMA CallCases ==
  ASSUME TypeOK, NEW c \in Connection
  PROVE  \/ calls[c] = NoCall /\ Free(c) /\ ~Is(c, "GET") /\ ~Is(c, "PUT")
         \/ calls[c] \in LoadCall /\ InFlight(c) /\ Is(c, "GET") /\ ~Is(c, "PUT")
         \/ calls[c] \in SaveCall /\ InFlight(c) /\ Is(c, "PUT") /\ ~Is(c, "GET")
<1>1. calls[c] \in {NoCall} \cup LoadCall \cup SaveCall  BY DEF TypeOK
<1>2. \A call \in LoadCall : call.method = "GET" /\ call # NoCall
  BY DEF LoadCall, NoCall
<1>3. \A call \in SaveCall : call.method = "PUT" /\ call # NoCall
  BY DEF SaveCall, NoCall
<1> QED  BY <1>1, <1>2, <1>3 DEF Free, Is, InFlight

\* A new call takes the place of none.
LEMMA SendFacts ==
  ASSUME TypeOK, NEW call, Send(call)
  PROVE  \E c \in Connection : calls[c] = NoCall /\ calls' = [calls EXCEPT ![c] = call]
<1> DEFINE c == CHOOSE d \in Connection : Free(d)
<1>1. c \in Connection /\ Free(c)  BY DEF Send
<1>2. calls' = [calls EXCEPT ![c] = call]  BY DEF Send
<1> QED  BY <1>1, <1>2 DEF Free

\* Another outcome of a call changes nothing else of it.
LEMMA OutcomeFacts ==
  ASSUME NEW call \in LoadCall \cup SaveCall, NEW outcome \in Outcome
  PROVE  LET answered == [call EXCEPT !.outcome = outcome]
         IN  /\ answered.method = call.method /\ answered.about = call.about
             /\ answered.outcome = outcome
             /\ call \in LoadCall => answered \in LoadCall
             /\ call \in SaveCall => answered \in SaveCall
  BY DEF LoadCall, SaveCall

LEMMA ServeFacts ==
  ASSUME TypeOK, NEW c \in Connection, InFlight(c), NEW outcome \in Outcome, Serve(c, outcome)
  PROVE  /\ calls' \in [Connection -> {NoCall} \cup LoadCall \cup SaveCall]
         /\ calls'[c].method = calls[c].method /\ calls'[c].about = calls[c].about
         /\ calls'[c].outcome = outcome /\ calls'[c] # NoCall
         /\ \A d \in Connection : d # c => calls'[d] = calls[d]
<1>1. calls[c] \in LoadCall \cup SaveCall  BY CallCases DEF Free, InFlight
<1> DEFINE answered == [calls[c] EXCEPT !.outcome = outcome]
<1>2. calls' = [calls EXCEPT ![c] = answered]  BY DEF Serve
<1>3. answered \in LoadCall \cup SaveCall  BY <1>1, OutcomeFacts
<1>4. \A call \in LoadCall \cup SaveCall : call # NoCall  BY DEF LoadCall, SaveCall, NoCall
<1>5. /\ answered.method = calls[c].method /\ answered.about = calls[c].about
      /\ answered.outcome = outcome
  BY <1>1, OutcomeFacts
<1> HIDE DEF answered
<1>6. calls \in [Connection -> {NoCall} \cup LoadCall \cup SaveCall]  BY DEF TypeOK
<1> QED  BY <1>2, <1>3, <1>4, <1>5, <1>6

\* The save of a field is a call like others.
LEMMA SaveOfFacts ==
  ASSUME TypeOK, NEW l \in Locale
  PROVE  /\ SaveOf(l) \in SaveCall
         /\ SaveOf(l).method = "PUT" /\ SaveOf(l).outcome = "pending"
         /\ SaveOf(l).about.locale = l /\ SaveOf(l).about.live
         /\ SaveOf(l).about.value = fields[l].text
<1>1. fields[l].text \in Value  BY DEF TypeOK, Field
<1> QED  BY <1>1 DEF SaveOf, Put, Call, SaveCall, SaveAbout, Outcome

-----------------------------------------------------------------------------
(* What happens to a field.                                                  *)

LEMMA LoadingFacts ==
  ASSUME NEW el \in Element, NEW show \in BOOLEAN
  PROVE  ShowLoading(el, "append", show) \in Element
<1>1. ShowLoading(el, "append", show) = [el EXCEPT !.disabled = show, !.loading = show]
  BY DEF ShowLoading
<1>2. [el EXCEPT !.disabled = show, !.loading = show] \in Element  BY DEF Element
<1> QED  BY <1>1, <1>2

LEMMA ElementFacts ==
  ASSUME NEW field \in Field, NEW el \in Element
  PROVE  LET g == [field EXCEPT !.element = el]
         IN  /\ g \in Field
             /\ g.present = field.present /\ g.text = field.text /\ g.previous = field.previous
             /\ g.element = el
  BY DEF Field

LEMMA NoFieldFacts == NoField \in Field
<1>1. AnyValue \in Value  BY PageAssumption DEF AnyValue
<1>2. Plain \in Element  BY DEF Plain, Element
<1> QED  BY <1>1, <1>2 DEF NoField, Field

LEMMA RenderedFacts ==
  ASSUME NEW value \in Value, editable \in BOOLEAN
  PROVE  /\ RenderedField(value) \in Field
         /\ RenderedField(value).text = value /\ RenderedField(value).previous = value
<1> DEFINE marks == IF value \in Rejected THEN {"invalid"} ELSE {}
<1>1. marks \in SUBSET Mark  BY DEF Mark
<1>2. RenderedField(value) = [NoField EXCEPT !.present = editable, !.text = value,
                                             !.previous = value, !.marks = marks]
  BY DEF RenderedField
<1> HIDE DEF marks
<1> QED  BY <1>1, <1>2, NoFieldFacts DEF Field

LEMMA SavedFacts ==
  ASSUME NEW field \in Field, NEW value \in Value
  PROVE  /\ SavedField(field, value) \in Field
         /\ SavedField(field, value).present = field.present
         /\ SavedField(field, value).text = field.text
         /\ SavedField(field, value).previous = value
<1> DEFINE el == ShowLoading(field.element, "append", FALSE)
           marks == (field.marks \ {"warning", "invalid"}) \cup {"success"}
                      \cup (IF value \in Rejected THEN {"invalid"} ELSE {})
<1>1. el \in Element  BY LoadingFacts DEF Field
<1>2. marks \in SUBSET Mark  BY DEF Mark, Field
<1>3. SavedField(field, value) = [field EXCEPT !.element = el, !.previous = value, !.marks = marks]
  BY DEF SavedField
<1> HIDE DEF el, marks
<1> QED  BY <1>1, <1>2, <1>3 DEF Field

\* The operations of the user change one field.
OneField(l, text, previous) ==
  /\ fields' \in [Locale -> Field]
  /\ \A k \in Locale : k # l => fields'[k] = fields[k]
  /\ fields'[l].present = fields[l].present
  /\ fields'[l].text = text /\ fields'[l].previous = previous

LEMMA OneFieldFacts ==
  ASSUME TypeOK, NEW l \in Locale, NEW g \in Field, fields' = [fields EXCEPT ![l] = g],
         g.present = fields[l].present
  PROVE  OneField(l, g.text, g.previous)
  BY DEF TypeOK, OneField

LEMMA TypeFacts ==
  ASSUME TypeOK, NEW l \in Locale, NEW v \in Value, Type(l, v)
  PROVE  OneField(l, v, fields[l].previous)
<1> DEFINE f == fields[l]
           marks == IF f.typing THEN f.marks ELSE (f.marks \ {"success"}) \cup {"warning"}
           g == [f EXCEPT !.text = v, !.typing = TRUE, !.marks = marks]
<1>1. f \in Field  BY DEF TypeOK
<1>2. marks \in SUBSET Mark  BY <1>1 DEF Mark, Field
<1>3. fields' = [fields EXCEPT ![l] = g]  BY DEF Type
<1> HIDE DEF f, marks
<1>4. g \in Field /\ g.present = f.present /\ g.text = v /\ g.previous = f.previous
  BY <1>1, <1>2 DEF Field
<1> HIDE DEF g
<1> QED  BY <1>3, <1>4, OneFieldFacts DEF f

LEMMA StopTypingFacts ==
  ASSUME TypeOK, NEW l \in Locale, StopTyping(l)
  PROVE  OneField(l, fields[l].text, fields[l].previous)
<1> DEFINE f == fields[l]
           g == [f EXCEPT !.typing = FALSE]
<1>1. f \in Field  BY DEF TypeOK
<1>2. fields' = [fields EXCEPT ![l] = g]  BY DEF StopTyping
<1> HIDE DEF f
<1>3. g \in Field /\ g.present = f.present /\ g.text = f.text /\ g.previous = f.previous
  BY <1>1 DEF Field
<1> HIDE DEF g
<1> QED  BY <1>2, <1>3, OneFieldFacts DEF f

LEMMA CancelFacts ==
  ASSUME TypeOK, NEW l \in Locale, Cancel(l)
  PROVE  OneField(l, fields[l].previous, fields[l].previous)
<1> DEFINE f == fields[l]
           marks == IF "success" \in f.marks THEN (f.marks \ {"success"}) \cup {"warning"}
                                             ELSE f.marks \ {"warning"}
           g == [f EXCEPT !.text = f.previous, !.marks = marks]
<1>1. f \in Field  BY DEF TypeOK
<1>2. marks \in SUBSET Mark  BY <1>1 DEF Mark, Field
<1>3. fields' = [fields EXCEPT ![l] = g]  BY DEF Cancel
<1> HIDE DEF f, marks
<1>4. g \in Field /\ g.present = f.present /\ g.text = f.previous /\ g.previous = f.previous
  BY <1>1, <1>2 DEF Field
<1> HIDE DEF g
<1> QED  BY <1>3, <1>4, OneFieldFacts DEF f

\* A save sends what the field holds, when that differs from its previous value.
LEMMA SaveFacts ==
  ASSUME TypeOK, NEW l \in Locale, Save(l)
  PROVE  /\ OneField(l, fields[l].text, fields[l].previous)
         /\ Changed(l) => Send(SaveOf(l))
         /\ ~Changed(l) => UNCHANGED <<calls, fields>>
         /\ Disturb(l)
<1>1. Disturb(l) /\ (Changed(l) => Send(SaveOf(l)))  BY DEF Save
<1>2. ASSUME Changed(l)  PROVE OneField(l, fields[l].text, fields[l].previous)
  <2> DEFINE f == fields[l]
             el == ShowLoading(f.element, "append", TRUE)
             g == [f EXCEPT !.element = el]
  <2>1. f \in Field  BY DEF TypeOK
  <2>2. el \in Element  BY <2>1, LoadingFacts DEF Field
  <2>3. fields' = [fields EXCEPT ![l] = g]  BY <1>2 DEF Save
  <2> HIDE DEF f, el
  <2>4. g \in Field /\ g.present = f.present /\ g.text = f.text /\ g.previous = f.previous
    BY <2>1, <2>2, ElementFacts
  <2> HIDE DEF g
  <2> QED  BY <2>3, <2>4, OneFieldFacts DEF f
<1>3. ASSUME ~Changed(l)
      PROVE  OneField(l, fields[l].text, fields[l].previous) /\ UNCHANGED <<calls, fields>>
  BY <1>3 DEF Save, OneField, TypeOK
<1> QED  BY <1>1, <1>2, <1>3

\* A failure shows or hides indicators; of what the fields hold it changes nothing.
LEMMA FailedFacts ==
  ASSUME TypeOK, NEW c \in Connection, Failed(c)
  PROVE  /\ fields' \in [Locale -> Field]
         /\ \A l \in Locale : /\ fields'[l].present = fields[l].present
                              /\ fields'[l].text = fields[l].text
                              /\ fields'[l].previous = fields[l].previous
<1> DEFINE saves == (HasMessage(calls[c].outcome) /\ focus # NoFocus) /\ Changed(focus)
           el(l) == FailedField(c, l, saves)
<1>1. fields' = [l \in Locale |-> [fields[l] EXCEPT !.element = el(l)]]  BY DEF Failed
<1>2. \A l \in Locale : el(l) \in Element
  <2> TAKE l \in Locale
  <2>1. fields[l].element \in Element  BY DEF TypeOK, Field
  <2>2. ShowLoading(fields[l].element, "append", FALSE) \in Element  BY <2>1, LoadingFacts
  <2> DEFINE answered == IF c \in Saving(l) THEN ShowLoading(fields[l].element, "append", FALSE)
                                            ELSE fields[l].element
  <2>3. answered \in Element  BY <2>1, <2>2
  <2>4. el(l) = IF saves /\ l = focus THEN ShowLoading(answered, "append", TRUE) ELSE answered
    BY DEF FailedField
  <2> HIDE DEF answered, saves
  <2>5. ShowLoading(answered, "append", TRUE) \in Element  BY <2>3, LoadingFacts
  <2> HIDE DEF el
  <2> QED  BY <2>3, <2>4, <2>5
<1> HIDE DEF el
<1>3. \A l \in Locale : /\ [fields[l] EXCEPT !.element = el(l)] \in Field
                        /\ [fields[l] EXCEPT !.element = el(l)].present = fields[l].present
                        /\ [fields[l] EXCEPT !.element = el(l)].text = fields[l].text
                        /\ [fields[l] EXCEPT !.element = el(l)].previous = fields[l].previous
  BY <1>2, ElementFacts DEF TypeOK
<1> DEFINE g == [l \in Locale |-> [fields[l] EXCEPT !.element = el(l)]]
<1>4. /\ g \in [Locale -> Field]
      /\ \A l \in Locale : /\ g[l].present = fields[l].present
                           /\ g[l].text = fields[l].text
                           /\ g[l].previous = fields[l].previous
  BY <1>3, Zenon
<1> HIDE DEF g
<1> QED  BY <1>1, <1>4 DEF g

-----------------------------------------------------------------------------

(* Type correctness.                                                         *)

\* The answer to a load carries the values of the entry.
LEMMA LoadAnswered ==
  ASSUME NEW call \in LoadCall, NEW values \in [Locale -> Value]
  PROVE  LET answered == [call EXCEPT !.outcome = "ok", !.about.value = values]
         IN  /\ answered \in LoadCall
             /\ answered.outcome = "ok" /\ answered.about.value = values
<1> DEFINE about == [call.about EXCEPT !.value = values]
<1>1. call.about \in LoadAbout  BY DEF LoadCall
<1>2. about \in LoadAbout /\ about.value = values  BY <1>1 DEF LoadAbout
<1>3. "ok" \in Outcome  BY DEF Outcome
<1> HIDE DEF about
<1>4. [call EXCEPT !.outcome = "ok", !.about = about] \in LoadCall
  BY <1>2, <1>3 DEF LoadCall
<1>5. /\ [call EXCEPT !.outcome = "ok", !.about = about].outcome = "ok"
      /\ [call EXCEPT !.outcome = "ok", !.about = about].about = about
  BY <1>2, <1>3 DEF LoadCall
<1>6. [call EXCEPT !.outcome = "ok", !.about.value = values]
        = [call EXCEPT !.outcome = "ok", !.about = about]
  BY DEF about, LoadCall
<1> QED  BY <1>2, <1>4, <1>5, <1>6

\* A new rendering of the entry leaves the field of a save behind.
Abandoned(call) == [call EXCEPT !.about.live = FALSE]

LEMMA AbandonedFacts ==
  ASSUME NEW call \in SaveCall
  PROVE  /\ Abandoned(call) \in SaveCall /\ ~Abandoned(call).about.live
         /\ Abandoned(call).outcome = call.outcome
         /\ Abandoned(call).about.locale = call.about.locale
         /\ Abandoned(call).about.value = call.about.value
<1> DEFINE about == [call.about EXCEPT !.live = FALSE]
<1>1. call.about \in SaveAbout  BY DEF SaveCall
<1>2. about \in SaveAbout /\ ~about.live /\ about.locale = call.about.locale
      /\ about.value = call.about.value
  BY <1>1 DEF SaveAbout
<1> HIDE DEF about
<1>3. [call EXCEPT !.about = about] \in SaveCall
      /\ [call EXCEPT !.about = about].about = about
      /\ [call EXCEPT !.about = about].outcome = call.outcome
  BY <1>2 DEF SaveCall
<1>4. Abandoned(call) = [call EXCEPT !.about = about]  BY DEF Abandoned, about, SaveCall
<1> QED  BY <1>2, <1>3, <1>4

LEMMA RenderCalls ==
  ASSUME TypeOK, Render
  PROVE  /\ calls' \in [Connection -> {NoCall} \cup LoadCall \cup SaveCall]
         /\ \A c \in Connection : ~Is(c, "PUT") => calls'[c] = calls[c]
         /\ \A c \in Connection : Is(c, "PUT") => calls'[c] = Abandoned(calls[c])
<1>1. calls' = [c \in Connection |-> IF Is(c, "PUT") THEN Abandoned(calls[c]) ELSE calls[c]]
  BY DEF Render, Abandoned
<1>2. \A c \in Connection : Is(c, "PUT") => Abandoned(calls[c]) \in SaveCall
  BY CallCases, AbandonedFacts
<1>3. \A c \in Connection : calls[c] \in {NoCall} \cup LoadCall \cup SaveCall  BY DEF TypeOK
<1> QED  BY <1>1, <1>2, <1>3, Zenon

LEMMA RenderFields ==
  ASSUME TypeOK, Render
  PROVE  /\ rendering' \in Seq([Locale -> Value]) /\ Len(rendering') <= MaxRendering
         /\ rendering # <<>> /\ Head(rendering) \in [Locale -> Value]
         /\ fields' \in [Locale -> Field]
         /\ \A l \in Locale : /\ fields'[l].text = Head(rendering)[l]
                              /\ fields'[l].previous = Head(rendering)[l]
<1>1. /\ rendering # <<>> /\ rendering' = Tail(rendering)
      /\ fields' = [l \in Locale |-> RenderedField(Head(rendering)[l])]
  BY DEF Render
<1>2. /\ rendering' \in Seq([Locale -> Value]) /\ Len(rendering') <= MaxRendering
      /\ Head(rendering) \in [Locale -> Value]
  BY <1>1, PageAssumption DEF TypeOK
<1>3. \A l \in Locale : /\ RenderedField(Head(rendering)[l]) \in Field
                        /\ RenderedField(Head(rendering)[l]).text = Head(rendering)[l]
                        /\ RenderedField(Head(rendering)[l]).previous = Head(rendering)[l]
  BY <1>2, RenderedFacts DEF TypeOK
<1>4. fields' \in [Locale -> Field]  BY <1>1, <1>3, Zenon
<1> QED  BY <1>1, <1>2, <1>3, <1>4

LEMMA TypeStart == Init => TypeOK
<1> SUFFICES ASSUME Init  PROVE TypeOK  OBVIOUS
<1>1. Plain \in Element  BY DEF Plain, Element
<1>2. <<>> \in Seq([Locale -> Value]) /\ Len(<<>>) <= MaxRendering  BY PageAssumption
<1> QED  BY <1>1, <1>2, NoFieldFacts DEF Init, TypeOK

\* Calls keep their type when one is sent or returned.
LEMMA CallsTyped ==
  ASSUME TypeOK, NEW call \in {NoCall} \cup LoadCall \cup SaveCall,
         \/ Send(call)
         \/ \E c \in Connection : calls' = [calls EXCEPT ![c] = call]
  PROVE  calls' \in [Connection -> {NoCall} \cup LoadCall \cup SaveCall]
<1>1. PICK c \in Connection : calls' = [calls EXCEPT ![c] = call]  BY SendFacts
<1> QED  BY <1>1 DEF TypeOK

LEMMA NewLoad ==
  ASSUME TypeOK
  PROVE  LET load == Get([locale |-> NoFocus, value |-> [l \in Locale |-> AnyValue], live |-> TRUE])
         IN  load \in LoadCall /\ load.outcome = "pending"
<1>1. [l \in Locale |-> AnyValue] \in [Locale -> Value]  BY PageAssumption DEF AnyValue
<1> QED  BY <1>1 DEF Get, Call, LoadCall, LoadAbout, Outcome

LEMMA SaveTyped ==
  ASSUME TypeOK, NEW l \in Locale, Save(l)
  PROVE  /\ calls' \in [Connection -> {NoCall} \cup LoadCall \cup SaveCall]
         /\ fields' \in [Locale -> Field] /\ disturbed' \subseteq Locale
<1>1. disturbed' \subseteq Locale  BY SaveFacts DEF Disturb, TypeOK
<1>2. fields' \in [Locale -> Field]  BY SaveFacts DEF OneField
<1>3. CASE Changed(l)
  <2>1. Send(SaveOf(l)) /\ SaveOf(l) \in SaveCall  BY <1>3, SaveFacts, SaveOfFacts
  <2> QED  BY <1>1, <1>2, <2>1, CallsTyped
<1>4. CASE ~Changed(l)
  <2>1. calls' = calls  BY <1>4, SaveFacts
  <2> QED  BY <1>1, <1>2, <2>1 DEF TypeOK
<1> QED  BY <1>3, <1>4

LEMMA StoreFacts ==
  ASSUME TypeOK, NEW l \in Locale, NEW v \in Value, Store(l, v)
  PROVE  /\ stored' \in [Locale -> Value] /\ held' \in [Locale -> SUBSET Value]
         /\ stored' = [stored EXCEPT ![l] = v] /\ v \in held'[l]
         /\ \A k \in Locale : held[k] \subseteq held'[k]
         /\ UNCHANGED status
  BY DEF Store, TypeOK

LEMMA TypeStep ==
  ASSUME TypeOK, [Next]_vars
  PROVE  TypeOK'
<1> USE DEF TypeOK
<1> DEFINE Calls == {NoCall} \cup LoadCall \cup SaveCall
<1>1. CASE Render
  <2>1. header' \in Element  BY <1>1 DEF Render, Element
  <2>2. UNCHANGED <<editable, Server, message>> /\ focus' = NoFocus /\ disturbed' = {}
    BY <1>1 DEF Render
  <2> QED  BY <1>1, <2>1, <2>2, RenderCalls, RenderFields DEF Server
<1>2. ASSUME NEW c \in Connection, ServeLoad(c)  PROVE TypeOK'
  <2>1. calls' \in [Connection -> Calls]
    <3>1. CASE calls' = [calls EXCEPT ![c].outcome = "ok", ![c].about.value = stored]
      <4>1. calls[c] \in LoadCall  BY <1>2, CallCases DEF ServeLoad
      <4> DEFINE answered == [calls[c] EXCEPT !.outcome = "ok", !.about.value = stored]
      <4>2. answered \in LoadCall  BY <4>1, LoadAnswered
      <4>3. calls' = [calls EXCEPT ![c] = answered]  BY <3>1
      <4> HIDE DEF answered
      <4> QED  BY <4>2, <4>3
    <3>2. CASE Serve(c, "refused")
      BY <1>2, <3>2, ServeFacts DEF ServeLoad, Is, Outcome
    <3> QED  BY <1>2, <3>1, <3>2 DEF ServeLoad
  <2>2. UNCHANGED <<editable, Server, header, rendering, fields, focus, message, disturbed>>
    BY <1>2 DEF ServeLoad
  <2> HIDE DEF Calls
  <2> QED  BY <2>1, <2>2 DEF Server, Calls
<1>3. ASSUME NEW c \in Connection, Loaded(c)  PROVE TypeOK'
  <2>1. calls' \in [Connection -> Calls]  BY <1>3, CallsTyped DEF Loaded, Return
  <2>2. header' \in Element  BY <1>3, LoadingFacts DEF Loaded
  <2>3. About(c).value \in [Locale -> Value]
    <3>1. calls[c] \in LoadCall  BY <1>3, CallCases DEF Loaded
    <3> QED  BY <3>1 DEF LoadCall, LoadAbout, About
  <2>4. rendering' \in Seq([Locale -> Value]) /\ Len(rendering') <= MaxRendering
    BY <1>3, <2>3, PageAssumption DEF Loaded
  <2>5. UNCHANGED <<editable, Server, fields, focus, message, disturbed>>  BY <1>3 DEF Loaded
  <2> QED  BY <2>1, <2>2, <2>4, <2>5 DEF Server
<1>4. ASSUME NEW c \in Connection, ServeSave(c)  PROVE TypeOK'
  <2>1. InFlight(c) /\ About(c).locale \in Locale /\ About(c).value \in Value
    <3>1. calls[c] \in SaveCall  BY <1>4, CallCases DEF ServeSave
    <3> QED  BY <1>4, <3>1 DEF ServeSave, Is, SaveCall, SaveAbout, About
  <2>2. calls' \in [Connection -> Calls]
    BY <1>4, <2>1, ServeFacts DEF ServeSave, Outcome
  <2>3. /\ stored' \in [Locale -> Value] /\ held' \in [Locale -> SUBSET Value]
        /\ UNCHANGED status
    BY <1>4, <2>1, StoreFacts DEF ServeSave, Server
  <2>4. UNCHANGED <<editable, header, rendering, fields, focus, message, disturbed>>
    BY <1>4 DEF ServeSave
  <2> HIDE DEF Calls
  <2> QED  BY <2>2, <2>3, <2>4 DEF Calls
<1>5. ASSUME NEW c \in Connection, Saved(c)  PROVE TypeOK'
  <2>1. calls' \in [Connection -> Calls]  BY <1>5, CallsTyped DEF Saved, Return
  <2>2. fields' \in [Locale -> Field]
    <3>1. calls[c] \in SaveCall  BY <1>5, CallCases DEF Saved
    <3>2. About(c).locale \in Locale /\ About(c).value \in Value
      BY <3>1 DEF SaveCall, SaveAbout, About
    <3>3. SavedField(fields[About(c).locale], About(c).value) \in Field  BY <3>2, SavedFacts
    <3> QED  BY <1>5, <3>2, <3>3 DEF Saved
  <2>3. UNCHANGED <<editable, Server, header, rendering, focus, message, disturbed>>
    BY <1>5 DEF Saved
  <2> QED  BY <2>1, <2>2, <2>3 DEF Server
<1>6. ASSUME NEW c \in Connection, Failed(c)  PROVE TypeOK'
  <2>1. calls' \in [Connection -> Calls]
    <3>1. PICK saves \in BOOLEAN :
             /\ saves => focus # NoFocus
             /\ calls' = [calls EXCEPT ![c] = IF saves THEN SaveOf(focus) ELSE NoCall]
      BY <1>6 DEF Failed
    <3>2. saves => SaveOf(focus) \in SaveCall  BY <3>1, SaveOfFacts
    <3> QED  BY <3>1, <3>2, CallsTyped
  <2>2. fields' \in [Locale -> Field]  BY <1>6, FailedFacts
  <2>3. /\ focus' \in Locale \cup {NoFocus} /\ disturbed' \subseteq Locale
        /\ UNCHANGED <<editable, Server, rendering>>
    BY <1>6 DEF Failed
  <2>4. message' \in BOOLEAN
    <3>1. message' = (message \/ HasMessage(calls[c].outcome))  BY <1>6 DEF Failed
    <3> QED  BY <3>1
  <2>5. header' \in Element  BY <1>6, LoadingFacts DEF Failed
  <2> QED  BY <2>1, <2>2, <2>3, <2>4, <2>5 DEF Server
<1>7. ASSUME NEW c \in Connection, LoseCall(c)  PROVE TypeOK'
  <2>1. InFlight(c) /\ Serve(c, "lost")  BY <1>7 DEF LoseCall, Lose, Reached
  <2>2. calls' \in [Connection -> Calls]  BY <2>1, ServeFacts DEF Outcome
  <2> QED  BY <1>7, <2>2 DEF LoseCall, Server
<1>8. CASE LoadEntry
  <2>1. calls' \in [Connection -> Calls]  BY <1>8, NewLoad, CallsTyped DEF LoadEntry
  <2>2. header' \in Element  BY <1>8, LoadingFacts DEF LoadEntry
  <2> QED  BY <1>8, <2>1, <2>2 DEF LoadEntry, Server
<1>9. CASE CloseMessage  BY <1>9 DEF CloseMessage, Server
<1>10. CASE Close  BY <1>10 DEF Close
<1>11. ASSUME NEW l \in Locale, Focus(l)  PROVE TypeOK'  BY <1>11 DEF Focus, Server
<1>12. ASSUME NEW l \in Locale, StopTyping(l)  PROVE TypeOK'
  <2>1. fields' \in [Locale -> Field]  BY <1>12, StopTypingFacts DEF OneField
  <2> QED  BY <1>12, <2>1 DEF StopTyping, Server
<1>13. ASSUME NEW l \in Locale, ShiftEnter(l) \/ Blur(l) \/ Submit(l)  PROVE TypeOK'
  <2>1. Save(l)  BY <1>13 DEF ShiftEnter, Blur, Submit
  <2>2. focus' \in Locale \cup {NoFocus} /\ UNCHANGED <<editable, Server, header, rendering, message>>
    BY <1>13 DEF ShiftEnter, Blur, Submit
  <2> QED  BY <2>1, <2>2, SaveTyped DEF Server
<1>14. ASSUME NEW l \in Locale, Cancel(l)  PROVE TypeOK'
  <2>1. fields' \in [Locale -> Field]  BY <1>14, CancelFacts DEF OneField
  <2>2. disturbed' \subseteq Locale  BY <1>14 DEF Cancel, Disturb
  <2> QED  BY <1>14, <2>1, <2>2 DEF Cancel, Server
<1>15. ASSUME NEW l \in Locale, NEW v \in Value, Type(l, v)  PROVE TypeOK'
  <2>1. fields' \in [Locale -> Field]  BY <1>15, TypeFacts DEF OneField
  <2> QED  BY <1>15, <2>1 DEF Type, Server
<1>16. ASSUME NEW l \in Locale, NEW v \in Value, OtherEdits(l, v)  PROVE TypeOK'
  <2>1. /\ stored' \in [Locale -> Value] /\ held' \in [Locale -> SUBSET Value]
        /\ UNCHANGED status
    BY <1>16, StoreFacts DEF OtherEdits
  <2> QED  BY <1>16, <2>1 DEF OtherEdits
<1>17. CASE UNCHANGED vars  BY <1>17 DEF vars, Server
<1> QED  BY <1>1, <1>2, <1>3, <1>4, <1>5, <1>6, <1>7, <1>8, <1>9, <1>10, <1>11, <1>12, <1>13,
            <1>14, <1>15, <1>16, <1>17 DEF Next, Answers

\* Every reachable state of the page has the declared types, whatever the number
\* of locales, of values and of calls in flight.
THEOREM PageTypeCorrect == Spec => []TypeOK
  BY TypeStart, TypeStep, PTL DEF Spec

-----------------------------------------------------------------------------

(* What the answers bring was on the server.                                 *)

\* PreviousWasOnServer is not inductive alone: a previous value comes from an
\* answer, maybe through the template, and an answer from the stored value.
AnswersWereOnServer ==
  /\ \A l \in Locale : stored[l] \in held[l]
  /\ \A i \in 1 .. Len(rendering) : \A l \in Locale : rendering[i][l] \in held[l]
  /\ \A c \in Connection : calls[c] \in LoadCall /\ calls[c].outcome = "ok"
       => \A l \in Locale : calls[c].about.value[l] \in held[l]
  /\ \A c \in Connection : calls[c] \in SaveCall /\ calls[c].outcome = "ok"
       => calls[c].about.value \in held[calls[c].about.locale]

ServerInv == TypeOK /\ AnswersWereOnServer /\ PreviousWasOnServer

LEMMA CallsDiffer ==
  /\ \A call \in LoadCall : call \notin SaveCall /\ call # NoCall
  /\ \A call \in SaveCall : call \notin LoadCall /\ call # NoCall
<1>1. \A call \in LoadCall : call.method = "GET"  BY DEF LoadCall
<1>2. \A call \in SaveCall : call.method = "PUT"  BY DEF SaveCall
<1>3. NoCall.method = "NONE"  BY DEF NoCall
<1> QED  BY <1>1, <1>2, <1>3

\* Steps that bring no answer.
LEMMA NoAnswer ==
  ASSUME ServerInv, UNCHANGED <<stored, held, rendering>>,
         \A c \in Connection : \/ calls'[c] = calls[c] \/ calls'[c] = NoCall
                               \/ calls'[c].outcome # "ok",
         \A l \in Locale : fields'[l].present => fields[l].present,
         \A l \in Locale : fields'[l].previous = fields[l].previous
  PROVE  AnswersWereOnServer' /\ PreviousWasOnServer'
<1>1. PreviousWasOnServer'  BY DEF ServerInv, PreviousWasOnServer
<1>2. \A c \in Connection : calls'[c] \in LoadCall /\ calls'[c].outcome = "ok"
        => calls'[c] = calls[c]
  BY CallsDiffer
<1>3. \A c \in Connection : calls'[c] \in SaveCall /\ calls'[c].outcome = "ok"
        => calls'[c] = calls[c]
  BY CallsDiffer
<1> QED  BY <1>1, <1>2, <1>3 DEF ServerInv, AnswersWereOnServer

LEMMA SentIsPending ==
  ASSUME TypeOK, NEW call, call.outcome = "pending", Send(call)
  PROVE  \A c \in Connection : calls'[c] = calls[c] \/ calls'[c].outcome # "ok"
<1>1. PICK c \in Connection : calls' = [calls EXCEPT ![c] = call]  BY SendFacts
<1> QED  BY <1>1 DEF TypeOK

LEMMA ServerStep ==
  ASSUME ServerInv, [Next]_vars
  PROVE  ServerInv'
<1> DEFINE Goal == AnswersWereOnServer' /\ PreviousWasOnServer'
<1>0. TypeOK /\ TypeOK'  BY TypeStep DEF ServerInv
<1>1. ASSUME Render  PROVE Goal
  <2>1. UNCHANGED <<stored, held>> /\ rendering' = Tail(rendering) /\ rendering # <<>>
    BY <1>1 DEF Render, Server
  <2>2. \A l \in Locale : Head(rendering)[l] \in held[l]
    BY <1>0, <2>1 DEF ServerInv, AnswersWereOnServer, TypeOK
  <2>3. PreviousWasOnServer'
    BY <1>0, <1>1, <2>1, <2>2, RenderFields DEF PreviousWasOnServer
  <2>4. \A i \in 1 .. Len(rendering') : \A l \in Locale : rendering'[i][l] \in held[l]
    <3>1. \A i \in 1 .. Len(rendering') : i + 1 \in 1 .. Len(rendering)
                                           /\ rendering'[i] = rendering[i + 1]
      BY <1>0, <2>1 DEF TypeOK
    <3> QED  BY <3>1 DEF ServerInv, AnswersWereOnServer
  <2>5. \A c \in Connection : calls'[c] \in LoadCall => calls'[c] = calls[c]
    BY <1>0, <1>1, RenderCalls, CallCases, AbandonedFacts, CallsDiffer
  <2>6. \A c \in Connection : calls'[c] \in SaveCall =>
          /\ calls[c] \in SaveCall /\ calls'[c].outcome = calls[c].outcome
          /\ calls'[c].about.value = calls[c].about.value
          /\ calls'[c].about.locale = calls[c].about.locale
    BY <1>0, <1>1, RenderCalls, CallCases, AbandonedFacts, CallsDiffer
  <2> QED  BY <2>1, <2>3, <2>4, <2>5, <2>6 DEF ServerInv, AnswersWereOnServer
<1>2. ASSUME NEW c \in Connection, ServeLoad(c)  PROVE Goal
  <2>1. UNCHANGED <<stored, held, rendering, fields>>  BY <1>2 DEF ServeLoad, Server
  <2>2. CASE calls' = [calls EXCEPT ![c].outcome = "ok", ![c].about.value = stored]
    <3>1. calls[c] \in LoadCall  BY <1>0, <1>2, CallCases DEF ServeLoad
    <3> DEFINE answered == [calls[c] EXCEPT !.outcome = "ok", !.about.value = stored]
    <3>2. answered \in LoadCall /\ answered.about.value = stored
      BY <1>0, <3>1, LoadAnswered DEF TypeOK
    <3>3. calls' = [calls EXCEPT ![c] = answered]  BY <2>2
    <3> HIDE DEF answered
    <3>4. calls'[c] = answered /\ \A d \in Connection : d # c => calls'[d] = calls[d]
      BY <1>0, <3>3 DEF TypeOK
    <3>5. PreviousWasOnServer'  BY <2>1 DEF ServerInv, PreviousWasOnServer
    <3> QED  BY <2>1, <3>2, <3>4, <3>5, CallsDiffer DEF ServerInv, AnswersWereOnServer
  <2>3. CASE Serve(c, "refused")
    <3>1. \A d \in Connection : calls'[d] = calls[d] \/ calls'[d].outcome # "ok"
      BY <1>0, <1>2, <2>3, ServeFacts DEF ServeLoad, Is, Outcome
    <3> QED  BY <2>1, <3>1, NoAnswer
  <2> QED  BY <1>2, <2>2, <2>3 DEF ServeLoad
<1>3. ASSUME NEW c \in Connection, Loaded(c)  PROVE Goal
  <2>1. /\ UNCHANGED <<stored, held, fields>> /\ rendering' = Append(rendering, About(c).value)
        /\ calls' = [calls EXCEPT ![c] = NoCall] /\ calls[c].outcome = "ok"
    BY <1>3 DEF Loaded, Server, Return, Reached
  <2>2. calls[c] \in LoadCall  BY <1>0, <1>3, CallCases DEF Loaded
  <2>3. \A l \in Locale : About(c).value[l] \in held[l]
    BY <2>1, <2>2 DEF ServerInv, AnswersWereOnServer, About
  <2>4. About(c).value \in [Locale -> Value]  BY <2>2 DEF LoadCall, LoadAbout, About
  <2>5. \A i \in 1 .. Len(rendering') : \A l \in Locale : rendering'[i][l] \in held[l]
    <3>1. Len(rendering') = Len(rendering) + 1 /\ rendering'[Len(rendering) + 1] = About(c).value
          /\ \A i \in 1 .. Len(rendering) : rendering'[i] = rendering[i]
      BY <1>0, <2>1, <2>4 DEF TypeOK
    <3>2. Len(rendering) \in Nat  BY <1>0 DEF TypeOK
    <3> QED  BY <2>3, <3>1, <3>2 DEF ServerInv, AnswersWereOnServer
  <2>6. \A d \in Connection : calls'[d] = calls[d] \/ calls'[d] = NoCall
    BY <1>0, <2>1 DEF TypeOK
  <2>7. PreviousWasOnServer'  BY <2>1 DEF ServerInv, PreviousWasOnServer
  <2> QED  BY <2>1, <2>5, <2>6, <2>7, CallsDiffer DEF ServerInv, AnswersWereOnServer
<1>4. ASSUME NEW c \in Connection, ServeSave(c)  PROVE Goal
  <2>1. calls[c] \in SaveCall /\ InFlight(c)
    BY <1>0, <1>4, CallCases DEF ServeSave
  <2>2. About(c).locale \in Locale /\ About(c).value \in Value
    BY <2>1 DEF SaveCall, SaveAbout, About
  <2>3. UNCHANGED <<rendering, fields>>  BY <1>4 DEF ServeSave
  <2>4. CASE status = "EXPORTED"
    <3>1. Store(About(c).locale, About(c).value) /\ Serve(c, "ok")  BY <1>4, <2>4 DEF ServeSave
    <3>2. /\ stored' = [stored EXCEPT ![About(c).locale] = About(c).value]
          /\ About(c).value \in held'[About(c).locale]
          /\ \A k \in Locale : held[k] \subseteq held'[k]
      BY <1>0, <2>2, <3>1, StoreFacts
    <3>3. /\ calls'[c].method = calls[c].method /\ calls'[c].about = calls[c].about
          /\ \A d \in Connection : d # c => calls'[d] = calls[d]
      BY <1>0, <2>1, <3>1, ServeFacts DEF Outcome
    <3>4. calls'[c] \notin LoadCall
      BY <2>1, <3>3 DEF LoadCall, SaveCall
    <3>5. PreviousWasOnServer'  BY <1>0, <2>3, <3>2 DEF ServerInv, PreviousWasOnServer
    <3>6. \A l \in Locale : stored'[l] \in held'[l]
      BY <1>0, <2>2, <3>2 DEF ServerInv, AnswersWereOnServer, TypeOK
    <3>7. \A i \in 1 .. Len(rendering') : \A l \in Locale : rendering'[i][l] \in held'[l]
      BY <2>3, <3>2 DEF ServerInv, AnswersWereOnServer
    <3>8. \A d \in Connection : calls'[d] \in LoadCall /\ calls'[d].outcome = "ok"
            => \A l \in Locale : calls'[d].about.value[l] \in held'[l]
      BY <3>2, <3>3, <3>4 DEF ServerInv, AnswersWereOnServer
    <3>9. \A d \in Connection : calls'[d] \in SaveCall /\ calls'[d].outcome = "ok"
            => calls'[d].about.value \in held'[calls'[d].about.locale]
      <4>1. \A call \in SaveCall : call.about.locale \in Locale  BY DEF SaveCall, SaveAbout
      <4> QED  BY <3>2, <3>3, <4>1 DEF ServerInv, AnswersWereOnServer, About
    <3> QED  BY <3>5, <3>6, <3>7, <3>8, <3>9 DEF AnswersWereOnServer
  <2>5. CASE status # "EXPORTED"
    <3>1. Serve(c, "refused") /\ UNCHANGED <<stored, held>>  BY <1>4, <2>5 DEF ServeSave, Server
    <3>2. \A d \in Connection : calls'[d] = calls[d] \/ calls'[d].outcome # "ok"
      BY <1>0, <2>1, <3>1, ServeFacts DEF Outcome
    <3> QED  BY <2>3, <3>1, <3>2, NoAnswer
  <2> QED  BY <2>4, <2>5
<1>5. ASSUME NEW c \in Connection, Saved(c)  PROVE Goal
  <2>1. calls[c] \in SaveCall /\ calls[c].outcome = "ok"
    BY <1>0, <1>5, CallCases DEF Saved, Reached
  <2> DEFINE l == About(c).locale
             value == About(c).value
  <2>2. l \in Locale /\ value \in Value /\ value \in held[l]
    BY <2>1 DEF SaveCall, SaveAbout, About, ServerInv, AnswersWereOnServer
  <2>3. /\ UNCHANGED <<stored, held, rendering>> /\ calls' = [calls EXCEPT ![c] = NoCall]
        /\ fields' = fields \/ fields' = [fields EXCEPT ![l] = SavedField(fields[l], value)]
    BY <1>5 DEF Saved, Return, Server
  <2>4. /\ SavedField(fields[l], value).present = fields[l].present
        /\ SavedField(fields[l], value).previous = value
    BY <1>0, <2>2, SavedFacts DEF TypeOK
  <2> HIDE DEF l, value
  <2>5. \A k \in Locale : \/ fields'[k] = fields[k]
                          \/ k = l /\ fields'[k] = SavedField(fields[l], value)
    BY <1>0, <2>2, <2>3 DEF TypeOK
  <2>6. PreviousWasOnServer'
    BY <2>2, <2>3, <2>4, <2>5 DEF ServerInv, PreviousWasOnServer
  <2>7. \A d \in Connection : calls'[d] = calls[d] \/ calls'[d] = NoCall
    BY <1>0, <2>3 DEF TypeOK
  <2> QED  BY <2>3, <2>6, <2>7, CallsDiffer DEF ServerInv, AnswersWereOnServer
<1>6. ASSUME NEW c \in Connection, Failed(c)  PROVE Goal
  <2>1. PICK saves \in BOOLEAN :
           /\ saves => focus # NoFocus
           /\ calls' = [calls EXCEPT ![c] = IF saves THEN SaveOf(focus) ELSE NoCall]
    BY <1>6 DEF Failed
  <2>2. saves => SaveOf(focus).outcome # "ok"
    BY <1>0, <2>1, SaveOfFacts DEF TypeOK
  <2>3. \A d \in Connection : \/ calls'[d] = calls[d] \/ calls'[d] = NoCall
                              \/ calls'[d].outcome # "ok"
    BY <1>0, <2>1, <2>2 DEF TypeOK
  <2>4. UNCHANGED <<stored, held, rendering>>  BY <1>6 DEF Failed, Server
  <2> QED  BY <1>0, <1>6, <2>3, <2>4, FailedFacts, NoAnswer
<1>7. ASSUME NEW c \in Connection, LoseCall(c)  PROVE Goal
  <2>1. InFlight(c) /\ Serve(c, "lost")  BY <1>7 DEF LoseCall, Lose, Reached
  <2>2. \A d \in Connection : calls'[d] = calls[d] \/ calls'[d].outcome # "ok"
    BY <1>0, <2>1, ServeFacts DEF Outcome
  <2>3. UNCHANGED <<stored, held, rendering, fields>>  BY <1>7 DEF LoseCall, Server
  <2> QED  BY <2>2, <2>3, NoAnswer
<1>8. ASSUME LoadEntry  PROVE Goal
  <2>1. \A d \in Connection : calls'[d] = calls[d] \/ calls'[d].outcome # "ok"
    BY <1>0, <1>8, NewLoad, SentIsPending DEF LoadEntry
  <2>2. UNCHANGED <<stored, held, rendering, fields>>  BY <1>8 DEF LoadEntry, Server
  <2> QED  BY <2>1, <2>2, NoAnswer
<1>9. ASSUME CloseMessage \/ Close \/ UNCHANGED vars  PROVE Goal
  <2>1. UNCHANGED <<calls, stored, held, rendering, fields>>
    BY <1>9 DEF CloseMessage, Close, vars, Server
  <2> QED  BY <2>1, NoAnswer
<1>10. ASSUME NEW l \in Locale, Focus(l)  PROVE Goal
  BY <1>10, NoAnswer DEF Focus, Server
<1>11. ASSUME NEW l \in Locale, NEW text, OneField(l, text, fields[l].previous),
              UNCHANGED <<stored, held, rendering>>,
              \A d \in Connection : calls'[d] = calls[d] \/ calls'[d].outcome # "ok"
       PROVE  Goal
  BY <1>11, NoAnswer DEF OneField
<1>12. ASSUME NEW l \in Locale, StopTyping(l) \/ Cancel(l) \/ \E v \in Value : Type(l, v)
       PROVE  Goal
  <2>1. \E text : OneField(l, text, fields[l].previous)
    BY <1>0, <1>12, StopTypingFacts, CancelFacts, TypeFacts
  <2>2. UNCHANGED <<stored, held, rendering, calls>>
    BY <1>12 DEF StopTyping, Cancel, Type, Server
  <2> QED  BY <1>11, <2>1, <2>2
<1>13. ASSUME NEW l \in Locale, ShiftEnter(l) \/ Blur(l) \/ Submit(l)  PROVE Goal
  <2>1. Save(l) /\ UNCHANGED <<stored, held, rendering>>
    BY <1>13 DEF ShiftEnter, Blur, Submit, Server
  <2>2. OneField(l, fields[l].text, fields[l].previous)  BY <1>0, <2>1, SaveFacts
  <2>3. \A d \in Connection : calls'[d] = calls[d] \/ calls'[d].outcome # "ok"
    <3>1. CASE Changed(l)
      BY <1>0, <2>1, <3>1, SaveFacts, SaveOfFacts, SentIsPending
    <3>2. CASE ~Changed(l)  BY <1>0, <2>1, <3>2, SaveFacts
    <3> QED  BY <3>1, <3>2
  <2> QED  BY <1>11, <2>1, <2>2, <2>3
<1>14. ASSUME NEW l \in Locale, NEW v \in Value, OtherEdits(l, v)  PROVE Goal
  <2>1. Store(l, v) /\ UNCHANGED <<calls, rendering, fields>>  BY <1>14 DEF OtherEdits
  <2>2. /\ stored' = [stored EXCEPT ![l] = v] /\ v \in held'[l]
        /\ \A k \in Locale : held[k] \subseteq held'[k]
    BY <1>0, <2>1, StoreFacts
  <2>3. \A call \in SaveCall : call.about.locale \in Locale  BY DEF SaveCall, SaveAbout
  <2>4. PreviousWasOnServer'  BY <2>1, <2>2 DEF ServerInv, PreviousWasOnServer
  <2>5. \A k \in Locale : stored'[k] \in held'[k]
    BY <1>0, <2>2 DEF ServerInv, AnswersWereOnServer, TypeOK
  <2> QED  BY <2>1, <2>2, <2>3, <2>4, <2>5 DEF ServerInv, AnswersWereOnServer
<1> QED
  <2>1. Goal
    BY <1>1, <1>2, <1>3, <1>4, <1>5, <1>6, <1>7, <1>8, <1>9, <1>10, <1>12, <1>13, <1>14
    DEF Next, Answers
  <2> QED  BY <1>0, <2>1 DEF ServerInv

LEMMA ServerStart == Init => ServerInv
<1> SUFFICES ASSUME Init  PROVE ServerInv  OBVIOUS
<1>1. TypeOK  BY TypeStart
<1>2. \A c \in Connection : calls[c] = NoCall  BY DEF Init
<1>3. \A l \in Locale : ~fields[l].present  BY DEF Init, NoField
<1> QED  BY <1>1, <1>2, <1>3, CallsDiffer
         DEF Init, ServerInv, AnswersWereOnServer, PreviousWasOnServer

\* A cancel gives back a value the server has had, whatever is lost, refused or
\* overtaken on the way (request-view.js, the handler of the cancel buttons).
THEOREM PreviousOnServer == Spec => []PreviousWasOnServer
<1>1. ServerInv => PreviousWasOnServer  BY DEF ServerInv
<1> QED  BY ServerStart, ServerStep, <1>1, PTL DEF Spec

-----------------------------------------------------------------------------

(* A field the user has left is saved.                                       *)

SavesFor(call, l) == call \in SaveCall /\ call.about.live /\ call.about.locale = l

\* QuietFieldsAreSaved holds between a save and its answer because of what the save
\* carries: the text of the field, which becomes its previous value.
Quiet(l) == fields[l].present /\ focus # l /\ l \notin disturbed

TextIsSent(l) ==
  Quiet(l) => /\ \A c \in Connection : SavesFor(calls[c], l) => calls[c].about.value = fields[l].text
              /\ Changed(l) => \E c \in Connection : SavesFor(calls[c], l)

TextsAreSent == \A l \in Locale : TextIsSent(l)

LEMMA SavingFacts ==
  ASSUME TypeOK, NEW l \in Locale
  PROVE  Saving(l) = {c \in Connection : SavesFor(calls[c], l)}
<1>1. \A c \in Connection : Is(c, "PUT") <=> calls[c] \in SaveCall
  BY CallCases, CallsDiffer
<1> QED  BY <1>1 DEF Saving, SavesFor, About

\* A call that is served or lost stays the save it was.
LEMMA SameSave ==
  ASSUME NEW call \in {NoCall} \cup LoadCall \cup SaveCall, NEW l,
         NEW answered \in {NoCall} \cup LoadCall \cup SaveCall,
         answered.method = call.method, answered.about = call.about
  PROVE  SavesFor(answered, l) <=> SavesFor(call, l)
<1>1. \A x \in {NoCall} \cup LoadCall \cup SaveCall : x \in SaveCall <=> x.method = "PUT"
  <2>1. NoCall.method = "NONE"  BY DEF NoCall
  <2> QED  BY <2>1, CallsDiffer DEF LoadCall, SaveCall
<1> QED  BY <1>1 DEF SavesFor

\* Steps that change neither the field nor its saves.
LEMMA SentStays ==
  ASSUME NEW l \in Locale, TextIsSent(l), Quiet(l)' => Quiet(l),
         fields'[l].text = fields[l].text, fields'[l].previous = fields[l].previous,
         \A c \in Connection :
           /\ SavesFor(calls'[c], l) <=> SavesFor(calls[c], l)
           /\ SavesFor(calls[c], l) => calls'[c].about.value = calls[c].about.value
  PROVE  TextIsSent(l)'
  BY DEF TextIsSent, Changed

LEMMA SentIsSave ==
  ASSUME TypeOK, NEW l \in Locale, Send(SaveOf(l))
  PROVE  \E c \in Connection :
           /\ SavesFor(calls'[c], l) /\ calls'[c].about.value = fields[l].text
           /\ \A k \in Locale : ~SavesFor(calls[c], k) /\ (SavesFor(calls'[c], k) => k = l)
           /\ \A d \in Connection : d # c => calls'[d] = calls[d]
<1>1. PICK c \in Connection : calls[c] = NoCall /\ calls' = [calls EXCEPT ![c] = SaveOf(l)]
  BY SendFacts
<1>2. calls'[c] = SaveOf(l) /\ \A d \in Connection : d # c => calls'[d] = calls[d]
  BY <1>1 DEF TypeOK
<1> QED  BY <1>1, <1>2, SaveOfFacts, CallsDiffer DEF SavesFor

LEMMA TextStep ==
  ASSUME TypeOK, TextsAreSent, [Next]_vars
  PROVE  TextsAreSent'
<1>0. TypeOK' /\ \A l \in Locale : TextIsSent(l)  BY TypeStep DEF TextsAreSent
<1> SUFFICES ASSUME NEW l \in Locale  PROVE TextIsSent(l)'
  BY DEF TextsAreSent
<1> DEFINE Calls == {NoCall} \cup LoadCall \cup SaveCall
           CallsKept == \A c \in Connection :
             /\ SavesFor(calls'[c], l) <=> SavesFor(calls[c], l)
             /\ SavesFor(calls[c], l) => calls'[c].about.value = calls[c].about.value
<1>a. calls \in [Connection -> Calls] /\ calls' \in [Connection -> Calls]  BY <1>0 DEF TypeOK
<1>1. ASSUME UNCHANGED <<fields, focus, disturbed>>, CallsKept  PROVE TextIsSent(l)'
  BY <1>0, <1>1, SentStays DEF Quiet
<1>2. ASSUME Render  PROVE TextIsSent(l)'
  <2>1. \A c \in Connection : ~SavesFor(calls'[c], l)
    <3> TAKE c \in Connection
    <3>1. CASE Is(c, "PUT")
      <4>1. calls[c] \in SaveCall  BY <3>1, CallCases
      <4> QED  BY <1>2, <3>1, <4>1, RenderCalls, AbandonedFacts DEF SavesFor
    <3>2. CASE ~Is(c, "PUT")
      BY <1>2, <3>2, RenderCalls, CallCases, CallsDiffer DEF SavesFor
    <3> QED  BY <3>1, <3>2
  <2>2. fields'[l].text = fields'[l].previous  BY <1>2, RenderFields
  <2> QED  BY <2>1, <2>2 DEF TextIsSent, Changed
<1>3. ASSUME NEW c \in Connection, ServeLoad(c) \/ Loaded(c)  PROVE TextIsSent(l)'
  <2>1. calls[c] \in LoadCall  BY <1>3, CallCases DEF ServeLoad, Loaded
  <2>2. \A d \in Connection : d # c => calls'[d] = calls[d]
    BY <1>3, <1>a DEF ServeLoad, Loaded, Return, Serve
  <2>3. calls'[c] \notin SaveCall
    <3>1. CASE Loaded(c)
      <4>1. calls' = [calls EXCEPT ![c] = NoCall]  BY <3>1 DEF Loaded, Return
      <4> QED  BY <1>a, <4>1, CallsDiffer
    <3>2. CASE ServeLoad(c) /\ Serve(c, "refused")
      <4>1. calls'[c].method = calls[c].method
        BY <3>2, ServeFacts DEF ServeLoad, Is, Outcome
      <4> QED  BY <2>1, <4>1 DEF LoadCall, SaveCall
    <3>3. CASE calls' = [calls EXCEPT ![c].outcome = "ok", ![c].about.value = stored]
      <4> DEFINE answered == [calls[c] EXCEPT !.outcome = "ok", !.about.value = stored]
      <4>1. answered \in LoadCall  BY <2>1, LoadAnswered DEF TypeOK
      <4>2. calls' = [calls EXCEPT ![c] = answered]  BY <3>3
      <4> HIDE DEF answered
      <4> QED  BY <1>a, <4>1, <4>2, CallsDiffer
    <3> QED  BY <1>3, <3>1, <3>2, <3>3 DEF ServeLoad
  <2>4. CallsKept  BY <2>1, <2>2, <2>3, CallsDiffer DEF SavesFor
  <2> QED  BY <1>1, <1>3, <2>4 DEF ServeLoad, Loaded
<1>4. ASSUME NEW c \in Connection, ServeSave(c) \/ LoseCall(c)  PROVE TextIsSent(l)'
  <2>1. PICK outcome \in Outcome : InFlight(c) /\ Serve(c, outcome)
    BY <1>4 DEF ServeSave, LoseCall, Lose, Reached, Outcome
  <2>2. /\ calls'[c].method = calls[c].method /\ calls'[c].about = calls[c].about
        /\ \A d \in Connection : d # c => calls'[d] = calls[d]
    BY <2>1, ServeFacts
  <2>3. CallsKept  BY <1>a, <2>2, SameSave
  <2> QED  BY <1>1, <1>4, <2>3 DEF ServeSave, LoseCall
<1>5. ASSUME NEW c \in Connection, Saved(c)  PROVE TextIsSent(l)'
  <2>1. calls[c] \in SaveCall  BY <1>5, CallCases DEF Saved
  <2> DEFINE k == About(c).locale
             value == About(c).value
             live == About(c).live
  <2>2. k \in Locale /\ value \in Value /\ live \in BOOLEAN
    BY <2>1 DEF SaveCall, SaveAbout, About
  <2>3. /\ calls' = [calls EXCEPT ![c] = NoCall] /\ UNCHANGED <<focus, disturbed>>
        /\ fields' = IF live THEN [fields EXCEPT ![k] = SavedField(fields[k], value)] ELSE fields
    BY <1>5 DEF Saved, Return
  <2>4. calls'[c] = NoCall /\ \A d \in Connection : d # c => calls'[d] = calls[d]
    BY <1>a, <2>3
  <2>5. ~SavesFor(calls'[c], l)  BY <2>4, CallsDiffer DEF SavesFor
  <2>6. SavesFor(calls[c], l) <=> live /\ k = l  BY <2>1 DEF SavesFor, About
  <2>7. CASE live /\ k = l
    <3>1. fields'[l] = SavedField(fields[l], value)  BY <2>2, <2>3, <2>7 DEF TypeOK
    <3>2. /\ fields'[l].present = fields[l].present /\ fields'[l].text = fields[l].text
          /\ fields'[l].previous = value
      <4>1. fields[l] \in Field /\ value \in Value  BY <2>2 DEF TypeOK
      <4> HIDE DEF value
      <4> QED  BY <3>1, <4>1, SavedFacts
    <3>3. ASSUME Quiet(l)'
          PROVE  /\ value = fields[l].text
                 /\ \A d \in Connection :
                      SavesFor(calls'[d], l) => calls'[d].about.value = fields[l].text
      <4>1. Quiet(l)  BY <2>3, <3>2, <3>3 DEF Quiet
      <4> QED  BY <1>0, <2>4, <2>5, <2>6, <2>7, <4>1 DEF TextIsSent, About
    <3> QED  BY <3>2, <3>3 DEF TextIsSent, Changed
  <2>8. CASE ~(live /\ k = l)
    <3>1. fields'[l] = fields[l]  BY <2>2, <2>3, <2>8 DEF TypeOK
    <3>2. CallsKept  BY <2>4, <2>5, <2>6, <2>8
    <3>3. Quiet(l)' => Quiet(l)  BY <2>3, <3>1 DEF Quiet
    <3> QED  BY <1>0, <3>1, <3>2, <3>3, SentStays
  <2> QED  BY <2>7, <2>8
<1>6. ASSUME NEW c \in Connection, Failed(c)  PROVE TextIsSent(l)'
  <2>1. PICK leaves \in BOOLEAN :
           /\ leaves => focus # NoFocus
           /\ calls' = [calls EXCEPT ![c] = IF leaves /\ Changed(focus) THEN SaveOf(focus)
                                                                        ELSE NoCall]
           /\ focus' = IF leaves THEN NoFocus ELSE focus
           /\ disturbed' = disturbed \cup {k \in Locale : c \in Saving(k)}
                            \cup {k \in Locale : leaves /\ k = focus /\ Saving(k) # {}}
    BY <1>6 DEF Failed
  <2>2. /\ fields'[l].present = fields[l].present /\ fields'[l].text = fields[l].text
        /\ fields'[l].previous = fields[l].previous
    BY <1>6, FailedFacts
  <2>3. /\ calls'[c] = IF leaves /\ Changed(focus) THEN SaveOf(focus) ELSE NoCall
        /\ \A d \in Connection : d # c => calls'[d] = calls[d]
    BY <1>a, <2>1
  <2> SUFFICES ASSUME Quiet(l)'  PROVE TextIsSent(l)'
    BY DEF TextIsSent
  <2>4. l \notin disturbed /\ c \notin Saving(l)  BY <2>1 DEF Quiet
  <2>5. ~SavesFor(calls[c], l)  BY <2>4, SavingFacts
  <2>6. leaves => focus \in Locale  BY <2>1 DEF TypeOK
  <2>7. CASE l = focus
    <3>1. leaves /\ Saving(l) = {}  BY <2>1, <2>7 DEF Quiet
    <3>2. \A d \in Connection : ~SavesFor(calls[d], l)  BY <3>1, SavingFacts
    <3>3. CASE Changed(l)
      <4>1. calls'[c] = SaveOf(l)  BY <2>3, <2>7, <3>1, <3>3
      <4>2. SavesFor(calls'[c], l) /\ calls'[c].about.value = fields[l].text
        BY <4>1, SaveOfFacts DEF SavesFor
      <4> QED  BY <2>2, <2>3, <3>2, <4>2 DEF TextIsSent
    <3>4. CASE ~Changed(l)
      <4>1. \A d \in Connection : ~SavesFor(calls'[d], l)
        BY <2>3, <2>7, <3>2, <3>4, CallsDiffer DEF SavesFor
      <4> QED  BY <2>2, <3>4, <4>1 DEF TextIsSent, Changed
    <3> QED  BY <3>3, <3>4
  <2>8. CASE l # focus
    <3>1. ~SavesFor(calls'[c], l)
      BY <2>3, <2>6, <2>8, SaveOfFacts, CallsDiffer DEF SavesFor
    <3>2. CallsKept  BY <2>3, <2>5, <3>1
    <3>3. Quiet(l)  BY <2>2, <2>4, <2>8 DEF Quiet
    <3> QED  BY <1>0, <2>2, <3>2, <3>3, SentStays
  <2> QED  BY <2>7, <2>8
<1>7. ASSUME LoadEntry  PROVE TextIsSent(l)'
  <2>1. PICK call \in LoadCall : Send(call)  BY <1>7, NewLoad DEF LoadEntry
  <2>2. PICK c \in Connection : calls[c] = NoCall /\ calls' = [calls EXCEPT ![c] = call]
    BY <2>1, SendFacts
  <2>3. CallsKept  BY <1>a, <2>1, <2>2, CallsDiffer DEF SavesFor
  <2> QED  BY <1>1, <1>7, <2>3 DEF LoadEntry
<1>8. ASSUME NEW k \in Locale, Save(k), UNCHANGED focus \/ (focus = k /\ focus' = NoFocus)
      PROVE  TextIsSent(l)'
  <2>1. OneField(k, fields[k].text, fields[k].previous) /\ Disturb(k)  BY <1>8, SaveFacts
  <2>2. /\ fields'[l].present = fields[l].present /\ fields'[l].text = fields[l].text
        /\ fields'[l].previous = fields[l].previous
    BY <2>1 DEF OneField
  <2>3. CASE k # l
    <3>1. CallsKept
      <4>1. CASE Changed(k)
        <5>1. Send(SaveOf(k))  BY <1>8, <4>1, SaveFacts
        <5> QED  BY <2>3, <5>1, SentIsSave
      <4>2. CASE ~Changed(k)  BY <1>8, <4>2, SaveFacts
      <4> QED  BY <4>1, <4>2
    <3>2. Quiet(l)' => Quiet(l)  BY <1>8, <2>1, <2>2, <2>3 DEF Quiet, Disturb
    <3> QED  BY <1>0, <2>2, <3>1, <3>2, SentStays
  <2>4. CASE k = l
    <3> SUFFICES ASSUME Quiet(l)'  PROVE TextIsSent(l)'
      BY DEF TextIsSent
    <3>1. Saving(l) = {}  BY <2>1, <2>4 DEF Quiet, Disturb
    <3>2. \A d \in Connection : ~SavesFor(calls[d], l)  BY <3>1, SavingFacts
    <3>3. CASE Changed(l)
      <4>1. Send(SaveOf(l))  BY <1>8, <2>4, <3>3, SaveFacts
      <4>2. PICK c \in Connection :
              /\ SavesFor(calls'[c], l) /\ calls'[c].about.value = fields[l].text
              /\ \A d \in Connection : d # c => calls'[d] = calls[d]
        BY <4>1, SentIsSave
      <4> QED  BY <2>2, <3>2, <4>2 DEF TextIsSent
    <3>4. CASE ~Changed(l)
      <4>1. calls' = calls  BY <1>8, <2>4, <3>4, SaveFacts
      <4> QED  BY <2>2, <3>2, <3>4, <4>1 DEF TextIsSent, Changed
    <3> QED  BY <3>3, <3>4
  <2> QED  BY <2>3, <2>4
<1>9. ASSUME NEW k \in Locale, ShiftEnter(k) \/ Blur(k) \/ Submit(k)  PROVE TextIsSent(l)'
  BY <1>8, <1>9 DEF ShiftEnter, Blur, Submit
<1>10. ASSUME NEW k \in Locale, Cancel(k)  PROVE TextIsSent(l)'
  <2>1. OneField(k, fields[k].previous, fields[k].previous)  BY <1>10, CancelFacts
  <2>2. Disturb(k) /\ UNCHANGED <<calls, focus>>  BY <1>10 DEF Cancel
  <2>3. CASE k # l
    <3>1. fields'[l] = fields[l]  BY <2>1, <2>3 DEF OneField
    <3>2. Quiet(l)' => Quiet(l)  BY <2>2, <3>1 DEF Quiet, Disturb
    <3> QED  BY <1>0, <2>2, <3>1, <3>2, SentStays
  <2>4. CASE k = l
    <3> SUFFICES ASSUME Quiet(l)'  PROVE TextIsSent(l)'
      BY DEF TextIsSent
    <3>1. Saving(l) = {}  BY <2>2, <2>4 DEF Quiet, Disturb
    <3>2. \A d \in Connection : ~SavesFor(calls[d], l)  BY <3>1, SavingFacts
    <3> QED  BY <2>1, <2>2, <2>4, <3>2 DEF TextIsSent, Changed, OneField
  <2> QED  BY <2>3, <2>4
<1>11. ASSUME NEW k \in Locale, NEW v \in Value, Type(k, v)  PROVE TextIsSent(l)'
  <2>1. OneField(k, v, fields[k].previous)  BY <1>11, TypeFacts
  <2>2. UNCHANGED <<calls, focus, disturbed>> /\ focus = k  BY <1>11 DEF Type
  <2>3. CASE k # l
    <3>1. fields'[l] = fields[l]  BY <2>1, <2>3 DEF OneField
    <3> QED  BY <1>0, <2>2, <3>1, SentStays DEF Quiet
  <2>4. CASE k = l  BY <2>2, <2>4 DEF TextIsSent, Quiet
  <2> QED  BY <2>3, <2>4
<1>12. ASSUME NEW k \in Locale, StopTyping(k)  PROVE TextIsSent(l)'
  <2>1. OneField(k, fields[k].text, fields[k].previous)  BY <1>12, StopTypingFacts
  <2>2. UNCHANGED <<calls, focus, disturbed>>  BY <1>12 DEF StopTyping
  <2> QED  BY <1>0, <2>1, <2>2, SentStays DEF Quiet, OneField
<1>13. ASSUME NEW k \in Locale, Focus(k)  PROVE TextIsSent(l)'
  <2>1. UNCHANGED <<calls, fields, disturbed>> /\ focus = NoFocus
    BY <1>13 DEF Focus, CanClick
  <2>2. Quiet(l)' => Quiet(l)  BY <2>1, PageAssumption DEF Quiet
  <2> QED  BY <1>0, <2>1, <2>2, SentStays
<1>14. ASSUME \/ CloseMessage \/ Close \/ UNCHANGED vars
              \/ \E k \in Locale, v \in Value : OtherEdits(k, v)
       PROVE  TextIsSent(l)'
  BY <1>1, <1>14 DEF CloseMessage, Close, OtherEdits, vars
<1> HIDE DEF CallsKept, Calls
<1> QED
  BY <1>2, <1>3, <1>4, <1>5, <1>6, <1>7, <1>9, <1>10, <1>11, <1>12, <1>13, <1>14
  DEF Next, Answers

LEMMA TextStart == Init => TextsAreSent
  BY DEF Init, TextsAreSent, TextIsSent, Quiet, NoField

\* A field the user left, without cancelling or leaving it during a save, holds what
\* the last answer confirmed (request-view.js, saveEntryForLocale), for every number
\* of calls in flight and in whatever order they are answered.
THEOREM QuietFieldsSaved == Spec => []QuietFieldsAreSaved
<1>1. TypeOK /\ TextsAreSent => QuietFieldsAreSaved
  BY SavingFacts DEF TextsAreSent, TextIsSent, Quiet, QuietFieldsAreSaved
<1> QED  BY TypeStart, TypeStep, TextStart, TextStep, <1>1, PTL DEF Spec

-----------------------------------------------------------------------------
==============================================================================
