--------------------------- MODULE PageControlsProofs ---------------------------
(***************************************************************************)
(* Proofs about the controls of the pages, for every number of entries,    *)
(* locales, menus, sections, accounts, queries, forms, choices and passwords, *)
(* and about their templates, for all the templates and all they are        *)
(* rendered with.                                                          *)
(***************************************************************************)
EXTENDS RequestFilters, Menus, Accordion, AccountField, DialogForms, ConfigurableField,
        AccountForms, TemplateCompiler, SequenceTheorems, WellFoundedInduction, TLAPS

-----------------------------------------------------------------------------
(* The filters of a request.                                                 *)

FiltersInv == FiltersTypeOK /\ HiddenByAFilter /\ DeletedStayHidden

LEMMA FiltersStart == FiltersInit => FiltersInv
  BY DEF FiltersInit, FiltersInv, FiltersTypeOK, HiddenByAFilter, DeletedStayHidden, Active

LEMMA ActiveBoolean == ASSUME NEW b  PROVE Active(b) \in BOOLEAN
<1>1. Active(b) = TRUE \/ Active(b) = FALSE  BY DEF Active
<1> QED  BY <1>1

LEMMA FiltersTypeStep ==
  ASSUME FiltersTypeOK, [FiltersNext]_filtersVars
  PROVE  FiltersTypeOK'
<1> USE DEF FiltersTypeOK
<1>1. CASE HideDeleted
  <2>1. shown' \in [Entry -> BOOLEAN]
    <3>1. \A e \in Entry : (IF Deleted(e) THEN Active("deleted") ELSE shown[e]) \in BOOLEAN
      <4> TAKE e \in Entry
      <4>1. Active("deleted") \in BOOLEAN /\ shown[e] \in BOOLEAN  BY ActiveBoolean
      <4> QED  BY <4>1, Zenon
    <3> QED  BY <1>1, <3>1, Zenon DEF HideDeleted
  <2>2. pressed' \subseteq {"deleted", "valid"} \cup Language
    BY <1>1 DEF HideDeleted, Press, Active
  <2> QED  BY <1>1, <2>1, <2>2 DEF HideDeleted
<1>2. CASE HideValid
  <2>1. shown' \in [Entry -> BOOLEAN]
    <3>1. \A e \in Entry : (IF Invalid(e) THEN shown[e]
                            ELSE IF Active("valid") THEN Released(e) ELSE FALSE) \in BOOLEAN
      BY DEF Released
    <3> QED  BY <1>2, <3>1, Zenon DEF HideValid
  <2>2. localeShown' \in [Entry -> [Language -> BOOLEAN]]
    <3>1. [l \in Language |-> Active("valid")] \in [Language -> BOOLEAN]
      BY ActiveBoolean, Zenon
    <3>2. \A e \in Entry : (IF e \in opened THEN [l \in Language |-> Active("valid")]
                                            ELSE localeShown[e]) \in [Language -> BOOLEAN]
      <4> HIDE DEF Active
      <4> QED  BY <3>1
    <3> QED  BY <1>2, <3>2, Zenon DEF HideValid
  <2>3. pressed' \subseteq {"deleted", "valid"} \cup Language
    BY <1>2 DEF HideValid, Press, Active
  <2> QED  BY <1>2, <2>1, <2>2, <2>3 DEF HideValid
<1>3. ASSUME NEW l \in Language, HideLocale(l)  PROVE FiltersTypeOK'
  BY <1>3 DEF HideLocale, FilterLocales, Press, Active
<1>4. ASSUME NEW e \in Entry, Open(e)  PROVE FiltersTypeOK'
  BY <1>4 DEF Open, FilterLocales
<1>5. CASE UNCHANGED filtersVars  BY <1>5 DEF filtersVars
<1> QED  BY <1>1, <1>2, <1>3, <1>4, <1>5 DEF FiltersNext

LEMMA FiltersStep ==
  ASSUME FiltersInv, [FiltersNext]_filtersVars
  PROVE  FiltersInv'
<1> USE FiltersAssumption DEF FiltersInv, FiltersTypeOK, HiddenByAFilter, DeletedStayHidden, Active
<1>0. FiltersTypeOK'  BY FiltersTypeStep
<1>1. ASSUME HideDeleted  PROVE HiddenByAFilter' /\ DeletedStayHidden'
  <2>1. UNCHANGED <<opened, localeShown, localeFilter>>  BY <1>1 DEF HideDeleted
  <2>2. /\ "deleted" \in pressed' <=> "deleted" \notin pressed
        /\ \A b : b # "deleted" => (b \in pressed' <=> b \in pressed)
    BY <1>1 DEF HideDeleted, Press
  <2>3. \A e \in Entry : shown'[e] = IF Deleted(e) THEN "deleted" \in pressed ELSE shown[e]
    BY <1>1 DEF HideDeleted
  <2>4. localeFilter' = pressed' \cap Language  BY <2>1, <2>2
  <2> QED  BY <2>1, <2>2, <2>3, <2>4 DEF Deleted, Invalid, Classes
<1>2. ASSUME HideValid  PROVE HiddenByAFilter' /\ DeletedStayHidden'
  <2>1. UNCHANGED <<opened, localeFilter>>  BY <1>2 DEF HideValid
  <2>2. /\ "valid" \in pressed' <=> "valid" \notin pressed
        /\ \A b : b # "valid" => (b \in pressed' <=> b \in pressed)
    BY <1>2 DEF HideValid, Press
  <2>3. \A e \in Entry : shown'[e] = IF Invalid(e) THEN shown[e]
                                     ELSE IF "valid" \in pressed THEN Released(e) ELSE FALSE
    BY <1>2 DEF HideValid
  <2>4. \A e \in Entry, l \in Language :
          localeShown'[e][l] = IF e \in opened THEN "valid" \in pressed ELSE localeShown[e][l]
    BY <1>2 DEF HideValid
  <2>5. localeFilter' = pressed' \cap Language  BY <2>1, <2>2
  <2>6. \A e \in Entry, l \in Language :
          ~localeShown'[e][l] => e \in opened' /\ ("valid" \in pressed' \/ l \in pressed')
    BY <2>1, <2>2, <2>4
  <2>7. \A e \in Entry : ~shown'[e] => \/ "deleted" \in pressed' /\ Deleted(e)
                                       \/ "valid" \in pressed' /\ ~Invalid(e)
    BY <2>2, <2>3 DEF Released
  <2>8. DeletedStayHidden'  BY <2>2, <2>3 DEF Released, Deleted, Classes
  <2> QED  BY <2>5, <2>6, <2>7, <2>8 DEF Deleted, Invalid, Classes
<1>3. ASSUME NEW l \in Language, HideLocale(l)  PROVE HiddenByAFilter' /\ DeletedStayHidden'
  <2>1. UNCHANGED <<shown, opened>>  BY <1>3 DEF HideLocale
  <2>2. \A b : b # l => (b \in pressed' <=> b \in pressed)
    BY <1>3 DEF HideLocale, Press
  <2>3. localeFilter' = pressed' \cap Language
    BY <1>3 DEF HideLocale, FilterLocales, Press
  <2>4. \A e \in Entry, k \in Language :
          localeShown'[e][k] = IF e \in opened THEN k \notin localeFilter' ELSE localeShown[e][k]
    BY <1>3 DEF HideLocale, FilterLocales
  <2>5. l # "deleted" /\ l # "valid"  OBVIOUS
  <2> QED  BY <2>1, <2>2, <2>3, <2>4, <2>5 DEF Deleted, Invalid, Classes
<1>4. ASSUME NEW e \in Entry, Open(e)  PROVE HiddenByAFilter' /\ DeletedStayHidden'
  <2>1. UNCHANGED <<shown, pressed, localeFilter>> /\ opened' = opened \cup {e}
    BY <1>4 DEF Open, FilterLocales
  <2>2. \A f \in Entry, k \in Language :
          localeShown'[f][k] = IF f \in opened' THEN k \notin localeFilter ELSE localeShown[f][k]
    BY <1>4 DEF Open, FilterLocales
  <2> QED  BY <2>1, <2>2 DEF Deleted, Invalid, Classes
<1>5. ASSUME UNCHANGED filtersVars  PROVE HiddenByAFilter' /\ DeletedStayHidden'
  BY <1>5 DEF filtersVars, Deleted, Invalid, Classes
<1> QED  BY <1>0, <1>1, <1>2, <1>3, <1>4, <1>5 DEF FiltersNext

\* Whatever the order the two filters are used in, releasing the one on valid
\* entries (request-view.js, hideValid) leaves the deleted ones hidden.
THEOREM DeletedHidden == FiltersSpec => []DeletedStayHidden
<1>1. FiltersInv => DeletedStayHidden  BY DEF FiltersInv
<1> QED  BY FiltersStart, FiltersStep, <1>1, PTL DEF FiltersSpec

\* A page without active filters shows every row of every entry, and of every
\* locale, whatever was pressed before.
THEOREM AllShownWithoutFilter == FiltersSpec => []NothingHiddenWithoutFilter
<1>1. FiltersInv => NothingHiddenWithoutFilter
  BY DEF FiltersInv, HiddenByAFilter, NothingHiddenWithoutFilter, FiltersTypeOK, Active
<1> QED  BY FiltersStart, FiltersStep, <1>1, PTL DEF FiltersSpec

-----------------------------------------------------------------------------
(* The menus and the sections of the settings.                               *)

\* Each toggle closes the other menus first (bootstrap.js, clearMenus), whether it
\* is clicked or reached by the keyboard.
THEOREM MenusExclude == MenusSpec => []OneMenuOpen
<1>1. MenusInit => OneMenuOpen  BY DEF MenusInit, OneMenuOpen
<1>2. OneMenuOpen /\ [MenusNext]_menusVars => OneMenuOpen'
  <2> SUFFICES ASSUME OneMenuOpen, [MenusNext]_menusVars  PROVE OneMenuOpen'  OBVIOUS
  <2> USE DEF OneMenuOpen
  <2>1. ASSUME NEW m, Toggle(m)  PROVE OneMenuOpen'
    BY <2>1 DEF Toggle, Toggled, ClearMenus
  <2>2. CASE ClickElsewhere  BY <2>2 DEF ClickElsewhere, ClearMenus
  <2>3. ASSUME NEW m, MoveFocus(m)  PROVE OneMenuOpen'  BY <2>3 DEF MoveFocus
  <2>4. CASE UNCHANGED menusVars  BY <2>4 DEF menusVars
  <2> QED  BY <2>1, <2>2, <2>3, <2>4 DEF MenusNext, ArrowKey, EscapeKey
<1> QED  BY <1>1, <1>2, PTL DEF MenusSpec

\* A section is not asked for while the one in its place is moving (bootstrap.js,
\* show), so that the two never end up shown.
THEOREM SectionsExclude == AccordionSpec => []OneSectionShown
<1>1. AccordionInit => OneSectionShown  BY DEF AccordionInit, OneSectionShown
<1>2. OneSectionShown /\ [AccordionNext]_accordionVars => OneSectionShown'
  <2> SUFFICES ASSUME OneSectionShown, [AccordionNext]_accordionVars  PROVE OneSectionShown'
    OBVIOUS
  <2> USE DEF OneSectionShown
  <2>1. ASSUME NEW s \in Section, Show(s)  PROVE OneSectionShown'
    <3>1. Hidden(Actives(s)) = in \ {s}  BY <2>1 DEF Show, MayShow, Hidden, Actives
    <3>2. in' = {s}  BY <2>1, <3>1 DEF Show
    <3> QED  BY <3>2
  <2>2. ASSUME NEW s \in Section, Hide(s)  PROVE OneSectionShown'  BY <2>2 DEF Hide
  <2>3. ASSUME NEW s \in Section, Complete(s)  PROVE OneSectionShown'  BY <2>3 DEF Complete
  <2>4. CASE UNCHANGED accordionVars  BY <2>4 DEF accordionVars
  <2> QED  BY <2>1, <2>2, <2>3, <2>4 DEF AccordionNext
<1> QED  BY <1>1, <1>2, PTL DEF AccordionSpec

(* The account field.                                                        *)

MenuInv == FieldTypeOK /\ MenuItemsAreKnown /\ MenuAnswersText

LEMMA NoMenu == <<>> \in Seq(Account) /\ 0 \in 0 .. Len(<<>>)  OBVIOUS

LEMMA FieldStart == FieldInit => MenuInv
<1> SUFFICES ASSUME FieldInit  PROVE MenuInv  OBVIOUS
<1>1. FieldTypeOK  BY NoMenu DEF FieldInit, FieldTypeOK
<1> QED  BY <1>1 DEF FieldInit, MenuInv, MenuItemsAreKnown, MenuAnswersText

\* The type holds through each operation: the active item is one of the menu's as
\* long as the menu is shown.
LEMMA FieldTypeStep ==
  ASSUME FieldTypeOK, [FieldNext]_fieldVars
  PROVE  FieldTypeOK'
<1> USE FieldAssumption DEF FieldTypeOK, HideMenu
<1>1. CASE FocusField  BY <1>1 DEF FocusField
<1>2. CASE BlurField   BY <1>2 DEF BlurField
<1>3. ASSUME NEW i \in 1 .. Len(menu), Activate(i), mousedover' \in BOOLEAN
      PROVE  FieldTypeOK'
  BY <1>3 DEF Activate
<1>4. CASE DownArrow
  <2>1. menuShown /\ NextItem \in 1 .. Len(menu)  BY <1>4 DEF DownArrow, Activate, NextItem
  <2> QED  BY <1>3, <1>4, <2>1 DEF DownArrow
<1>5. CASE UpArrow
  <2>1. menuShown /\ PrevItem \in 1 .. Len(menu)  BY <1>5 DEF UpArrow, Activate, PrevItem
  <2> QED  BY <1>3, <1>5, <2>1 DEF UpArrow
<1>6. ASSUME NEW i \in 1 .. Len(menu), EnterItem(i)  PROVE FieldTypeOK'
  BY <1>3, <1>6 DEF EnterItem
<1>7. CASE LeaveMenu  BY <1>7 DEF LeaveMenu
<1>8. ASSUME SelectItem, focused' \in BOOLEAN  PROVE FieldTypeOK'
  <2>1. menu[active] \in Account  BY <1>8 DEF SelectItem
  <2> QED  BY <1>8, <2>1 DEF SelectItem
<1>9. CASE SelectByKey \/ SelectByClick  BY <1>8, <1>9 DEF SelectByKey, SelectByClick
<1>10. CASE EscapeMenu  BY <1>10 DEF EscapeMenu
<1>11. CASE AddACL  BY <1>11 DEF AddACL
<1>12. ASSUME NEW t \in Text \cup {Empty}, Type(t)  PROVE FieldTypeOK'
  BY <1>12 DEF Type
<1>13. ASSUME NEW q \in Query, Answer(q)  PROVE FieldTypeOK'
  <2> DEFINE items == Found[queries[q]]
  <2>1. items \in Seq(Account)  BY <1>13 DEF Answer
  <2>2. queries' \in [Query -> Text \cup {NoQuery}]  BY <1>13 DEF Answer
  <2>3. known' \subseteq Account  BY <1>13, <2>1 DEF Answer, ItemsOf
  <2>4. Process(items)  BY <1>13 DEF Answer
  <2>5. menu' \in Seq(Account) /\ active' \in 0 .. Len(menu') /\ (menuShown' => active' # 0)
        /\ menuShown' \in BOOLEAN
    <3>1. CASE items = <<>>  BY <2>4, <3>1 DEF Process
    <3>2. CASE items # <<>> /\ query \in Malformed  BY <2>4, <3>2 DEF Process
    <3>3. CASE items # <<>> /\ query \notin Malformed
      <4>1. Len(items) \in Nat \ {0}  BY <2>1, <3>3
      <4> QED  BY <2>1, <2>4, <3>3, <4>1 DEF Process, ShowMenu
    <3> QED  BY <3>1, <3>2, <3>3
  <2>6. raised' \in BOOLEAN /\ late' \in BOOLEAN  BY <1>13 DEF Answer
  <2> QED  BY <1>13, <2>2, <2>3, <2>5, <2>6 DEF Answer
<1>14. ASSUME NEW q \in Query, Lost(q)  PROVE FieldTypeOK'  BY <1>14 DEF Lost
<1>15. ASSUME NEW a \in Account, Added(a)  PROVE FieldTypeOK'
  BY <1>15, NoMenu DEF Added
<1>16. ASSUME NEW a \in Account, NotAdded(a)  PROVE FieldTypeOK'  BY <1>16 DEF NotAdded
<1>17. CASE UNCHANGED fieldVars  BY <1>17 DEF fieldVars
<1> QED  BY <1>1, <1>2, <1>4, <1>5, <1>6, <1>7, <1>9, <1>10, <1>11, <1>12, <1>13, <1>14, <1>15,
            <1>16, <1>17 DEF FieldNext

\* What does not touch the items, the text or the queries cannot spoil the menu.
LEMMA MenuKept ==
  ASSUME MenuInv, UNCHANGED <<text, queries, known, menu, raised, late>>,
         menuShown' => menuShown
  PROVE  MenuItemsAreKnown' /\ MenuAnswersText'
  BY DEF MenuInv, MenuItemsAreKnown, MenuAnswersText, ItemsOf

LEMMA MenuHidden ==
  ASSUME ~menuShown'
  PROVE  MenuItemsAreKnown' /\ MenuAnswersText'
  BY DEF MenuItemsAreKnown, MenuAnswersText

LEMMA MenuStep ==
  ASSUME MenuInv, [FieldNext]_fieldVars
  PROVE  MenuInv'
<1>0. FieldTypeOK'  BY FieldTypeStep DEF MenuInv
<1> DEFINE Goal == MenuItemsAreKnown' /\ MenuAnswersText'
<1>1. ASSUME FocusField \/ BlurField \/ DownArrow \/ UpArrow \/ LeaveMenu \/ AddACL
      PROVE  Goal
  BY <1>1, MenuKept DEF FocusField, BlurField, DownArrow, UpArrow, Activate, LeaveMenu, AddACL,
                        HideMenu
<1>2. ASSUME NEW i \in 1 .. Len(menu), EnterItem(i)  PROVE Goal
  BY <1>2, MenuKept DEF EnterItem, Activate
<1>3. ASSUME SelectByKey \/ SelectByClick \/ EscapeMenu  PROVE Goal
  BY <1>3, MenuHidden DEF SelectByKey, SelectByClick, SelectItem, EscapeMenu, HideMenu
<1>4. ASSUME NEW t \in Text \cup {Empty}, Type(t)  PROVE Goal
  <2>1. CASE t = Empty  BY <1>4, <2>1, MenuHidden DEF Type, HideMenu
  <2>2. CASE t # Empty
    <3>1. MenuItemsAreKnown'
      BY <1>4, <2>2 DEF Type, MenuInv, MenuItemsAreKnown, ItemsOf
    <3>2. PICK q \in Query : queries' = [queries EXCEPT ![q] = t]  BY <1>4, <2>2 DEF Type
    <3>3. queries'[q] # NoQuery
      BY <2>2, <3>2, FieldAssumption DEF MenuInv, FieldTypeOK
    <3> QED  BY <3>1, <3>3 DEF MenuAnswersText
  <2> QED  BY <2>1, <2>2
<1>5. ASSUME NEW q \in Query, Answer(q)  PROVE Goal
  <2> DEFINE items == Found[queries[q]]
  <2>1. /\ queries[q] \in Text
        /\ known' = ItemsOf(items) /\ Process(items)
        /\ raised' = (items # <<>> /\ query \in Malformed)
        /\ late' = (queries[q] # text) /\ text' = text
    BY <1>5 DEF Answer, MenuInv, FieldTypeOK
  <2>2. CASE items = <<>>  BY <2>1, <2>2, MenuHidden DEF Process, HideMenu
  <2>3. CASE items # <<>> /\ query \in Malformed
    BY <2>1, <2>3 DEF MenuItemsAreKnown, MenuAnswersText
  <2>4. CASE items # <<>> /\ query \notin Malformed
    <3>1. menu' = items  BY <2>1, <2>4 DEF Process, ShowMenu
    <3>2. MenuItemsAreKnown'  BY <2>1, <3>1 DEF MenuItemsAreKnown, ItemsOf
    <3>3. MenuAnswersText'  BY <2>1, <3>1 DEF MenuAnswersText
    <3> QED  BY <3>2, <3>3
  <2> QED  BY <2>2, <2>3, <2>4
<1>6. ASSUME NEW q \in Query, Lost(q)  PROVE Goal
  BY <1>6 DEF Lost, MenuInv, MenuItemsAreKnown, MenuAnswersText, ItemsOf
<1>7. ASSUME NEW a \in Account, Added(a)  PROVE Goal  BY <1>7, MenuHidden DEF Added
<1>8. ASSUME NEW a \in Account, NotAdded(a)  PROVE Goal  BY <1>8, MenuKept DEF NotAdded
<1>9. ASSUME UNCHANGED fieldVars  PROVE Goal  BY <1>9, MenuKept DEF fieldVars
<1> QED  BY <1>0, <1>1, <1>2, <1>3, <1>4, <1>5, <1>6, <1>7, <1>8, <1>9 DEF FieldNext, MenuInv

\* Every reachable state of the account field has the declared types, and an active
\* item of its menu when the menu is shown.
THEOREM FieldTyped == FieldSpec => []FieldTypeOK
<1>1. MenuInv => FieldTypeOK  BY DEF MenuInv
<1> QED  BY FieldStart, MenuStep, <1>1, PTL DEF FieldSpec

\* For every number of queries in flight, and whatever the order of their answers, what
\* the menu offers is an account that can be selected; once all are answered, and the
\* last answer was the one for the text of the field, the menu shows what was found for
\* it (project-acl.js, userLookup; bootstrap.js, process).
THEOREM MenuUsable == FieldSpec => []MenuCanBeUsed
<1>1. MenuInv => MenuCanBeUsed  BY DEF MenuInv, MenuCanBeUsed
<1> QED  BY FieldStart, MenuStep, <1>1, PTL DEF FieldSpec

-----------------------------------------------------------------------------

(* The field that configures a choice.                                       *)

\* Between the choice and its display, what is being loaded is for the choice.
Calmly ==
  ~hurried =>
    \/ scripts = {} /\ templates = {} /\ choice = Nothing
    \/ scripts = {choice} /\ templates = {} /\ choice \in Choice
    \/ /\ scripts = {} /\ templates = {choice} /\ choice \in Choice
       /\ controller = choice /\ boxShown
    \/ /\ Loaded /\ choice \in Choice /\ controller = choice /\ boxShown
       /\ box = choice \/ (box = Nothing /\ choice \in Unconfigured)

LEMMA CalmStep ==
  ASSUME Calmly, [ChoiceNext]_fieldState, Nothing \notin Choice
  PROVE  Calmly'
<1> USE DEF Calmly, Loaded
<1>1. CASE Fill  BY <1>1 DEF Fill
<1>2. CASE SendChoice  BY <1>2 DEF SendChoice
<1>3. ASSUME NEW c \in Choice \cup {Nothing}, Choose(c)  PROVE Calmly'
  BY <1>3 DEF Choose
<1>4. ASSUME NEW c \in Choice, Script(c)  PROVE Calmly'
  BY <1>4 DEF Script, Display
<1>5. ASSUME NEW c \in Choice, Template(c)  PROVE Calmly'
  BY <1>5 DEF Template
<1>6. CASE UNCHANGED fieldState  BY <1>6 DEF fieldState
<1> QED  BY <1>1, <1>2, <1>3, <1>4, <1>5, <1>6 DEF ChoiceNext

\* A choice made once the last one was displayed is the one that is displayed and read
\* (jconfigurable.js, onChange), for every number of choices.
THEOREM ConfiguredOnceLoaded == ChoiceSpec => []ConfigurationOnceLoaded
<1>1. ChoiceInit => Calmly  BY DEF ChoiceInit, Calmly
<1>2. Calmly => ConfigurationOnceLoaded
  BY DEF Calmly, ConfigurationOnceLoaded, Loaded
<1> QED  BY <1>1, <1>2, CalmStep, ChoiceAssumption, PTL DEF ChoiceSpec

-----------------------------------------------------------------------------
(* The forms of the accounts.                                                *)

AccountRecord == [mode : Modes \cup {"none"}, role : Roles, password : Typed]
FormRecord == [kind : FormKinds \cup {"none"}, login : Login \cup {Untyped}, mode : Modes, role : Roles,
               old : Typed, password : Typed, confirm : Typed, shown : BOOLEAN, required : BOOLEAN,
               error : BOOLEAN]
CallRecord == [kind : FormKinds \cup {"none", "language"}, login : Login \cup Lang \cup {Untyped},
               mode : Modes, role : Roles, old : Typed, password : Typed,
               outcome : {"pending", "ok", "refused"}, heard : BOOLEAN]

AccountsTypeOK ==
  /\ accounts \in [Login -> AccountRecord]
  /\ form \in FormRecord
  /\ calls \subseteq CallRecord

\* A call that sets a password of an account of the application sends one that was typed
\* twice, or an empty one, which the server refuses.
SendsTyped(call) ==
  \/ call.kind \in {"update", "language", "none"}
  \/ call.kind = "create" /\ (call.mode # "builtin" \/ call.password = Untyped)
  \/ <<call.login, call.password>> \in twice

\* Passwords are required by the forms that have no mode to choose.
PasswordsInv ==
  /\ AccountsTypeOK
  /\ form.kind \in {"reset", "own"} => form.mode = "builtin" /\ form.required
  /\ \A call \in calls : SendsTyped(call)
  /\ PasswordsConfirmed

\* Calls that were sent, served or left by the page, say what they said.
SaysAs(call, c) == /\ call.kind = c.kind /\ call.login = c.login
                   /\ call.mode = c.mode /\ call.password = c.password

SameCalls(said) == said \subseteq CallRecord /\ \A call \in said : \E c \in calls : SaysAs(call, c)

WithOutcome(call, outcome) == [call EXCEPT !.outcome = outcome]
NotHeard(call) == [call EXCEPT !.heard = FALSE]

LEMMA CallFacts ==
  ASSUME NEW call \in CallRecord, NEW outcome \in {"pending", "ok", "refused"}
  PROVE  /\ WithOutcome(call, outcome) \in CallRecord /\ SaysAs(WithOutcome(call, outcome), call)
         /\ NotHeard(call) \in CallRecord /\ SaysAs(NotHeard(call), call)
  BY DEF CallRecord, WithOutcome, NotHeard, SaysAs

LEMMA UnheardFacts ==
  ASSUME AccountsTypeOK
  PROVE  SameCalls(Unheard)
<1>1. Unheard = {NotHeard(c) : c \in {d \in calls : d.outcome = "pending"}}
  BY DEF Unheard, NotHeard
<1>2. \A c \in calls : NotHeard(c) \in CallRecord /\ SaysAs(NotHeard(c), c)
  BY CallFacts DEF AccountsTypeOK
<1> QED  BY <1>1, <1>2 DEF SameCalls

LEMMA AnsweredFacts ==
  ASSUME AccountsTypeOK, NEW call \in calls, NEW outcome \in {"ok", "refused"}
  PROVE  SameCalls(Answered(call, outcome))
<1>1. Answered(call, outcome)
        = (calls \ {call}) \cup IF call.heard THEN {WithOutcome(call, outcome)} ELSE {}
  BY DEF Answered, WithOutcome
<1>2. WithOutcome(call, outcome) \in CallRecord /\ SaysAs(WithOutcome(call, outcome), call)
  BY CallFacts DEF AccountsTypeOK
<1>3. \A c \in calls : c \in CallRecord /\ SaysAs(c, c)  BY DEF AccountsTypeOK, SaysAs
<1> QED  BY <1>1, <1>2, <1>3 DEF SameCalls

\* Steps that change no account, and send nothing new.
LEMMA NothingSent ==
  ASSUME PasswordsInv, UNCHANGED accounts, twice \subseteq twice',
         SameCalls(calls'), form' \in FormRecord,
         form'.kind \in {"reset", "own"} => form'.mode = "builtin" /\ form'.required
  PROVE  PasswordsInv'
<1>1. \A call \in calls' : SendsTyped(call)'  BY DEF PasswordsInv, SameCalls, SaysAs, SendsTyped
<1> QED  BY <1>1 DEF PasswordsInv, AccountsTypeOK, PasswordsConfirmed, SameCalls

LEMMA FormFacts ==
  ASSUME NEW f \in FormRecord, NEW t \in Typed, NEW role \in Roles,
         NEW g, \/ g = [f EXCEPT !.old = t]
                \/ g = [f EXCEPT !.password = t]
                \/ g = [f EXCEPT !.confirm = t]
                \/ g = [f EXCEPT !.role = role]
  PROVE  /\ g \in FormRecord
         /\ g.kind = f.kind /\ g.mode = f.mode /\ g.required = f.required
  BY DEF FormRecord

LEMMA ErrorFacts ==
  ASSUME NEW f \in FormRecord, NEW g \in {f, [f EXCEPT !.error = TRUE]}
  PROVE  /\ g \in FormRecord
         /\ g.kind = f.kind /\ g.mode = f.mode /\ g.required = f.required
  BY DEF FormRecord

-----------------------------------------------------------------------------

LEMMA OpenedFacts ==
  ASSUME NEW kind \in FormKinds, NEW l \in Login
  PROVE  /\ Opened(kind, l) \in FormRecord
         /\ Opened(kind, l).mode = "builtin"
         /\ kind \in {"reset", "own"} => Opened(kind, l).required
<1> DEFINE visible == kind # "update"
<1>1. visible \in BOOLEAN  OBVIOUS
<1>2. NoForm \in FormRecord /\ NoForm.mode = "builtin"
  BY DEF NoForm, FormRecord, Typed, FormKinds, Modes, Roles
<1>3. Opened(kind, l) = [NoForm EXCEPT !.kind = kind, !.login = l, !.shown = visible,
                                       !.required = visible]
  BY DEF Opened
<1>4. kind \in {"reset", "own"} => visible  OBVIOUS
<1> HIDE DEF visible
<1> QED  BY <1>1, <1>2, <1>3, <1>4 DEF FormRecord

LEMMA ModeFacts ==
  ASSUME NEW f \in FormRecord, NEW mode \in Modes, NEW b \in BOOLEAN
  PROVE  LET g == [f EXCEPT !.mode = mode, !.shown = b, !.required = b]
         IN  g \in FormRecord /\ g.kind = f.kind
  BY DEF FormRecord

\* What the form sends sets a password that was typed twice: the browser asks for both
\* fields, and the page compares them.
LEMMA SubmitFacts ==
  ASSUME PasswordsInv, SubmitAccount, Confirmed(form)
  PROVE  Values \in CallRecord /\ SendsTyped(Values)'
<1>1. form \in FormRecord  BY DEF PasswordsInv, AccountsTypeOK
<1>2. Values \in CallRecord  BY <1>1 DEF Values, FormRecord, CallRecord
<1>3. /\ Values'.kind = form.kind /\ Values'.login = form.login
      /\ Values'.mode = form.mode /\ Values'.password = form.password
  <2>1. form' = form  BY DEF SubmitAccount
  <2> QED  BY <2>1 DEF Values
<1>4. form.password = form.confirm /\ form.password # Untyped => <<form.login, form.password>> \in twice'
  BY DEF SubmitAccount
<1>5. CASE form.kind \in {"reset", "own"}
  BY <1>2, <1>3, <1>4, <1>5 DEF PasswordsInv, Confirmed, SubmitAccount, Submittable, SendsTyped
<1>6. CASE form.kind = "create"
  BY <1>2, <1>3, <1>4, <1>6 DEF Confirmed, SendsTyped
<1>7. CASE form.kind \in {"update", "none"}  BY <1>2, <1>3, <1>7 DEF SendsTyped
<1> QED  BY <1>1, <1>2, <1>5, <1>6, <1>7 DEF FormRecord, FormKinds

LEMMA ChangedFacts ==
  ASSUME NEW account \in AccountRecord, NEW call \in CallRecord
  PROVE  /\ Changed(account, call) \in AccountRecord
         /\ \/ Changed(account, call).mode = account.mode
               /\ Changed(account, call).password = account.password
            \/ /\ call.kind = "create"
               /\ Changed(account, call).mode = call.mode
               /\ Changed(account, call).password = call.password
            \/ /\ call.kind \in {"reset", "own"}
               /\ Changed(account, call).password = call.password
<1>1. call.mode \in Modes /\ call.role \in Roles /\ call.password \in Typed  BY DEF CallRecord
<1>2. CASE call.kind = "create"
  <2>1. Changed(account, call) = [mode |-> call.mode, role |-> call.role, password |-> call.password]
    BY <1>2 DEF Changed
  <2> QED  BY <1>1, <1>2, <2>1 DEF AccountRecord
<1>3. CASE call.kind = "update"
  <2>1. Changed(account, call) = [account EXCEPT !.role = call.role]  BY <1>3 DEF Changed
  <2>2. \A role \in Roles : LET a == [account EXCEPT !.role = role]
                            IN  /\ a \in AccountRecord
                                /\ a.mode = account.mode /\ a.password = account.password
    BY DEF AccountRecord
  <2> QED  BY <1>1, <2>1, <2>2
<1>4. CASE call.kind \in {"reset", "own"} /\ account.mode = "builtin"
  <2>1. Changed(account, call) = [account EXCEPT !.password = call.password]  BY <1>4 DEF Changed
  <2>2. \A p \in Typed : LET a == [account EXCEPT !.password = p]
                         IN  a \in AccountRecord /\ a.password = p
    BY DEF AccountRecord
  <2> QED  BY <1>1, <1>4, <2>1, <2>2
<1>5. CASE /\ call.kind \notin {"create", "update"}
           /\ ~(call.kind \in {"reset", "own"} /\ account.mode = "builtin")
  <2>1. Changed(account, call) = account  BY <1>5 DEF Changed
  <2> QED  BY <2>1
<1> QED  BY <1>2, <1>3, <1>4, <1>5

LEMMA PasswordsStep ==
  ASSUME PasswordsInv, [AccountsNext]_accountsVars
  PROVE  PasswordsInv'
<1>0. AccountsTypeOK /\ form \in FormRecord /\ calls \subseteq CallRecord
  BY DEF PasswordsInv, AccountsTypeOK
<1>1. SameCalls(calls)  BY <1>0 DEF SameCalls, SaysAs
<1>2. NoForm \in FormRecord /\ NoForm.kind = "none"
  BY DEF NoForm, FormRecord, Typed, FormKinds, Modes, Roles
<1>3. ASSUME UNCHANGED <<accounts, calls, twice>>, form' \in FormRecord,
             form'.kind \in {"reset", "own"} => form'.mode = "builtin" /\ form'.required
      PROVE  PasswordsInv'
  BY <1>1, <1>3, NothingSent
<1>4. ASSUME NEW kind \in FormKinds, NEW l \in Login, OpenForm(kind, l)  PROVE PasswordsInv'
  <2>1. Opened(kind, l).kind = kind
    BY DEF Opened, NoForm
  <2> QED  BY <1>3, <1>4, <2>1, OpenedFacts DEF OpenForm
<1>5. CASE LeaveForm  BY <1>2, <1>3, <1>5 DEF LeaveForm
<1>6. ASSUME NEW mode \in Modes, ChooseMode(mode)  PROVE PasswordsInv'
  <2> DEFINE b == mode = "builtin"
  <2>1. b \in BOOLEAN  OBVIOUS
  <2>2. form' = [form EXCEPT !.mode = mode, !.shown = b, !.required = b]
    BY <1>6 DEF ChooseMode
  <2> HIDE DEF b
  <2>3. form' \in FormRecord /\ form'.kind = form.kind  BY <1>0, <2>1, <2>2, ModeFacts
  <2> QED  BY <1>3, <1>6, <2>3 DEF ChooseMode
<1>7. ASSUME UNCHANGED <<accounts, calls, twice>>,
             \E t \in Typed, role \in Roles :
               form' \in {[form EXCEPT !.old = t], [form EXCEPT !.password = t],
                          [form EXCEPT !.confirm = t], [form EXCEPT !.role = role]}
      PROVE  PasswordsInv'
  <2>1. /\ form' \in FormRecord
        /\ form'.kind = form.kind /\ form'.mode = form.mode /\ form'.required = form.required
    <3>1. PICK t \in Typed, role \in Roles :
            \/ form' = [form EXCEPT !.old = t]
            \/ form' = [form EXCEPT !.password = t]
            \/ form' = [form EXCEPT !.confirm = t]
            \/ form' = [form EXCEPT !.role = role]
      BY <1>7
    <3> QED  BY <1>0, <3>1, FormFacts
  <2> QED  BY <1>3, <1>7, <2>1 DEF PasswordsInv
<1>8. ASSUME NEW role \in Roles, ChooseRole(role)  PROVE PasswordsInv'
  <2>1. Untyped \in Typed  BY DEF Typed
  <2> QED  BY <1>7, <1>8, <2>1 DEF ChooseRole
<1>9. ASSUME NEW t \in Typed, TypeOld(t) \/ TypePassword(t) \/ TypeConfirm(t)  PROVE PasswordsInv'
  <2>1. "ROLE_USER" \in Roles  BY DEF Roles
  <2> QED  BY <1>7, <1>9, <2>1 DEF TypeOld, TypePassword, TypeConfirm
<1>10. CASE SubmitAccount
  <2>0. UNCHANGED accounts /\ twice \subseteq twice'  BY <1>10 DEF SubmitAccount
  <2>1. CASE Confirmed(form)
    <3>1. calls' = calls \cup {Values} /\ form' = form  BY <1>10, <2>1 DEF SubmitAccount
    <3>2. Values \in CallRecord /\ SendsTyped(Values)'  BY <1>10, <2>1, SubmitFacts
    <3>3. \A call \in calls' : SendsTyped(call)'
      <4>1. \A call \in calls : SendsTyped(call)'  BY <2>0 DEF PasswordsInv, SendsTyped
      <4>2. Values' = Values  BY <3>1 DEF Values
      <4> QED  BY <3>1, <3>2, <4>1, <4>2
    <3> QED  BY <1>0, <2>0, <3>1, <3>2, <3>3
             DEF PasswordsInv, AccountsTypeOK, PasswordsConfirmed
  <2>2. CASE ~Confirmed(form)
    <3>1. form' = [form EXCEPT !.error = TRUE] /\ calls' = calls
      BY <1>10, <2>2 DEF SubmitAccount
    <3>2. /\ form' \in FormRecord
          /\ form'.kind = form.kind /\ form'.mode = form.mode /\ form'.required = form.required
      <4>1. form' \in {form, [form EXCEPT !.error = TRUE]}  BY <3>1
      <4> QED  BY <1>0, <4>1, ErrorFacts
    <3> QED  BY <1>1, <2>0, <3>1, <3>2, NothingSent DEF PasswordsInv
  <2> QED  BY <2>1, <2>2
<1>11. ASSUME NEW lang \in Lang, ChooseLanguage(lang)  PROVE PasswordsInv'
  <2> DEFINE call == [Values EXCEPT !.kind = "language", !.login = lang]
  <2>1. Values \in CallRecord  BY <1>0 DEF Values, FormRecord, CallRecord
  <2>2. call \in CallRecord /\ call.kind = "language"  BY <2>1 DEF CallRecord
  <2>3. UNCHANGED <<accounts, form, twice>> /\ calls' = calls \cup {call}
    BY <1>11 DEF ChooseLanguage
  <2> HIDE DEF call
  <2>4. \A c \in calls' : SendsTyped(c)'  BY <2>2, <2>3 DEF PasswordsInv, SendsTyped
  <2> QED  BY <1>0, <2>2, <2>3, <2>4 DEF PasswordsInv, AccountsTypeOK, PasswordsConfirmed
<1>12. ASSUME NEW call \in calls, ServeAccount(call)  PROVE PasswordsInv'
  <2>1. SameCalls(calls') /\ UNCHANGED <<form, twice>>
    BY <1>0, <1>12, AnsweredFacts DEF ServeAccount
  <2>2. CASE Refused(call)
    <3>1. accounts' = accounts  BY <1>12, <2>2 DEF ServeAccount
    <3> QED  BY <1>0, <2>1, <3>1, NothingSent DEF PasswordsInv
  <2>3. CASE ~Refused(call)
    <3>1. accounts' = [accounts EXCEPT ![call.login] = Changed(accounts[call.login], call)]
      BY <1>12, <2>3 DEF ServeAccount
    <3>2. call \in CallRecord /\ SendsTyped(call)  BY <1>0 DEF PasswordsInv
    <3>3. ASSUME NEW c \in calls'  PROVE SendsTyped(c)'
      <4>1. PICK d \in calls : SaysAs(c, d)  BY <2>1 DEF SameCalls
      <4>2. SendsTyped(d)  BY DEF PasswordsInv
      <4> QED  BY <2>1, <4>1, <4>2 DEF SaysAs, SendsTyped
    <3>4. ASSUME NEW l \in Login
          PROVE  /\ accounts'[l] \in AccountRecord
                 /\ accounts'[l].mode = "builtin" => <<l, accounts'[l].password>> \in twice
      <4>1. CASE l # call.login
        <5>1. accounts'[l] = accounts[l]  BY <3>1, <4>1, <1>0 DEF AccountsTypeOK
        <5> QED  BY <1>0, <5>1 DEF PasswordsInv, PasswordsConfirmed, AccountsTypeOK
      <4>2. CASE l = call.login
        <5>1. accounts[l] \in AccountRecord  BY <1>0 DEF AccountsTypeOK
        <5>2. accounts'[l] = Changed(accounts[l], call)
          BY <3>1, <4>2, <1>0 DEF AccountsTypeOK
        <5>3. ~(call.kind = "create" /\ call.mode = "builtin" /\ call.password = Untyped)
          BY <2>3 DEF Refused
        <5>4. accounts[l].mode = "builtin" => <<l, accounts[l].password>> \in twice
          BY DEF PasswordsInv, PasswordsConfirmed
        <5> HIDE DEF SendsTyped
        <5>5. CASE /\ Changed(accounts[l], call).mode = accounts[l].mode
                   /\ Changed(accounts[l], call).password = accounts[l].password
          BY <3>2, <5>1, <5>2, <5>4, <5>5, ChangedFacts
        <5>6. CASE /\ call.kind = "create"
                   /\ Changed(accounts[l], call).mode = call.mode
                   /\ Changed(accounts[l], call).password = call.password
          BY <3>2, <4>2, <5>1, <5>2, <5>3, <5>6, ChangedFacts DEF SendsTyped
        <5>7. CASE /\ call.kind \in {"reset", "own"}
                   /\ Changed(accounts[l], call).password = call.password
          BY <3>2, <4>2, <5>1, <5>2, <5>7, ChangedFacts DEF SendsTyped
        <5> QED  BY <3>2, <5>1, <5>5, <5>6, <5>7, ChangedFacts
      <4> QED  BY <4>1, <4>2
    <3>5. accounts' \in [Login -> AccountRecord]
      BY <1>0, <3>1, <3>4 DEF AccountsTypeOK
    <3> QED  BY <1>0, <2>1, <3>3, <3>4, <3>5
             DEF PasswordsInv, AccountsTypeOK, PasswordsConfirmed, SameCalls
  <2> QED  BY <2>2, <2>3
<1>13. ASSUME NEW call \in calls, ServeLanguage(call)  PROVE PasswordsInv'
  <2>1. SameCalls(calls') /\ UNCHANGED <<accounts, form, twice>>
    BY <1>0, <1>13, AnsweredFacts DEF ServeLanguage
  <2> QED  BY <1>0, <2>1, NothingSent DEF PasswordsInv
<1>14. ASSUME UNCHANGED <<accounts, twice>>, calls' = Unheard, form' \in {form, NoForm}
       PROVE  PasswordsInv'
  BY <1>0, <1>2, <1>14, UnheardFacts, NothingSent DEF PasswordsInv
<1>15. ASSUME NEW call \in calls, AccountDone(call)  PROVE PasswordsInv'
  BY <1>14, <1>15 DEF AccountDone
<1>16. ASSUME NEW call \in calls, AccountNotDone(call)  PROVE PasswordsInv'
  <2>1. CASE call.kind = "own"  BY <1>14, <1>16, <2>1 DEF AccountNotDone
  <2>2. CASE call.kind # "own"
    <3>1. /\ UNCHANGED <<accounts, twice>> /\ calls' = calls \ {call}
          /\ form' \in {form, [form EXCEPT !.error = TRUE]}
      BY <1>16, <2>2 DEF AccountNotDone
    <3>2. /\ form' \in FormRecord
          /\ form'.kind = form.kind /\ form'.mode = form.mode /\ form'.required = form.required
      BY <1>0, <3>1, ErrorFacts
    <3>3. SameCalls(calls')  BY <1>1, <3>1 DEF SameCalls
    <3> QED  BY <3>1, <3>2, <3>3, NothingSent DEF PasswordsInv
  <2> QED  BY <2>1, <2>2
<1>17. CASE SignIn  BY <1>14, <1>17 DEF SignIn
<1>18. ASSUME NEW lang \in Lang, ReplaceLanguage(lang) \/ AddLanguage(lang)  PROVE PasswordsInv'
  <2>1. UNCHANGED <<accounts, form, twice>> /\ calls' \in {calls, Unheard}
    BY <1>18 DEF ReplaceLanguage, AddLanguage
  <2> QED  BY <1>0, <1>1, <2>1, UnheardFacts, NothingSent DEF PasswordsInv
<1>19. CASE UNCHANGED accountsVars
  BY <1>0, <1>3, <1>19 DEF accountsVars, PasswordsInv
<1> QED  BY <1>4, <1>5, <1>6, <1>8, <1>9, <1>10, <1>11, <1>12, <1>13, <1>15, <1>16, <1>17, <1>18, <1>19
         DEF AccountsNext

LEMMA PasswordsStart == AccountsInit => PasswordsInv
<1> SUFFICES ASSUME AccountsInit  PROVE PasswordsInv  OBVIOUS
<1>1. NoForm \in FormRecord /\ NoForm.kind = "none"
  BY DEF NoForm, FormRecord, Typed, FormKinds, Modes, Roles
<1>2. NoAccount \in AccountRecord /\ NoAccount.mode = "none"
  BY DEF NoAccount, AccountRecord, Typed, Modes, Roles
<1> QED  BY <1>1, <1>2 DEF AccountsInit, PasswordsInv, AccountsTypeOK, PasswordsConfirmed

\* Whatever modes were chosen on the way, whatever the order of the answers, and however
\* many accounts there are: an account of the application has a password that was typed
\* twice in one of its forms (accounts.js, account-password.js, password.js).
THEOREM PasswordsTypedTwice == AccountsSpec => []PasswordsConfirmed
<1>1. PasswordsInv => PasswordsConfirmed  BY DEF PasswordsInv
<1> QED  BY PasswordsStart, PasswordsStep, <1>1, PTL DEF AccountsSpec


-----------------------------------------------------------------------------
(* The forms of the dialogs.                                                 *)

\* While forms are opened one by one and left by their buttons, one at most is asked
\* for or open, and the page has it alone.
Tidy ==
  \/ stack = <<>> /\ dom = <<>> /\ \A p, q \in Opening : Asking(p) /\ Asking(q) => p = q
  \/ \E o \in Opening :
       /\ stack = <<o>> /\ dom = IF IsForm(o) THEN <<o>> ELSE <<>>
       /\ openings[o].kind \in Kinds
       /\ \A p \in Opening : ~Asking(p)

\* A name is typed in a form that was opened.
TypedInForms == \A o \in Opening : typed[o] # NoName => IsForm(o) /\ openings[o].shown

FormsInv ==
  /\ openings \in [Opening -> OpeningOf]
  /\ typed \in [Opening -> Name \cup {NoName}]
  /\ ~untidy => Tidy /\ TypedInForms /\ posts \subseteq PostOf /\ PostedTidily

LEMMA FormsStart == FormsInit => FormsInv
<1> SUFFICES ASSUME FormsInit  PROVE FormsInv  OBVIOUS
<1>1. openings = [o \in Opening |-> Unused] /\ stack = <<>> /\ dom = <<>> /\ posts = {}
      /\ typed = [o \in Opening |-> NoName]
  BY DEF FormsInit
<1>2. \A p \in Opening : ~Asking(p)
  BY <1>1 DEF Asking, Unused, Kinds, Forms, Prompts
<1>3. openings \in [Opening -> OpeningOf]  BY <1>1 DEF OpeningOf, Unused
<1> QED  BY <1>1, <1>2, <1>3 DEF FormsInv, Tidy, TypedInForms, PostedTidily

\* Clicks, data and failures, and what is sent, before and after.
LEMMA PostKeeps ==
  ASSUME FormsInv, ~untidy, NEW o \in Opening, NEW x \in Name \cup {NoName},
         typed[o] = x, openings[o].kind \in Kinds, Post(o, x)
  PROVE  posts' \subseteq PostOf /\ \A post \in posts' : post.name = post.seen
  BY DEF FormsInv, Post, PostOf, PostedTidily

LEMMA ReplyKeeps ==
  ASSUME FormsInv, ~untidy, NEW post \in posts, NEW outcome \in {"ok", "refused"},
         ReplyTo(post, outcome)
  PROVE  posts' \subseteq PostOf /\ \A p \in posts' : p.name = p.seen
<1>1. post \in PostOf /\ post.name = post.seen  BY DEF FormsInv, PostedTidily
<1>2. ASSUME NEW p, p = [post EXCEPT !.outcome = outcome]
      PROVE  p \in PostOf /\ p.name = p.seen
  BY <1>1, <1>2 DEF PostOf
<1> QED  BY <1>2 DEF ReplyTo, FormsInv, PostedTidily

\* Nothing is left open, or asked for, but what was asked for before.
LEMMA EmptiedIsTidy ==
  ASSUME FormsInv, ~untidy, stack' = <<>>, dom' = <<>>,
         \A p \in Opening : Asking(p)' => Asking(p)
  PROVE  Tidy'
<1>1. \A p, q \in Opening : Asking(p) /\ Asking(q) => p = q  BY DEF FormsInv, Tidy
<1> QED  BY <1>1 DEF Tidy

LEMMA OverKeeps ==
  ASSUME FormsInv, NEW o \in Opening, Over(o)
  PROVE  /\ openings' \in [Opening -> OpeningOf]
         /\ \A p \in Opening : Asking(p)' => Asking(p)
         /\ TypedInForms /\ typed[o] = NoName /\ UNCHANGED typed => TypedInForms'
<1>1. openings \in [Opening -> OpeningOf]  BY DEF FormsInv
<1>2. openings' = [openings EXCEPT ![o] = [kind |-> "over", got |-> {}, shown |-> FALSE]]
  BY DEF Over
<1>3. openings' \in [Opening -> OpeningOf]  BY <1>1, <1>2 DEF OpeningOf
<1>4. openings'[o].kind = "over" /\ "over" \notin Kinds
  BY <1>1, <1>2 DEF Kinds, Forms, Prompts
<1>5. \A p \in Opening : p # o => openings'[p] = openings[p]  BY <1>1, <1>2
<1>6. \A p \in Opening : Asking(p)' => Asking(p)  BY <1>4, <1>5 DEF Asking
<1>7. ASSUME TypedInForms, typed[o] = NoName, UNCHANGED typed  PROVE TypedInForms'
  BY <1>5, <1>7 DEF TypedInForms, IsForm
<1> QED  BY <1>3, <1>6, <1>7

LEMMA OnlyOneOnTop ==
  ASSUME FormsInv, ~untidy, NEW o \in Opening, OnTop(o)
  PROVE  /\ stack = <<o>> /\ dom = IF IsForm(o) THEN <<o>> ELSE <<>>
         /\ openings[o].kind \in Kinds
         /\ \A p \in Opening : ~Asking(p)
         /\ Popped = <<>>
<1>1. PICK p \in Opening : /\ stack = <<p>> /\ dom = IF IsForm(p) THEN <<p>> ELSE <<>>
                           /\ openings[p].kind \in Kinds
                           /\ \A q \in Opening : ~Asking(q)
  BY DEF FormsInv, Tidy, OnTop
<1>2. p = o  BY <1>1 DEF OnTop, Top
<1>3. Popped = <<>>  BY <1>1 DEF Popped
<1> QED  BY <1>1, <1>2, <1>3

\* The page finds the form itself.
LEMMA OldestIsItself ==
  ASSUME NEW o \in Opening, dom = <<o>>
  PROVE  OldestAt(dom, o) = 1 /\ Oldest(o) = o
<1>1. SameId(dom, o) = {1}  BY DEF SameId
<1>2. OldestAt(dom, o) = 1  BY <1>1 DEF OldestAt
<1> QED  BY <1>2 DEF Oldest


\* What is asked for, shown and put in the page.
LEMMA ClickKeeps ==
  ASSUME FormsInv, NEW o \in Opening, NEW kind \in Kinds, Click(o, kind)
  PROVE  FormsInv'
<1>1. /\ openings \in [Opening -> OpeningOf] /\ openings' = [openings EXCEPT ![o].kind = kind]
      /\ UNCHANGED <<stack, dom, posts>> /\ stack = <<>>
      /\ untidy' = (untidy \/ \E p \in Opening : Asking(p))
      /\ UNCHANGED typed /\ openings[o] = Unused
  BY DEF Click, FormsInv
<1>2. openings' \in [Opening -> OpeningOf]  BY <1>1 DEF OpeningOf
<1>3. ASSUME ~untidy'  PROVE Tidy'
  <2>1. ~untidy /\ \A p \in Opening : ~Asking(p)  BY <1>1, <1>3
  <2>2. \A p \in Opening : p # o => openings'[p] = openings[p]  BY <1>1
  <2>3. \A p \in Opening : Asking(p)' => p = o  BY <2>1, <2>2 DEF Asking
  <2>4. dom = <<>>  BY <1>1, <2>1 DEF FormsInv, Tidy
  <2> QED  BY <1>1, <2>3, <2>4 DEF Tidy
<1>4. ~untidy' => posts' \subseteq PostOf /\ PostedTidily'
  BY <1>1 DEF FormsInv, PostedTidily
<1>5. TypedInForms => TypedInForms'
  <2>1. ~IsForm(o)  BY <1>1 DEF IsForm, Unused, Forms
  <2>2. \A p \in Opening : p # o => openings'[p] = openings[p]  BY <1>1
  <2> QED  BY <1>1, <2>1, <2>2 DEF TypedInForms, IsForm
<1> QED  BY <1>1, <1>2, <1>3, <1>4, <1>5 DEF FormsInv

LEMMA GetDatumKeeps ==
  ASSUME FormsInv, NEW o \in Opening, NEW d \in Datum, GetDatum(o, d)
  PROVE  FormsInv'
<1>1. /\ openings \in [Opening -> OpeningOf]
      /\ openings' = [openings EXCEPT ![o].got = @ \cup {d}]
      /\ UNCHANGED <<stack, dom, posts, typed, untidy>>
  BY DEF GetDatum, FormsInv
<1>2. openings' \in [Opening -> OpeningOf]  BY <1>1 DEF OpeningOf
<1>3. \A p \in Opening : openings'[p].kind = openings[p].kind
                         /\ openings'[p].shown = openings[p].shown
  BY <1>1 DEF OpeningOf
<1>4. /\ \A p \in Opening : Asking(p)' <=> Asking(p)
      /\ \A p \in Opening : IsForm(p)' <=> IsForm(p)
  BY <1>3 DEF Asking, IsForm
<1>5. Tidy => Tidy'
  <2>1. CASE stack = <<>> /\ dom = <<>> /\ \A p, q \in Opening : Asking(p) /\ Asking(q) => p = q
    BY <1>1, <1>4, <2>1 DEF Tidy
  <2>2. CASE \E p \in Opening : /\ stack = <<p>> /\ dom = IF IsForm(p) THEN <<p>> ELSE <<>>
                                /\ openings[p].kind \in Kinds
                                /\ \A q \in Opening : ~Asking(q)
    <3>1. PICK p \in Opening : /\ stack = <<p>> /\ dom = IF IsForm(p) THEN <<p>> ELSE <<>>
                               /\ openings[p].kind \in Kinds
                               /\ \A q \in Opening : ~Asking(q)
      BY <2>2
    <3>2. stack' = <<p>> /\ dom' = IF IsForm(p)' THEN <<p>> ELSE <<>>  BY <1>1, <1>4, <3>1
    <3>3. openings'[p].kind \in Kinds  BY <1>3, <3>1
    <3> QED  BY <1>4, <3>1, <3>2, <3>3 DEF Tidy
  <2> QED  BY <2>1, <2>2 DEF Tidy
<1>6. TypedInForms => TypedInForms'  BY <1>1, <1>3, <1>4 DEF TypedInForms
<1> QED  BY <1>1, <1>2, <1>5, <1>6 DEF FormsInv, PostedTidily

LEMMA NoDatumKeeps ==
  ASSUME FormsInv, NEW o \in Opening, NoDatum(o)
  PROVE  FormsInv'
<1>1. Over(o) /\ Asking(o) /\ UNCHANGED <<stack, dom, posts, typed, untidy>>  BY DEF NoDatum
<1>2. ~untidy => stack = <<>> /\ dom = <<>>  BY <1>1 DEF FormsInv, Tidy
<1>0. ~untidy => typed[o] = NoName  BY <1>1 DEF FormsInv, TypedInForms, Asking
<1>3. /\ openings' \in [Opening -> OpeningOf]
      /\ \A p \in Opening : Asking(p)' => Asking(p)
      /\ ~untidy => TypedInForms'
  BY <1>0, <1>1, OverKeeps DEF FormsInv
<1>4. ~untidy => Tidy'  BY <1>1, <1>2, <1>3, EmptiedIsTidy
<1> QED  BY <1>1, <1>3, <1>4 DEF FormsInv, PostedTidily

LEMMA ShowKeeps ==
  ASSUME FormsInv, NEW o \in Opening, ShowForm(o)
  PROVE  FormsInv'
<1>1. /\ openings \in [Opening -> OpeningOf] /\ Asking(o)
      /\ openings' = [openings EXCEPT ![o].shown = TRUE]
      /\ stack' = Append(stack, o) /\ dom' = IF IsForm(o) THEN Append(dom, o) ELSE dom
      /\ UNCHANGED <<posts, typed, untidy>>
  BY DEF ShowForm, FormsInv
<1>2. openings' \in [Opening -> OpeningOf]  BY <1>1 DEF OpeningOf
<1>3. \A p \in Opening : p # o => openings'[p] = openings[p]  BY <1>1
<1>4. openings'[o].kind = openings[o].kind /\ openings'[o].shown = TRUE
  BY <1>1 DEF OpeningOf
<1>5. ASSUME ~untidy  PROVE Tidy'
  <2>1. stack = <<>> /\ dom = <<>> /\ \A p, q \in Opening : Asking(p) /\ Asking(q) => p = q
    BY <1>1, <1>5 DEF FormsInv, Tidy
  <2>2. \A p \in Opening : ~Asking(p)'
    <3> TAKE p \in Opening
    <3>1. CASE p = o  BY <1>4, <3>1 DEF Asking
    <3>2. CASE p # o  BY <1>1, <1>3, <2>1, <3>2 DEF Asking
    <3> QED  BY <3>1, <3>2
  <2>3. stack' = <<o>>  BY <1>1, <2>1
  <2>4. dom' = IF IsForm(o)' THEN <<o>> ELSE <<>>
    BY <1>1, <1>4, <2>1 DEF IsForm
  <2>5. openings'[o].kind \in Kinds  BY <1>1, <1>4 DEF Asking
  <2> QED  BY <2>2, <2>3, <2>4, <2>5 DEF Tidy
<1>6. TypedInForms => TypedInForms'
  BY <1>1, <1>3, <1>4 DEF TypedInForms, IsForm
<1> QED  BY <1>1, <1>2, <1>5, <1>6 DEF FormsInv, PostedTidily

\* What is sent, and what is closed.
LEMMA SendsKeep ==
  ASSUME FormsInv, NEW o \in Opening, SubmitForm(o) \/ ClickUpload(o)
  PROVE  FormsInv'
<1>1. Form(o) /\ UNCHANGED <<openings, stack, dom, untidy, typed>>
  BY DEF SubmitForm, ClickUpload
<1>2. OnTop(o) /\ IsForm(o)  BY <1>1 DEF Form
<1>3. ASSUME ~untidy
      PROVE  posts' \subseteq PostOf /\ PostedTidily'
  <2>1. dom = <<o>>  BY <1>2, <1>3, OnlyOneOnTop
  <2>2. NameOf(o) = typed[o]  BY <2>1, OldestIsItself DEF NameOf
  <2>3. Post(o, typed[o])  BY <2>2 DEF SubmitForm, ClickUpload
  <2>4. typed[o] \in Name \cup {NoName}  BY DEF FormsInv
  <2>5. openings[o].kind \in Kinds  BY <1>2 DEF IsForm, Kinds
  <2> QED  BY <1>3, <2>3, <2>4, <2>5, PostKeeps DEF PostedTidily
<1>4. (Tidy => Tidy') /\ (TypedInForms => TypedInForms')
  BY <1>1 DEF Tidy, Asking, IsForm, TypedInForms
<1> QED  BY <1>1, <1>3, <1>4 DEF FormsInv

LEMMA PromptKeeps ==
  ASSUME FormsInv, NEW o \in Opening, Confirm(o) \/ Decline(o)
  PROVE  FormsInv'
<1>1. /\ OnTop(o) /\ ~IsForm(o) /\ Over(o) /\ stack' = Popped
      /\ UNCHANGED <<dom, typed, untidy>> /\ (Post(o, NoName) \/ UNCHANGED posts)
  BY DEF Confirm, Decline
<1>0. ~untidy => typed[o] = NoName /\ TypedInForms  BY <1>1 DEF FormsInv, TypedInForms
<1>2. /\ openings' \in [Opening -> OpeningOf]
      /\ \A p \in Opening : Asking(p)' => Asking(p)
      /\ ~untidy => TypedInForms'
  BY <1>0, <1>1, OverKeeps
<1>3. ASSUME ~untidy  PROVE Tidy' /\ posts' \subseteq PostOf /\ PostedTidily'
  <2>1. stack' = <<>> /\ dom' = <<>>  BY <1>1, <1>3, OnlyOneOnTop
  <2>2. Tidy'  BY <1>2, <1>3, <2>1, EmptiedIsTidy
  <2>3. posts' \subseteq PostOf /\ PostedTidily'
    <3>1. CASE Post(o, NoName)
      <4>1. stack = <<o>> /\ openings[o].kind \in Kinds  BY <1>1, <1>3, OnlyOneOnTop
      <4> QED  BY <1>0, <1>3, <3>1, <4>1, PostKeeps DEF PostedTidily
    <3>2. CASE UNCHANGED posts  BY <1>3, <3>2 DEF FormsInv, PostedTidily
    <3> QED  BY <1>1, <3>1, <3>2
  <2> QED  BY <2>2, <2>3
<1> QED  BY <1>1, <1>2, <1>3 DEF FormsInv

LEMMA CancelKeeps ==
  ASSUME FormsInv, NEW o \in Opening, CancelForm(o)
  PROVE  FormsInv'
<1>1. /\ OnTop(o) /\ IsForm(o) /\ UNCHANGED <<openings, posts, typed, untidy>>
      /\ dom' = Closed(dom, o) /\ stack' = RemoveFirst(stack, Oldest(o))
  BY DEF CancelForm, Form
<1>2. ASSUME ~untidy  PROVE Tidy'
  <2>1. stack = <<o>> /\ dom = <<o>>  BY <1>1, <1>2, OnlyOneOnTop
  <2>2. dom' = <<>>  BY <1>1, <2>1, OldestIsItself DEF Closed, RemoveAt
  <2>3. stack' = <<>>
    <3>1. stack' = RemoveFirst(<<o>>, o)  BY <1>1, <2>1, OldestIsItself
    <3> QED  BY <3>1 DEF RemoveFirst, SelectInSeq, RemoveAt, Min
  <2> QED  BY <1>1, <1>2, <2>2, <2>3, EmptiedIsTidy DEF Asking
<1>3. TypedInForms => TypedInForms'  BY <1>1 DEF TypedInForms, IsForm
<1> QED  BY <1>1, <1>2, <1>3 DEF FormsInv, PostedTidily

\* What the server answers.
LEMMA FormsStep ==
  ASSUME FormsInv, [FormsNext]_formsVars
  PROVE  FormsInv'
<1>1. ASSUME UNCHANGED <<openings, stack, dom, typed, untidy>>,
             posts' \subseteq posts \/ \E post \in posts : ReplyTo(post, "ok") \/ ReplyTo(post, "refused")
      PROVE  FormsInv'
  <2>1. ASSUME ~untidy  PROVE posts' \subseteq PostOf /\ PostedTidily'
    <3>1. CASE posts' \subseteq posts
      BY <2>1, <3>1 DEF FormsInv, PostedTidily
    <3>2. ASSUME NEW post \in posts, ReplyTo(post, "ok") \/ ReplyTo(post, "refused")
          PROVE  posts' \subseteq PostOf /\ PostedTidily'
      BY <2>1, <3>2, ReplyKeeps DEF PostedTidily
    <3> QED  BY <1>1, <3>1, <3>2
  <2>2. (Tidy => Tidy') /\ (TypedInForms => TypedInForms')
    BY <1>1 DEF Tidy, Asking, IsForm, TypedInForms
  <2> QED  BY <1>1, <2>1, <2>2 DEF FormsInv
<1>2. ASSUME UNCHANGED <<openings, typed, untidy>>, stack' = <<>>, dom' = <<>>, posts' = {}
      PROVE  FormsInv'
  <2>1. \A p \in Opening : Asking(p)' => Asking(p)  BY <1>2 DEF Asking
  <2>2. ~untidy => Tidy'  BY <1>2, <2>1, EmptiedIsTidy
  <2>3. TypedInForms => TypedInForms'  BY <1>2 DEF TypedInForms, IsForm
  <2> QED  BY <1>2, <2>2, <2>3 DEF FormsInv, PostedTidily
<1>3. ASSUME NEW post \in posts,
             ServePost(post) \/ Done(post) \/ NotDone(post) \/ LosePost(post)
      PROVE  FormsInv'
  <2>1. CASE ServePost(post)  BY <1>1, <2>1 DEF ServePost
  <2>2. CASE Done(post)  BY <1>2, <2>2 DEF Done, Leave
  <2>3. CASE NotDone(post)
    <3>1. CASE Leave  BY <1>2, <3>1 DEF Leave
    <3>2. CASE ~Leave  BY <1>1, <2>3, <3>2 DEF NotDone
    <3> QED  BY <3>1, <3>2
  <2>4. CASE LosePost(post)  BY <1>1, <2>4 DEF LosePost
  <2> QED  BY <1>3, <2>1, <2>2, <2>3, <2>4
<1>4. CASE CloseAlert \/ UNCHANGED formsVars  BY <1>1, <1>4 DEF CloseAlert, formsVars
<1>5. ASSUME NEW o \in Opening, NEW n \in Name, TypeName(o, n)  PROVE FormsInv'
  <2>1. /\ OnTop(o) /\ IsForm(o) /\ UNCHANGED <<openings, stack, dom, posts, untidy>>
        /\ typed' = [typed EXCEPT ![o] = n]
    BY <1>5 DEF TypeName, Form
  <2>2. typed' \in [Opening -> Name \cup {NoName}]  BY <2>1 DEF FormsInv
  <2>3. Tidy => Tidy'  BY <2>1 DEF Tidy, Asking, IsForm
  <2>4. ASSUME ~untidy  PROVE TypedInForms'
    <3>1. ~Asking(o)  BY <2>1, <2>4, OnlyOneOnTop
    <3>2. openings[o].shown  BY <2>1, <3>1 DEF Asking, IsForm, Kinds
    <3> QED  BY <2>1, <2>4, <3>2 DEF FormsInv, TypedInForms, IsForm
  <2> QED  BY <2>1, <2>2, <2>3, <2>4 DEF FormsInv, PostedTidily
<1>6. ASSUME NEW o \in Opening, HideForm(o)  PROVE FormsInv'
  BY <1>6 DEF HideForm, FormsInv
<1>7. ASSUME NEW o \in Opening, SubmitThrows(o)  PROVE FormsInv'
  BY <1>1, <1>7 DEF SubmitThrows
<1> QED
  BY <1>3, <1>4, <1>5, <1>6, <1>7, ClickKeeps, GetDatumKeeps, NoDatumKeeps, ShowKeeps, SendsKeep,
     PromptKeeps, CancelKeeps
     DEF FormsNext

\* Posts are records, and those of forms that look into themselves have the name shown.
OwnPosts ==
  \A post \in posts :
    /\ post = [by |-> post.by, kind |-> post.kind, name |-> post.name, seen |-> post.seen,
               outcome |-> post.outcome]
    /\ post.kind \in DOMAIN Forms /\ ~About(post.kind).readsPage => post.name = post.seen

LEMMA OwnPostsSent ==
  ASSUME OwnPosts, NEW o \in Opening, NEW x, Post(o, x),
         IsForm(o) /\ ~About(openings[o].kind).readsPage => x = typed[o]
  PROVE  OwnPosts'
<1> DEFINE sentPost == [by |-> o, kind |-> openings[o].kind, name |-> x, seen |-> typed[o],
                        outcome |-> "pending"]
<1>1. posts' = posts \cup {sentPost}  BY DEF Post
<1>2. sentPost.kind \in DOMAIN Forms /\ ~About(sentPost.kind).readsPage => sentPost.name = sentPost.seen
  BY DEF IsForm
<1> QED  BY <1>1, <1>2 DEF OwnPosts

LEMMA OwnPostsAnswered ==
  ASSUME OwnPosts, NEW post \in posts, NEW outcome, ReplyTo(post, outcome)
  PROVE  OwnPosts'
<1> DEFINE answered == [post EXCEPT !.outcome = outcome]
<1>1. answered = [by |-> post.by, kind |-> post.kind, name |-> post.name, seen |-> post.seen,
                  outcome |-> outcome]
  BY DEF OwnPosts
<1> HIDE DEF answered
<1>2. posts' = (posts \ {post}) \cup {answered}  BY DEF ReplyTo, answered
<1> QED  BY <1>1, <1>2 DEF OwnPosts

LEMMA OwnPostsStep ==
  ASSUME OwnPosts, [FormsNext]_formsVars
  PROVE  OwnPosts'
<1>1. ASSUME posts' \subseteq posts  PROVE OwnPosts'
  BY <1>1 DEF OwnPosts
<1>2. ASSUME NEW o \in Opening, SubmitForm(o) \/ ClickUpload(o)  PROVE OwnPosts'
  BY <1>2, OwnPostsSent DEF SubmitForm, ClickUpload, NameOf
<1>3. ASSUME NEW o \in Opening, Confirm(o) \/ Decline(o)  PROVE OwnPosts'
  BY <1>1, <1>3, OwnPostsSent DEF Confirm, Decline
<1>4. ASSUME NEW post \in posts,
             ServePost(post) \/ Done(post) \/ NotDone(post) \/ LosePost(post)
      PROVE  OwnPosts'
  <2>1. CASE ServePost(post)  BY <2>1, OwnPostsAnswered DEF ServePost
  <2>2. CASE Done(post) \/ NotDone(post) \/ LosePost(post)
    BY <1>1, <2>2 DEF Done, NotDone, LosePost, Leave
  <2> QED  BY <1>4, <2>1, <2>2
<1>5. ASSUME NEW o \in Opening,
             \/ NoDatum(o) \/ ShowForm(o) \/ SubmitThrows(o) \/ CancelForm(o) \/ HideForm(o)
             \/ \E kind \in Kinds : Click(o, kind)
             \/ \E d \in Datum : GetDatum(o, d)
             \/ \E n \in Name : TypeName(o, n)
      PROVE  OwnPosts'
  BY <1>1, <1>5 DEF NoDatum, ShowForm, SubmitThrows, CancelForm, HideForm, Click, GetDatum,
                    TypeName
<1>6. CASE CloseAlert \/ UNCHANGED formsVars  BY <1>1, <1>6 DEF CloseAlert, formsVars
<1> QED  BY <1>2, <1>3, <1>4, <1>5, <1>6 DEF FormsNext

\* A form posts the name it shows: also beside forms that were hidden, when it looks for
\* its fields in itself, and as long as forms are opened one by one and left by their
\* buttons, when it looks for them in the page (lib/dialog.js, app/component).
THEOREM FormsPostWhatTheyShow == FormsSpec => []PostsWhatIsShown
<1>1. FormsInit => OwnPosts  BY DEF FormsInit, OwnPosts
<1>2. FormsInv /\ OwnPosts => PostsWhatIsShown
  BY DEF FormsInv, OwnPosts, PostsWhatIsShown, PostedTidily, PostedByOwnFields
<1> QED  BY <1>1, <1>2, FormsStart, FormsStep, OwnPostsStep, PTL DEF FormsSpec

-----------------------------------------------------------------------------
(* The templates: recursion over the programs of the blocks.                 *)

LEMMA Induction ==
  ASSUME NEW S, 0 \in S, \A n \in Nat : n \in S => n + 1 \in S
  PROVE  Nat \subseteq S
<1>1. SUFFICES ASSUME Nat \ S # {} PROVE FALSE  OBVIOUS
<1>2. PICK n \in Nat \ S : \A m \in Nat \ S : <<m, n>> \notin OpToRel(<, Nat)
  BY <1>1, NatLessThanWellFounded, WFMin
<1>3. \A m \in Nat \ S : ~(m < n)  BY <1>2 DEF OpToRel
<1>4. n # 0 /\ n - 1 \in Nat /\ n - 1 \in S  BY <1>3
<1> QED  BY <1>4

\* The programs with less than n blocks one in the other.
Below(n) == {p \in Program : Nesting[p] < n}

LEMMA InsideIsBelow ==
  ASSUME NEW p \in Program
  PROVE  /\ Nesting[p] \in Nat
         /\ \A q \in Inside(p) : q \in Program /\ Nesting[q] \in Nat /\ Nesting[q] < Nesting[p]
<1>1. \A q \in Program : Nesting[q] \in Nat  BY ProgramAssumption
<1> SUFFICES ASSUME NEW q \in Inside(p)  PROVE q \in Program /\ Nesting[q] < Nesting[p]
  BY <1>1
<1>2. PICK i \in DOMAIN p : p[i].type = "block" /\ q \in {p[i].program, p[i].inverse}
  BY DEF Inside
<1>3. p[i] \in BlockNode
  <2>1. p \in Seq(ContentNode \cup MustacheNode \cup BlockNode)  BY ProgramAssumption
  <2>2. p[i] \in ContentNode \cup MustacheNode \cup BlockNode
    <3> HIDE DEF ContentNode, MustacheNode, BlockNode
    <3> QED  BY <2>1
  <2> QED  BY <1>2, <2>2 DEF ContentNode, MustacheNode, BlockNode
<1>4. ValidNode(p[i], Nesting[p])  BY ProgramAssumption
<1>5. Nesting[p[i].program] < Nesting[p] /\ Nesting[p[i].inverse] < Nesting[p]
  BY <1>2, <1>4 DEF ValidNode
<1>6. p[i].program \in Program /\ p[i].inverse \in Program  BY <1>3 DEF BlockNode
<1> QED  BY <1>2, <1>5, <1>6

LEMMA BelowTheNext ==
  ASSUME NEW n \in Nat, NEW p \in Below(n + 1)
  PROVE  p \in Program /\ Inside(p) \subseteq Below(n) /\ Inside(p) \subseteq Below(n + 1)
<1>1. p \in Program /\ Nesting[p] < n + 1  BY DEF Below
<1>2. ASSUME NEW q \in Inside(p)  PROVE q \in Below(n) /\ q \in Below(n + 1)
  <2>1. q \in Program /\ Nesting[q] \in Nat /\ Nesting[q] < Nesting[p] /\ Nesting[p] \in Nat
    BY <1>1, InsideIsBelow
  <2> QED  BY <1>1, <2>1 DEF Below
<1> QED  BY <1>1, <1>2

\* The depths of the programs with less than n blocks one in the other.
DepthsUpto(n, f) == f = [p \in Below(n) |-> DepthsOf([q \in Inside(p) |-> f[q]], p)]

LEMMA DepthsValue ==
  ASSUME NEW n, NEW f, DepthsUpto(n, f), NEW p \in Below(n)
  PROVE  f[p] = DepthsOf([q \in Inside(p) |-> f[q]], p)
<1> DEFINE g == [r \in Below(n) |-> DepthsOf([q \in Inside(r) |-> f[q]], r)]
<1>1. g[p] = DepthsOf([q \in Inside(p) |-> f[q]], p)
  <2> HIDE DEF DepthsOf
  <2> QED  OBVIOUS
<1>2. f = g  BY DEF DepthsUpto
<1> HIDE DEF g
<1> QED  BY <1>1, <1>2

LEMMA DepthsAgree ==
  ASSUME NEW m \in Nat, NEW n \in Nat, NEW f, NEW g, DepthsUpto(m, f), DepthsUpto(n, g),
         NEW p \in Below(m), p \in Below(n)
  PROVE  f[p] = g[p]
<1> DEFINE S == {k \in Nat : \A r \in Below(k) : r \in Below(m) /\ r \in Below(n) => f[r] = g[r]}
<1>1. 0 \in S
  <2>1. Below(0) = {}
    <3>1. \A r \in Program : Nesting[r] \in Nat  BY ProgramAssumption
    <3> QED  BY <3>1 DEF Below
  <2> QED  BY <2>1
<1>2. ASSUME NEW k \in Nat, k \in S  PROVE k + 1 \in S
  <2>1. SUFFICES ASSUME NEW r \in Below(k + 1), r \in Below(m), r \in Below(n)  PROVE f[r] = g[r]
    OBVIOUS
  <2>2. ASSUME NEW q \in Inside(r)  PROVE f[q] = g[q]
    <3>1. q \in Below(k)  BY BelowTheNext
    <3>2. q \in Below(m) /\ q \in Below(n)
      <4>1. r \in Program /\ Nesting[r] < m /\ Nesting[r] < n  BY <2>1 DEF Below
      <4>2. q \in Program /\ Nesting[q] \in Nat /\ Nesting[q] < Nesting[r] /\ Nesting[r] \in Nat
        BY <4>1, InsideIsBelow
      <4> QED  BY <4>1, <4>2 DEF Below
    <3> QED  BY <1>2, <3>1, <3>2
  <2>3. [q \in Inside(r) |-> f[q]] = [q \in Inside(r) |-> g[q]]  BY <2>2
  <2>4. f[r] = DepthsOf([q \in Inside(r) |-> f[q]], r)  BY <2>1, DepthsValue
  <2>5. g[r] = DepthsOf([q \in Inside(r) |-> g[q]], r)  BY <2>1, DepthsValue
  <2> QED  BY <2>3, <2>4, <2>5
<1>3. Nat \subseteq S
  <2> HIDE DEF S
  <2> QED  BY <1>1, <1>2, Induction
<1> QED  BY <1>3

LEMMA DepthsUpwards ==
  ASSUME NEW n \in Nat
  PROVE  \E f : DepthsUpto(n, f)
<1> DEFINE P(k) == \E f : DepthsUpto(k, f)
           S == {k \in Nat : P(k)}
<1>1. 0 \in S
  <2>1. Below(0) = {}
    <3>1. \A r \in Program : Nesting[r] \in Nat  BY ProgramAssumption
    <3> QED  BY <3>1 DEF Below
  <2> DEFINE f == [p \in {} |-> p]
  <2>2. f = [p \in {} |-> DepthsOf([q \in Inside(p) |-> f[q]], p)]
    <3> HIDE DEF DepthsOf
    <3> QED  OBVIOUS
  <2>3. DepthsUpto(0, f)
    <3> HIDE DEF f
    <3> QED  BY <2>1, <2>2 DEF DepthsUpto
  <2> QED  BY <2>3
<1>2. ASSUME NEW k \in Nat, k \in S  PROVE k + 1 \in S
  <2>1. PICK f : DepthsUpto(k, f)  BY <1>2
  <2> DEFINE g == [p \in Below(k + 1) |-> DepthsOf([q \in Inside(p) |-> f[q]], p)]
  <2>2. ASSUME NEW p \in Below(k + 1)
        PROVE  [q \in Inside(p) |-> f[q]] = [q \in Inside(p) |-> g[q]]
    <3>1. ASSUME NEW q \in Inside(p)  PROVE f[q] = g[q]
      <4>1. q \in Below(k) /\ q \in Below(k + 1)  BY BelowTheNext
      <4>2. f[q] = DepthsOf([r \in Inside(q) |-> f[r]], q)  BY <2>1, <4>1, DepthsValue
      <4>3. g[q] = DepthsOf([r \in Inside(q) |-> f[r]], q)
        <5> HIDE DEF DepthsOf
        <5> QED  BY <4>1
      <4> HIDE DEF g
      <4> QED  BY <4>2, <4>3
    <3> HIDE DEF g
    <3> QED  BY <3>1
  <2>3. g = [p \in Below(k + 1) |-> DepthsOf([q \in Inside(p) |-> g[q]], p)]
    <3> DEFINE h == g
    <3>1. \A p \in Below(k + 1) : DepthsOf([q \in Inside(p) |-> f[q]], p) = DepthsOf([q \in Inside(p) |-> h[q]], p)
      <4> HIDE DEF g, DepthsOf
      <4> QED  BY <2>2
    <3> HIDE DEF h, DepthsOf
    <3>2. g = [p \in Below(k + 1) |-> DepthsOf([q \in Inside(p) |-> h[q]], p)]  BY <3>1
    <3> QED  BY <3>2 DEF h
  <2> HIDE DEF g
  <2> QED  BY <2>3 DEF DepthsUpto
<1>3. Nat \subseteq S
  <2> HIDE DEF S
  <2> QED  BY <1>1, <1>2, Induction
<1> HIDE DEF P
<1>4. P(n)  BY <1>3
<1> QED  BY <1>4 DEF P

LEMMA DepthsExists == \E f : f = [p \in Program |-> DepthsOf([q \in Inside(p) |-> f[q]], p)]
<1> DEFINE F(n) == CHOOSE f : DepthsUpto(n, f)
           f == [p \in Program |-> F(Nesting[p] + 1)[p]]
<1>1. \A n \in Nat : DepthsUpto(n, F(n))  BY DepthsUpwards
<1> HIDE DEF F
<1>2. ASSUME NEW p \in Program
      PROVE  f[p] = DepthsOf([q \in Inside(p) |-> f[q]], p)
  <2> DEFINE n == Nesting[p] + 1
  <2>1. n \in Nat /\ p \in Below(n)
    <3>1. Nesting[p] \in Nat  BY InsideIsBelow
    <3> QED  BY <3>1 DEF Below
  <2>2. F(n)[p] = DepthsOf([q \in Inside(p) |-> F(n)[q]], p)
    <3> HIDE DEF n
    <3> QED  BY <1>1, <2>1, DepthsValue
  <2>3. ASSUME NEW q \in Inside(p)  PROVE F(n)[q] = f[q]
    <3> DEFINE m == Nesting[q] + 1
    <3>1. q \in Program /\ m \in Nat /\ q \in Below(m) /\ q \in Below(n)
      <4>1. q \in Program /\ Nesting[q] \in Nat /\ Nesting[q] < Nesting[p] /\ Nesting[p] \in Nat
        BY InsideIsBelow
      <4> QED  BY <4>1 DEF Below
    <3>2. f[q] = F(m)[q]  BY <3>1
    <3> HIDE DEF m, n, f
    <3>3. F(m)[q] = F(n)[q]  BY <1>1, <2>1, <3>1, DepthsAgree
    <3> QED  BY <3>2, <3>3
  <2>4. [q \in Inside(p) |-> F(n)[q]] = [q \in Inside(p) |-> f[q]]
    <3> HIDE DEF n, f
    <3> QED  BY <2>3
  <2>5. f[p] = F(n)[p]  OBVIOUS
  <2> HIDE DEF n, f, DepthsOf
  <2> QED  BY <2>2, <2>4, <2>5
<1>3. f = [p \in Program |-> DepthsOf([q \in Inside(p) |-> f[q]], p)]
  <2> DEFINE g == f
  <2>1. \A p \in Program : F(Nesting[p] + 1)[p] = DepthsOf([q \in Inside(p) |-> g[q]], p)
    <3>1. \A p \in Program : f[p] = F(Nesting[p] + 1)[p]  OBVIOUS
    <3> HIDE DEF f, DepthsOf
    <3> QED  BY <1>2, <3>1
  <2> HIDE DEF g, DepthsOf
  <2>2. f = [p \in Program |-> DepthsOf([q \in Inside(p) |-> g[q]], p)]  BY <2>1
  <2> QED  BY <2>2 DEF g
<1> HIDE DEF f
<1> QED  BY <1>3

\* The depths of a program are those of its statements, and those its blocks need further out.
LEMMA DepthsEquation ==
  ASSUME NEW p \in Program
  PROVE  Depths[p] = DepthsOf([q \in Inside(p) |-> Depths[q]], p)
<1>1. Depths = [r \in Program |-> DepthsOf([q \in Inside(r) |-> Depths[q]], r)]
  <2> DEFINE Good(f) == f = [r \in Program |-> DepthsOf([q \in Inside(r) |-> f[q]], r)]
  <2>1. \E f : Good(f)  BY DepthsExists
  <2>2. Depths = CHOOSE f : Good(f)  BY DEF Depths
  <2> HIDE DEF Good
  <2>3. Good(Depths)  BY <2>1, <2>2
  <2> QED  BY <2>3 DEF Good
<1> DEFINE f == Depths
           g == [r \in Program |-> DepthsOf([q \in Inside(r) |-> f[q]], r)]
<1>2. g[p] = DepthsOf([q \in Inside(p) |-> f[q]], p)
  <2> HIDE DEF DepthsOf, f
  <2> QED  OBVIOUS
<1> HIDE DEF g
<1>3. f = g  BY <1>1 DEF g, f
<1> QED  BY <1>2, <1>3 DEF f

\* What those programs stand for.
RenderingUpto(n, f) == f = [p \in Below(n) |-> Rendered([q \in Inside(p) |-> f[q]], p)]

LEMMA RenderingValue ==
  ASSUME NEW n, NEW f, RenderingUpto(n, f), NEW p \in Below(n)
  PROVE  f[p] = Rendered([q \in Inside(p) |-> f[q]], p)
<1> DEFINE g == [r \in Below(n) |-> Rendered([q \in Inside(r) |-> f[q]], r)]
<1>1. g[p] = Rendered([q \in Inside(p) |-> f[q]], p)
  <2> HIDE DEF Rendered
  <2> QED  OBVIOUS
<1>2. f = g  BY DEF RenderingUpto
<1> HIDE DEF g
<1> QED  BY <1>1, <1>2

LEMMA RenderingAgree ==
  ASSUME NEW m \in Nat, NEW n \in Nat, NEW f, NEW g, RenderingUpto(m, f), RenderingUpto(n, g),
         NEW p \in Below(m), p \in Below(n)
  PROVE  f[p] = g[p]
<1> DEFINE S == {k \in Nat : \A r \in Below(k) : r \in Below(m) /\ r \in Below(n) => f[r] = g[r]}
<1>1. 0 \in S
  <2>1. Below(0) = {}
    <3>1. \A r \in Program : Nesting[r] \in Nat  BY ProgramAssumption
    <3> QED  BY <3>1 DEF Below
  <2> QED  BY <2>1
<1>2. ASSUME NEW k \in Nat, k \in S  PROVE k + 1 \in S
  <2>1. SUFFICES ASSUME NEW r \in Below(k + 1), r \in Below(m), r \in Below(n)  PROVE f[r] = g[r]
    OBVIOUS
  <2>2. ASSUME NEW q \in Inside(r)  PROVE f[q] = g[q]
    <3>1. q \in Below(k)  BY BelowTheNext
    <3>2. q \in Below(m) /\ q \in Below(n)
      <4>1. r \in Program /\ Nesting[r] < m /\ Nesting[r] < n  BY <2>1 DEF Below
      <4>2. q \in Program /\ Nesting[q] \in Nat /\ Nesting[q] < Nesting[r] /\ Nesting[r] \in Nat
        BY <4>1, InsideIsBelow
      <4> QED  BY <4>1, <4>2 DEF Below
    <3> QED  BY <1>2, <3>1, <3>2
  <2>3. [q \in Inside(r) |-> f[q]] = [q \in Inside(r) |-> g[q]]  BY <2>2
  <2>4. f[r] = Rendered([q \in Inside(r) |-> f[q]], r)  BY <2>1, RenderingValue
  <2>5. g[r] = Rendered([q \in Inside(r) |-> g[q]], r)  BY <2>1, RenderingValue
  <2> QED  BY <2>3, <2>4, <2>5
<1>3. Nat \subseteq S
  <2> HIDE DEF S
  <2> QED  BY <1>1, <1>2, Induction
<1> QED  BY <1>3

LEMMA RenderingUpwards ==
  ASSUME NEW n \in Nat
  PROVE  \E f : RenderingUpto(n, f)
<1> DEFINE P(k) == \E f : RenderingUpto(k, f)
           S == {k \in Nat : P(k)}
<1>1. 0 \in S
  <2>1. Below(0) = {}
    <3>1. \A r \in Program : Nesting[r] \in Nat  BY ProgramAssumption
    <3> QED  BY <3>1 DEF Below
  <2> DEFINE f == [p \in {} |-> p]
  <2>2. f = [p \in {} |-> Rendered([q \in Inside(p) |-> f[q]], p)]
    <3> HIDE DEF Rendered
    <3> QED  OBVIOUS
  <2>3. RenderingUpto(0, f)
    <3> HIDE DEF f
    <3> QED  BY <2>1, <2>2 DEF RenderingUpto
  <2> QED  BY <2>3
<1>2. ASSUME NEW k \in Nat, k \in S  PROVE k + 1 \in S
  <2>1. PICK f : RenderingUpto(k, f)  BY <1>2
  <2> DEFINE g == [p \in Below(k + 1) |-> Rendered([q \in Inside(p) |-> f[q]], p)]
  <2>2. ASSUME NEW p \in Below(k + 1)
        PROVE  [q \in Inside(p) |-> f[q]] = [q \in Inside(p) |-> g[q]]
    <3>1. ASSUME NEW q \in Inside(p)  PROVE f[q] = g[q]
      <4>1. q \in Below(k) /\ q \in Below(k + 1)  BY BelowTheNext
      <4>2. f[q] = Rendered([r \in Inside(q) |-> f[r]], q)  BY <2>1, <4>1, RenderingValue
      <4>3. g[q] = Rendered([r \in Inside(q) |-> f[r]], q)
        <5> HIDE DEF Rendered
        <5> QED  BY <4>1
      <4> HIDE DEF g
      <4> QED  BY <4>2, <4>3
    <3> HIDE DEF g
    <3> QED  BY <3>1
  <2>3. g = [p \in Below(k + 1) |-> Rendered([q \in Inside(p) |-> g[q]], p)]
    <3> DEFINE h == g
    <3>1. \A p \in Below(k + 1) : Rendered([q \in Inside(p) |-> f[q]], p) = Rendered([q \in Inside(p) |-> h[q]], p)
      <4> HIDE DEF g, Rendered
      <4> QED  BY <2>2
    <3> HIDE DEF h, Rendered
    <3>2. g = [p \in Below(k + 1) |-> Rendered([q \in Inside(p) |-> h[q]], p)]  BY <3>1
    <3> QED  BY <3>2 DEF h
  <2> HIDE DEF g
  <2> QED  BY <2>3 DEF RenderingUpto
<1>3. Nat \subseteq S
  <2> HIDE DEF S
  <2> QED  BY <1>1, <1>2, Induction
<1> HIDE DEF P
<1>4. P(n)  BY <1>3
<1> QED  BY <1>4 DEF P

LEMMA RenderingExists == \E f : f = [p \in Program |-> Rendered([q \in Inside(p) |-> f[q]], p)]
<1> DEFINE F(n) == CHOOSE f : RenderingUpto(n, f)
           f == [p \in Program |-> F(Nesting[p] + 1)[p]]
<1>1. \A n \in Nat : RenderingUpto(n, F(n))  BY RenderingUpwards
<1> HIDE DEF F
<1>2. ASSUME NEW p \in Program
      PROVE  f[p] = Rendered([q \in Inside(p) |-> f[q]], p)
  <2> DEFINE n == Nesting[p] + 1
  <2>1. n \in Nat /\ p \in Below(n)
    <3>1. Nesting[p] \in Nat  BY InsideIsBelow
    <3> QED  BY <3>1 DEF Below
  <2>2. F(n)[p] = Rendered([q \in Inside(p) |-> F(n)[q]], p)
    <3> HIDE DEF n
    <3> QED  BY <1>1, <2>1, RenderingValue
  <2>3. ASSUME NEW q \in Inside(p)  PROVE F(n)[q] = f[q]
    <3> DEFINE m == Nesting[q] + 1
    <3>1. q \in Program /\ m \in Nat /\ q \in Below(m) /\ q \in Below(n)
      <4>1. q \in Program /\ Nesting[q] \in Nat /\ Nesting[q] < Nesting[p] /\ Nesting[p] \in Nat
        BY InsideIsBelow
      <4> QED  BY <4>1 DEF Below
    <3>2. f[q] = F(m)[q]  BY <3>1
    <3> HIDE DEF m, n, f
    <3>3. F(m)[q] = F(n)[q]  BY <1>1, <2>1, <3>1, RenderingAgree
    <3> QED  BY <3>2, <3>3
  <2>4. [q \in Inside(p) |-> F(n)[q]] = [q \in Inside(p) |-> f[q]]
    <3> HIDE DEF n, f
    <3> QED  BY <2>3
  <2>5. f[p] = F(n)[p]  OBVIOUS
  <2> HIDE DEF n, f, Rendered
  <2> QED  BY <2>2, <2>4, <2>5
<1>3. f = [p \in Program |-> Rendered([q \in Inside(p) |-> f[q]], p)]
  <2> DEFINE g == f
  <2>1. \A p \in Program : F(Nesting[p] + 1)[p] = Rendered([q \in Inside(p) |-> g[q]], p)
    <3>1. \A p \in Program : f[p] = F(Nesting[p] + 1)[p]  OBVIOUS
    <3> HIDE DEF f, Rendered
    <3> QED  BY <1>2, <3>1
  <2> HIDE DEF g, Rendered
  <2>2. f = [p \in Program |-> Rendered([q \in Inside(p) |-> g[q]], p)]  BY <2>1
  <2> QED  BY <2>2 DEF g
<1> HIDE DEF f
<1> QED  BY <1>3

\* What a program stands for follows from what the programs of its blocks do.
LEMMA RenderingEquation ==
  ASSUME NEW p \in Program
  PROVE  Rendering[p] = Rendered([q \in Inside(p) |-> Rendering[q]], p)
<1>1. Rendering = [r \in Program |-> Rendered([q \in Inside(r) |-> Rendering[q]], r)]
  <2> DEFINE Good(f) == f = [r \in Program |-> Rendered([q \in Inside(r) |-> f[q]], r)]
  <2>1. \E f : Good(f)  BY RenderingExists
  <2>2. Rendering = CHOOSE f : Good(f)  BY DEF Rendering
  <2> HIDE DEF Good
  <2>3. Good(Rendering)  BY <2>1, <2>2
  <2> QED  BY <2>3 DEF Good
<1> DEFINE f == Rendering
           g == [r \in Program |-> Rendered([q \in Inside(r) |-> f[q]], r)]
<1>2. g[p] = Rendered([q \in Inside(p) |-> f[q]], p)
  <2> HIDE DEF Rendered, f
  <2> QED  OBVIOUS
<1> HIDE DEF g
<1>3. f = g  BY <1>1 DEF g, f
<1> QED  BY <1>2, <1>3 DEF f

\* The functions that are generated for those programs.
FunctionsUpto(n, f) == f = [p \in Below(n) |-> CreateFunction([q \in Inside(p) |-> f[q]], p)]

LEMMA FunctionsValue ==
  ASSUME NEW n, NEW f, FunctionsUpto(n, f), NEW p \in Below(n)
  PROVE  f[p] = CreateFunction([q \in Inside(p) |-> f[q]], p)
<1> DEFINE g == [r \in Below(n) |-> CreateFunction([q \in Inside(r) |-> f[q]], r)]
<1>1. g[p] = CreateFunction([q \in Inside(p) |-> f[q]], p)
  <2> HIDE DEF CreateFunction
  <2> QED  OBVIOUS
<1>2. f = g  BY DEF FunctionsUpto
<1> HIDE DEF g
<1> QED  BY <1>1, <1>2

LEMMA FunctionsAgree ==
  ASSUME NEW m \in Nat, NEW n \in Nat, NEW f, NEW g, FunctionsUpto(m, f), FunctionsUpto(n, g),
         NEW p \in Below(m), p \in Below(n)
  PROVE  f[p] = g[p]
<1> DEFINE S == {k \in Nat : \A r \in Below(k) : r \in Below(m) /\ r \in Below(n) => f[r] = g[r]}
<1>1. 0 \in S
  <2>1. Below(0) = {}
    <3>1. \A r \in Program : Nesting[r] \in Nat  BY ProgramAssumption
    <3> QED  BY <3>1 DEF Below
  <2> QED  BY <2>1
<1>2. ASSUME NEW k \in Nat, k \in S  PROVE k + 1 \in S
  <2>1. SUFFICES ASSUME NEW r \in Below(k + 1), r \in Below(m), r \in Below(n)  PROVE f[r] = g[r]
    OBVIOUS
  <2>2. ASSUME NEW q \in Inside(r)  PROVE f[q] = g[q]
    <3>1. q \in Below(k)  BY BelowTheNext
    <3>2. q \in Below(m) /\ q \in Below(n)
      <4>1. r \in Program /\ Nesting[r] < m /\ Nesting[r] < n  BY <2>1 DEF Below
      <4>2. q \in Program /\ Nesting[q] \in Nat /\ Nesting[q] < Nesting[r] /\ Nesting[r] \in Nat
        BY <4>1, InsideIsBelow
      <4> QED  BY <4>1, <4>2 DEF Below
    <3> QED  BY <1>2, <3>1, <3>2
  <2>3. [q \in Inside(r) |-> f[q]] = [q \in Inside(r) |-> g[q]]  BY <2>2
  <2>4. f[r] = CreateFunction([q \in Inside(r) |-> f[q]], r)  BY <2>1, FunctionsValue
  <2>5. g[r] = CreateFunction([q \in Inside(r) |-> g[q]], r)  BY <2>1, FunctionsValue
  <2> QED  BY <2>3, <2>4, <2>5
<1>3. Nat \subseteq S
  <2> HIDE DEF S
  <2> QED  BY <1>1, <1>2, Induction
<1> QED  BY <1>3

LEMMA FunctionsUpwards ==
  ASSUME NEW n \in Nat
  PROVE  \E f : FunctionsUpto(n, f)
<1> DEFINE P(k) == \E f : FunctionsUpto(k, f)
           S == {k \in Nat : P(k)}
<1>1. 0 \in S
  <2>1. Below(0) = {}
    <3>1. \A r \in Program : Nesting[r] \in Nat  BY ProgramAssumption
    <3> QED  BY <3>1 DEF Below
  <2> DEFINE f == [p \in {} |-> p]
  <2>2. f = [p \in {} |-> CreateFunction([q \in Inside(p) |-> f[q]], p)]
    <3> HIDE DEF CreateFunction
    <3> QED  OBVIOUS
  <2>3. FunctionsUpto(0, f)
    <3> HIDE DEF f
    <3> QED  BY <2>1, <2>2 DEF FunctionsUpto
  <2> QED  BY <2>3
<1>2. ASSUME NEW k \in Nat, k \in S  PROVE k + 1 \in S
  <2>1. PICK f : FunctionsUpto(k, f)  BY <1>2
  <2> DEFINE g == [p \in Below(k + 1) |-> CreateFunction([q \in Inside(p) |-> f[q]], p)]
  <2>2. ASSUME NEW p \in Below(k + 1)
        PROVE  [q \in Inside(p) |-> f[q]] = [q \in Inside(p) |-> g[q]]
    <3>1. ASSUME NEW q \in Inside(p)  PROVE f[q] = g[q]
      <4>1. q \in Below(k) /\ q \in Below(k + 1)  BY BelowTheNext
      <4>2. f[q] = CreateFunction([r \in Inside(q) |-> f[r]], q)  BY <2>1, <4>1, FunctionsValue
      <4>3. g[q] = CreateFunction([r \in Inside(q) |-> f[r]], q)
        <5> HIDE DEF CreateFunction
        <5> QED  BY <4>1
      <4> HIDE DEF g
      <4> QED  BY <4>2, <4>3
    <3> HIDE DEF g
    <3> QED  BY <3>1
  <2>3. g = [p \in Below(k + 1) |-> CreateFunction([q \in Inside(p) |-> g[q]], p)]
    <3> DEFINE h == g
    <3>1. \A p \in Below(k + 1) : CreateFunction([q \in Inside(p) |-> f[q]], p) = CreateFunction([q \in Inside(p) |-> h[q]], p)
      <4> HIDE DEF g, CreateFunction
      <4> QED  BY <2>2
    <3> HIDE DEF h, CreateFunction
    <3>2. g = [p \in Below(k + 1) |-> CreateFunction([q \in Inside(p) |-> h[q]], p)]  BY <3>1
    <3> QED  BY <3>2 DEF h
  <2> HIDE DEF g
  <2> QED  BY <2>3 DEF FunctionsUpto
<1>3. Nat \subseteq S
  <2> HIDE DEF S
  <2> QED  BY <1>1, <1>2, Induction
<1> HIDE DEF P
<1>4. P(n)  BY <1>3
<1> QED  BY <1>4 DEF P

LEMMA FunctionsExists == \E f : f = [p \in Program |-> CreateFunction([q \in Inside(p) |-> f[q]], p)]
<1> DEFINE F(n) == CHOOSE f : FunctionsUpto(n, f)
           f == [p \in Program |-> F(Nesting[p] + 1)[p]]
<1>1. \A n \in Nat : FunctionsUpto(n, F(n))  BY FunctionsUpwards
<1> HIDE DEF F
<1>2. ASSUME NEW p \in Program
      PROVE  f[p] = CreateFunction([q \in Inside(p) |-> f[q]], p)
  <2> DEFINE n == Nesting[p] + 1
  <2>1. n \in Nat /\ p \in Below(n)
    <3>1. Nesting[p] \in Nat  BY InsideIsBelow
    <3> QED  BY <3>1 DEF Below
  <2>2. F(n)[p] = CreateFunction([q \in Inside(p) |-> F(n)[q]], p)
    <3> HIDE DEF n
    <3> QED  BY <1>1, <2>1, FunctionsValue
  <2>3. ASSUME NEW q \in Inside(p)  PROVE F(n)[q] = f[q]
    <3> DEFINE m == Nesting[q] + 1
    <3>1. q \in Program /\ m \in Nat /\ q \in Below(m) /\ q \in Below(n)
      <4>1. q \in Program /\ Nesting[q] \in Nat /\ Nesting[q] < Nesting[p] /\ Nesting[p] \in Nat
        BY InsideIsBelow
      <4> QED  BY <4>1 DEF Below
    <3>2. f[q] = F(m)[q]  BY <3>1
    <3> HIDE DEF m, n, f
    <3>3. F(m)[q] = F(n)[q]  BY <1>1, <2>1, <3>1, FunctionsAgree
    <3> QED  BY <3>2, <3>3
  <2>4. [q \in Inside(p) |-> F(n)[q]] = [q \in Inside(p) |-> f[q]]
    <3> HIDE DEF n, f
    <3> QED  BY <2>3
  <2>5. f[p] = F(n)[p]  OBVIOUS
  <2> HIDE DEF n, f, CreateFunction
  <2> QED  BY <2>2, <2>4, <2>5
<1>3. f = [p \in Program |-> CreateFunction([q \in Inside(p) |-> f[q]], p)]
  <2> DEFINE g == f
  <2>1. \A p \in Program : F(Nesting[p] + 1)[p] = CreateFunction([q \in Inside(p) |-> g[q]], p)
    <3>1. \A p \in Program : f[p] = F(Nesting[p] + 1)[p]  OBVIOUS
    <3> HIDE DEF f, CreateFunction
    <3> QED  BY <1>2, <3>1
  <2> HIDE DEF g, CreateFunction
  <2>2. f = [p \in Program |-> CreateFunction([q \in Inside(p) |-> g[q]], p)]  BY <2>1
  <2> QED  BY <2>2 DEF g
<1> HIDE DEF f
<1> QED  BY <1>3

\* The function of a program calls those of the programs of its blocks.
LEMMA FunctionContextEquation ==
  ASSUME NEW p \in Program
  PROVE  FunctionContext[p] = CreateFunction([q \in Inside(p) |-> FunctionContext[q]], p)
<1>1. FunctionContext = [r \in Program |-> CreateFunction([q \in Inside(r) |-> FunctionContext[q]], r)]
  <2> DEFINE Good(f) == f = [r \in Program |-> CreateFunction([q \in Inside(r) |-> f[q]], r)]
  <2>1. \E f : Good(f)  BY FunctionsExists
  <2>2. FunctionContext = CHOOSE f : Good(f)  BY DEF FunctionContext
  <2> HIDE DEF Good
  <2>3. Good(FunctionContext)  BY <2>1, <2>2
  <2> QED  BY <2>3 DEF Good
<1> DEFINE f == FunctionContext
           g == [r \in Program |-> CreateFunction([q \in Inside(r) |-> f[q]], r)]
<1>2. g[p] = CreateFunction([q \in Inside(p) |-> f[q]], p)
  <2> HIDE DEF CreateFunction, f
  <2> QED  OBVIOUS
<1> HIDE DEF g
<1>3. f = g  BY <1>1 DEF g, f
<1> QED  BY <1>2, <1>3 DEF f

-----------------------------------------------------------------------------
(* The opcodes, one after the other.                                         *)

\* f has the machine after each of the first n opcodes.
Steps(inner, at, n, ops, f) == \A k \in 1 .. n : f[k] = Step(inner, at, f[k - 1], ops[k])

StepsFrom(inner, at, m, n, ops, f) ==
  f = [k \in 0 .. n |-> IF k = 0 THEN m ELSE Step(inner, at, f[k - 1], ops[k])]

LEMMA StepsExist ==
  ASSUME NEW inner, NEW at, NEW m, NEW ops, NEW n \in Nat
  PROVE  \E f : StepsFrom(inner, at, m, n, ops, f)
<1> DEFINE Good(j, f) == StepsFrom(inner, at, m, j, ops, f)
           P(j) == \E f : Good(j, f)
           S == {j \in Nat : P(j)}
<1> HIDE DEF Step
<1>1. 0 \in S
  <2> DEFINE f == [k \in 0 .. 0 |-> m]
  <2>1. Good(0, f)  BY DEF StepsFrom
  <2> HIDE DEF Good
  <2> QED  BY <2>1
<1>2. ASSUME NEW j \in Nat, j \in S  PROVE j + 1 \in S
  <2>1. PICK f : Good(j, f)  BY <1>2
  <2> DEFINE g == [k \in 0 .. j + 1 |-> IF k = j + 1 THEN Step(inner, at, f[j], ops[k]) ELSE f[k]]
             h == [k \in 0 .. j |-> IF k = 0 THEN m ELSE Step(inner, at, f[k - 1], ops[k])]
  <2>2. f = h  BY <2>1 DEF StepsFrom
  <2>3. \A k \in 0 .. j : h[k] = IF k = 0 THEN m ELSE Step(inner, at, f[k - 1], ops[k])  OBVIOUS
  <2> HIDE DEF h
  <2>4. ASSUME NEW k \in 0 .. j + 1
        PROVE  g[k] = IF k = 0 THEN m ELSE Step(inner, at, g[k - 1], ops[k])
    <3>1. CASE k = j + 1
      <4>1. k # 0 /\ k - 1 = j /\ j \in 0 .. j + 1 /\ j # j + 1  BY <3>1
      <4>2. g[j] = f[j]  BY <4>1
      <4> QED  BY <3>1, <4>1, <4>2
    <3>2. CASE k # j + 1
      <4>1. k \in 0 .. j /\ (k # 0 => k - 1 \in 0 .. j + 1 /\ k - 1 # j + 1)  BY <3>2
      <4>2. g[k] = f[k] /\ (k # 0 => g[k - 1] = f[k - 1])  BY <3>2, <4>1
      <4> QED  BY <2>2, <2>3, <4>1, <4>2
    <3> QED  BY <3>1, <3>2
  <2>5. Good(j + 1, g)
    <3>1. DOMAIN g = 0 .. j + 1 /\ g = [k \in 0 .. j + 1 |-> g[k]]  OBVIOUS
    <3> HIDE DEF g
    <3> QED  BY <2>4, <3>1 DEF StepsFrom
  <2> HIDE DEF g, Good
  <2> QED  BY <2>5
<1>3. Nat \subseteq S
  <2> HIDE DEF S
  <2> QED  BY <1>1, <1>2, Induction
<1> HIDE DEF P
<1>4. P(n)  BY <1>3
<1> QED  BY <1>4 DEF P

LEMMA AfterSteps ==
  ASSUME NEW inner, NEW at, NEW m, NEW ops, Len(ops) \in Nat
  PROVE  \E f : /\ f[0] = m /\ Steps(inner, at, Len(ops), ops, f)
               /\ After(inner, at, m, ops) = f[Len(ops)]
<1> DEFINE n == Len(ops)
           Good(f) == StepsFrom(inner, at, m, n, ops, f)
           f == CHOOSE f : Good(f)
<1> HIDE DEF Step
<1>1. After(inner, at, m, ops) = f[n]  BY DEF After, StepsFrom
<1> HIDE DEF n
<1>2. \E g : Good(g)  BY StepsExist DEF n
<1> HIDE DEF Good
<1>3. Good(f)  BY <1>2
<1> HIDE DEF f
<1> DEFINE h == [k \in 0 .. n |-> IF k = 0 THEN m ELSE Step(inner, at, f[k - 1], ops[k])]
<1>4. \A k \in 0 .. n : h[k] = IF k = 0 THEN m ELSE Step(inner, at, f[k - 1], ops[k])  OBVIOUS
<1>5. f = h  BY <1>3 DEF Good, StepsFrom
<1> HIDE DEF h
<1>6. f[0] = m  BY <1>4, <1>5 DEF n
<1>7. Steps(inner, at, n, ops, f)
  <2>1. ASSUME NEW k \in 1 .. n  PROVE f[k] = Step(inner, at, f[k - 1], ops[k])
    <3>1. k \in 0 .. n /\ k # 0  BY DEF n
    <3> QED  BY <1>4, <1>5, <3>1
  <2> QED  BY <2>1 DEF Steps
<1> QED  BY <1>1, <1>6, <1>7 DEF n

LEMMA StepsAgree ==
  ASSUME NEW inner, NEW at, NEW n \in Nat, NEW s, NEW t, \A k \in 1 .. n : s[k] = t[k],
         NEW f, NEW g, Steps(inner, at, n, s, f), Steps(inner, at, n, t, g), f[0] = g[0]
  PROVE  f[n] = g[n]
<1> DEFINE S == {k \in Nat : k <= n => f[k] = g[k]}
<1> HIDE DEF Step
<1>1. 0 \in S  OBVIOUS
<1>2. ASSUME NEW k \in Nat, k \in S  PROVE k + 1 \in S
  <2>1. SUFFICES ASSUME k + 1 <= n  PROVE f[k + 1] = g[k + 1]  OBVIOUS
  <2>2. k + 1 \in 1 .. n /\ (k + 1) - 1 = k /\ f[k] = g[k]  BY <1>2, <2>1
  <2>3. f[k + 1] = Step(inner, at, f[(k + 1) - 1], s[k + 1])  BY <2>2 DEF Steps
  <2>4. g[k + 1] = Step(inner, at, g[(k + 1) - 1], t[k + 1])  BY <2>2 DEF Steps
  <2> QED  BY <2>2, <2>3, <2>4
<1>3. Nat \subseteq S
  <2> HIDE DEF S
  <2> QED  BY <1>1, <1>2, Induction
<1> QED  BY <1>3

LEMMA AfterNone == ASSUME NEW inner, NEW at, NEW m  PROVE After(inner, at, m, <<>>) = m
<1>1. Len(<<>>) = 0  OBVIOUS
<1> QED  BY <1>1, AfterSteps

LEMMA AfterOne ==
  ASSUME NEW inner, NEW at, NEW m, NEW op
  PROVE  After(inner, at, m, <<op>>) = Step(inner, at, m, op)
<1> DEFINE ops == <<op>>
<1>1. Len(ops) = 1 /\ ops[1] = op  OBVIOUS
<1> HIDE DEF ops, Step
<1>2. PICK f : /\ f[0] = m /\ Steps(inner, at, Len(ops), ops, f)
               /\ After(inner, at, m, ops) = f[Len(ops)]
  <2>1. Len(ops) \in Nat  BY <1>1
  <2> QED  BY <2>1, AfterSteps
<1>3. 1 - 1 = 0 /\ 1 \in 1 .. 1  OBVIOUS
<1>4. f[1] = Step(inner, at, f[1 - 1], ops[1])  BY <1>1, <1>2, <1>3 DEF Steps
<1> QED  BY <1>1, <1>2, <1>3, <1>4 DEF ops

LEMMA AfterConcat ==
  ASSUME NEW T, NEW inner, NEW at, NEW m, NEW s \in Seq(T), NEW t \in Seq(T)
  PROVE  After(inner, at, m, s \o t) = After(inner, at, After(inner, at, m, s), t)
<1> DEFINE a == Len(s)
           b == Len(t)
           u == s \o t
<1>1. /\ a \in Nat /\ b \in Nat /\ a + b \in Nat /\ Len(u) = a + b
      /\ \A k \in 1 .. a : u[k] = s[k]
      /\ \A k \in 1 .. b : u[a + k] = t[k]
  <2>1. Len(u) = Len(s) + Len(t) /\ Len(s) \in Nat /\ Len(t) \in Nat
    BY ConcatProperties, LenProperties
  <2>2. \A i \in 1 .. Len(s) + Len(t) : u[i] = IF i <= Len(s) THEN s[i] ELSE t[i - Len(s)]
    BY ConcatProperties
  <2> QED  BY <2>1, <2>2
<1> HIDE DEF Step, a, b, u
<1>2. PICK h : h[0] = m /\ Steps(inner, at, a + b, u, h) /\ After(inner, at, m, u) = h[a + b]
  <2>1. PICK h : /\ h[0] = m /\ Steps(inner, at, Len(u), u, h)
                 /\ After(inner, at, m, u) = h[Len(u)]
    <3>1. Len(u) \in Nat  BY <1>1
    <3> QED  BY <3>1, AfterSteps
  <2> QED  BY <1>1, <2>1
<1>3. PICK f : f[0] = m /\ Steps(inner, at, a, s, f) /\ After(inner, at, m, s) = f[a]
  BY <1>1, AfterSteps DEF a
<1>4. PICK g : g[0] = f[a] /\ Steps(inner, at, b, t, g) /\ After(inner, at, f[a], t) = g[b]
  BY <1>1, AfterSteps DEF b
<1>5. h[a] = f[a]
  <2>1. Steps(inner, at, a, u, h)
    <3>1. \A k \in 1 .. a : k \in 1 .. a + b  BY <1>1
    <3> QED  BY <1>2, <3>1 DEF Steps
  <2> QED  BY <1>1, <1>2, <1>3, <2>1, StepsAgree
<1> DEFINE e == [k \in 0 .. b |-> h[a + k]]
<1>6. Steps(inner, at, b, t, e)
  <2>1. ASSUME NEW k \in 1 .. b  PROVE e[k] = Step(inner, at, e[k - 1], t[k])
    <3>1. a + k \in 1 .. a + b /\ k \in 0 .. b /\ k - 1 \in 0 .. b /\ a + (k - 1) = (a + k) - 1
      BY <1>1
    <3>2. h[a + k] = Step(inner, at, h[(a + k) - 1], u[a + k])  BY <1>2, <3>1 DEF Steps
    <3>3. e[k] = h[a + k] /\ e[k - 1] = h[a + (k - 1)]  BY <3>1
    <3>4. u[a + k] = t[k]  BY <1>1
    <3> QED  BY <3>1, <3>2, <3>3, <3>4
  <2> HIDE DEF e
  <2> QED  BY <2>1 DEF Steps
<1>7. e[0] = g[0] /\ e[b] = h[a + b]
  <2>1. a + 0 = a /\ 0 \in 0 .. b /\ b \in 0 .. b  BY <1>1
  <2> QED  BY <1>4, <1>5, <2>1
<1> HIDE DEF e
<1>8. e[b] = g[b]  BY <1>1, <1>4, <1>6, <1>7, StepsAgree
<1> QED  BY <1>2, <1>3, <1>4, <1>7, <1>8 DEF u

\* What the opcodes keep, one after the other.
LEMMA AfterEach ==
  ASSUME NEW inner, NEW at, NEW ops, NEW n \in Nat, Len(ops) = n, NEW I, NEW m \in I[0],
         \A k \in 1 .. n : \A x \in I[k - 1] : Step(inner, at, x, ops[k]) \in I[k]
  PROVE  After(inner, at, m, ops) \in I[n]
<1>1. PICK f : f[0] = m /\ Steps(inner, at, n, ops, f) /\ After(inner, at, m, ops) = f[n]
  BY AfterSteps
<1> HIDE DEF Step
<1> DEFINE S == {k \in Nat : k <= n => f[k] \in I[k]}
<1>2. 0 \in S  BY <1>1
<1>3. ASSUME NEW k \in Nat, k \in S  PROVE k + 1 \in S
  <2>1. SUFFICES ASSUME k + 1 <= n  PROVE f[k + 1] \in I[k + 1]  OBVIOUS
  <2>2. k + 1 \in 1 .. n /\ (k + 1) - 1 = k /\ f[k] \in I[k]  BY <1>3, <2>1
  <2>3. f[k + 1] = Step(inner, at, f[(k + 1) - 1], ops[k + 1])  BY <1>1, <2>2 DEF Steps
  <2> QED  BY <2>2, <2>3
<1>4. Nat \subseteq S
  <2> HIDE DEF S
  <2> QED  BY <1>2, <1>3, Induction
<1> QED  BY <1>1, <1>4

Cat(s, t) == s \o t

\* f has the first parts of s one after the other.
Parts(n, s, f) == f = [i \in 1 .. n |-> IF i = 1 THEN s[i] ELSE Cat(f[i - 1], s[i])]

LEMMA PartsValues ==
  ASSUME NEW n \in Nat, NEW s, NEW f, Parts(n, s, f)
  PROVE  /\ 1 <= n => f[1] = s[1]
         /\ \A i \in 2 .. n : f[i] = Cat(f[i - 1], s[i])
<1> DEFINE g == [j \in 1 .. n |-> IF j = 1 THEN s[j] ELSE Cat(f[j - 1], s[j])]
<1>1. (1 <= n => g[1] = s[1]) /\ \A i \in 2 .. n : g[i] = Cat(f[i - 1], s[i])  OBVIOUS
<1>2. f = g  BY DEF Parts
<1> HIDE DEF g
<1> QED  BY <1>1, <1>2

LEMMA PartsExist == ASSUME NEW s, NEW n \in Nat  PROVE \E f : Parts(n, s, f)
<1> DEFINE P(j) == \E f : Parts(j, s, f)
           S == {j \in Nat : P(j)}
<1>1. 0 \in S
  <2> DEFINE f == [i \in {} |-> s]
  <2>1. 1 .. 0 = {}  OBVIOUS
  <2>2. f = [i \in {} |-> IF i = 1 THEN s[i] ELSE Cat(f[i - 1], s[i])]  OBVIOUS
  <2>3. Parts(0, s, f)
    <3> HIDE DEF f
    <3> QED  BY <2>1, <2>2 DEF Parts
  <2> QED  BY <2>3
<1>2. ASSUME NEW j \in Nat, j \in S  PROVE j + 1 \in S
  <2>1. PICK f : Parts(j, s, f)  BY <1>2
  <2> DEFINE last == IF j = 0 THEN s[1] ELSE Cat(f[j], s[j + 1])
             g == [i \in 1 .. j + 1 |-> IF i = j + 1 THEN last ELSE f[i]]
  <2>2. ASSUME NEW i \in 1 .. j + 1
        PROVE  g[i] = IF i = 1 THEN s[i] ELSE Cat(g[i - 1], s[i])
    <3>1. CASE i = j + 1
      <4>1. g[i] = last  BY <3>1
      <4>2. i # 1 => i - 1 = j /\ j # 0 /\ g[j] = f[j]  BY <3>1
      <4> HIDE DEF g
      <4> QED  BY <3>1, <4>1, <4>2
    <3>2. CASE i # j + 1
      <4>1. i \in 1 .. j /\ g[i] = f[i]  BY <3>2
      <4>2. i # 1 => g[i - 1] = f[i - 1]  BY <3>2
      <4>3. (1 <= j => f[1] = s[1]) /\ \A l \in 2 .. j : f[l] = Cat(f[l - 1], s[l])
        BY <2>1, PartsValues
      <4>4. CASE i = 1
        <5> HIDE DEF g
        <5> QED  BY <4>1, <4>3, <4>4
      <4>5. CASE i # 1
        <5> HIDE DEF g
        <5> QED  BY <4>1, <4>2, <4>3, <4>5
      <4> QED  BY <4>4, <4>5
    <3> QED  BY <3>1, <3>2
  <2>3. Parts(j + 1, s, g)
    <3>1. DOMAIN g = 1 .. j + 1 /\ g = [i \in 1 .. j + 1 |-> g[i]]  OBVIOUS
    <3> HIDE DEF g
    <3> QED  BY <2>2, <3>1 DEF Parts
  <2> HIDE DEF g
  <2> QED  BY <2>3
<1>3. Nat \subseteq S
  <2> HIDE DEF S
  <2> QED  BY <1>1, <1>2, Induction
<1> HIDE DEF P
<1>4. P(n)  BY <1>3
<1> QED  BY <1>4 DEF P

LEMMA FlattenParts ==
  ASSUME NEW s, Len(s) \in Nat, Len(s) # 0
  PROVE  \E f : Parts(Len(s), s, f) /\ FlattenSeq(s) = f[Len(s)]
<1> DEFINE n == Len(s)
           Good(f) == Parts(n, s, f)
           flat == CHOOSE f : Good(f)
<1>1. FlattenSeq(s) = flat[n]  BY DEF FlattenSeq, Parts, Cat
<1> HIDE DEF n
<1>2. \E f : Good(f)  BY PartsExist DEF n
<1> HIDE DEF Good
<1>3. Good(flat)  BY <1>2
<1> HIDE DEF flat
<1> QED  BY <1>1, <1>3 DEF Good, n

LEMMA FlattenNone == FlattenSeq(<<>>) = <<>>
<1>1. Len(<<>>) = 0  OBVIOUS
<1> QED  BY <1>1 DEF FlattenSeq

\* What some parts of the opcodes keep, one after the other.
LEMMA AfterParts ==
  ASSUME NEW T, NEW inner, NEW at, NEW parts \in Seq(Seq(T)), NEW I, NEW m \in I[0],
         \A k \in 1 .. Len(parts) : \A x \in I[k - 1] : After(inner, at, x, parts[k]) \in I[k]
  PROVE  After(inner, at, m, FlattenSeq(parts)) \in I[Len(parts)]
<1> HIDE DEF After
<1>1. CASE parts = <<>>
  <2>1. Len(parts) = 0 /\ FlattenSeq(parts) = <<>>  BY <1>1, FlattenNone
  <2> QED  BY <1>1, <2>1, AfterNone
<1>2. CASE parts # <<>>
  <2> DEFINE n == Len(parts)
  <2>1. n \in Nat /\ n # 0 /\ \A k \in 1 .. n : parts[k] \in Seq(T)  BY <1>2
  <2>2. PICK f : Parts(n, parts, f) /\ FlattenSeq(parts) = f[n]  BY <2>1, FlattenParts
  <2>3. \A k \in 1 .. n : \A x \in I[k - 1] : After(inner, at, x, parts[k]) \in I[k]  OBVIOUS
  <2> HIDE DEF n
  <2> DEFINE P(k) == k + 1 <= n => f[k + 1] \in Seq(T) /\ After(inner, at, m, f[k + 1]) \in I[k + 1]
             S == {k \in Nat : P(k)}
  <2>4. 0 \in S
    <3>1. 1 \in 1 .. n /\ 0 + 1 = 1 /\ 1 - 1 = 0  BY <2>1
    <3>2. f[1] = parts[1]  BY <2>1, <2>2, <3>1, PartsValues
    <3>3. parts[1] \in Seq(T)  BY <2>1, <3>1
    <3>4. After(inner, at, m, parts[1]) \in I[1]
      <4>1. \A x \in I[1 - 1] : After(inner, at, x, parts[1]) \in I[1]  BY <2>3, <3>1
      <4> QED  BY <3>1, <4>1
    <3> QED  BY <3>1, <3>2, <3>3, <3>4
  <2>5. ASSUME NEW k \in Nat, k \in S  PROVE k + 1 \in S
    <3>1. SUFFICES ASSUME (k + 1) + 1 <= n
                   PROVE  /\ f[(k + 1) + 1] \in Seq(T)
                          /\ After(inner, at, m, f[(k + 1) + 1]) \in I[(k + 1) + 1]
      OBVIOUS
    <3> DEFINE j == k + 1
               l == j + 1
    <3>2. j \in Nat /\ l \in 1 .. n /\ l # 1 /\ l - 1 = j  BY <3>1
    <3>3. f[j] \in Seq(T) /\ After(inner, at, m, f[j]) \in I[j]  BY <2>5, <2>1, <3>1
    <3> HIDE DEF j, l
    <3>4. f[l] = Cat(f[j], parts[l])
      <4>1. \A i \in 2 .. n : f[i] = Cat(f[i - 1], parts[i])  BY <2>1, <2>2, PartsValues
      <4> QED  BY <3>2, <4>1
    <3>5. parts[l] \in Seq(T)  BY <2>1, <3>2
    <3>6. f[l] \in Seq(T)  BY <3>3, <3>4, <3>5 DEF Cat
    <3>7. After(inner, at, m, f[l]) = After(inner, at, After(inner, at, m, f[j]), parts[l])
      BY <3>3, <3>4, <3>5, AfterConcat DEF Cat
    <3>8. After(inner, at, m, f[l]) \in I[l]
      <4>1. \A x \in I[l - 1] : After(inner, at, x, parts[l]) \in I[l]  BY <2>3, <3>2
      <4> QED  BY <3>2, <3>3, <3>7, <4>1
    <3> QED  BY <3>6, <3>8 DEF j, l
  <2>6. Nat \subseteq S
    <3> HIDE DEF S
    <3> QED  BY <2>4, <2>5, Induction
  <2>7. n - 1 \in Nat /\ (n - 1) + 1 = n  BY <2>1
  <2>8. P(n - 1)  BY <2>6, <2>7
  <2>9. After(inner, at, m, f[n]) \in I[n]  BY <2>1, <2>7, <2>8
  <2> QED  BY <2>2, <2>9 DEF n
<1> QED  BY <1>1, <1>2

\* The values that are found by a path, one in the other.
FoundFrom(value, names, n, f) ==
  f = [k \in 0 .. n |-> IF k = 0 THEN value ELSE Field(f[k - 1], names[k])]

LEMMA FoundValues ==
  ASSUME NEW value, NEW names, NEW n \in Nat, NEW f, FoundFrom(value, names, n, f)
  PROVE  f[0] = value /\ \A k \in 1 .. n : f[k] = Field(f[k - 1], names[k])
<1> DEFINE g == [i \in 0 .. n |-> IF i = 0 THEN value ELSE Field(f[i - 1], names[i])]
<1> HIDE DEF Field
<1>1. g[0] = value /\ \A k \in 1 .. n : g[k] = Field(f[k - 1], names[k])  OBVIOUS
<1>2. f = g  BY DEF FoundFrom
<1> HIDE DEF g
<1> QED  BY <1>1, <1>2

LEMMA FoundExist ==
  ASSUME NEW value, NEW names, NEW n \in Nat
  PROVE  \E f : FoundFrom(value, names, n, f)
<1> DEFINE P(j) == \E f : FoundFrom(value, names, j, f)
           S == {j \in Nat : P(j)}
<1> HIDE DEF Field
<1>1. 0 \in S
  <2> DEFINE f == [k \in 0 .. 0 |-> value]
  <2>1. FoundFrom(value, names, 0, f)  BY DEF FoundFrom
  <2> HIDE DEF f
  <2> QED  BY <2>1
<1>2. ASSUME NEW j \in Nat, j \in S  PROVE j + 1 \in S
  <2>1. PICK f : FoundFrom(value, names, j, f)  BY <1>2
  <2> DEFINE g == [k \in 0 .. j + 1 |-> IF k = j + 1 THEN Field(f[j], names[k]) ELSE f[k]]
  <2>2. f[0] = value /\ \A k \in 1 .. j : f[k] = Field(f[k - 1], names[k])
    BY <2>1, FoundValues
  <2>3. ASSUME NEW k \in 0 .. j + 1
        PROVE  g[k] = IF k = 0 THEN value ELSE Field(g[k - 1], names[k])
    <3>1. CASE k = j + 1
      <4>1. k # 0 /\ k - 1 = j /\ g[j] = f[j] /\ g[k] = Field(f[j], names[k])  BY <3>1
      <4> HIDE DEF g
      <4> QED  BY <4>1
    <3>2. CASE k # j + 1
      <4>1. k \in 0 .. j /\ g[k] = f[k] /\ (k # 0 => k \in 1 .. j /\ g[k - 1] = f[k - 1])  BY <3>2
      <4> HIDE DEF g
      <4> QED  BY <2>2, <4>1
    <3> QED  BY <3>1, <3>2
  <2>4. FoundFrom(value, names, j + 1, g)
    <3>1. DOMAIN g = 0 .. j + 1 /\ g = [k \in 0 .. j + 1 |-> g[k]]  OBVIOUS
    <3> HIDE DEF g
    <3> QED  BY <2>3, <3>1 DEF FoundFrom
  <2> HIDE DEF g
  <2> QED  BY <2>4
<1>3. Nat \subseteq S
  <2> HIDE DEF S
  <2> QED  BY <1>1, <1>2, Induction
<1> HIDE DEF P
<1>4. P(n)  BY <1>3
<1> QED  BY <1>4 DEF P

LEMMA PathFound ==
  ASSUME NEW value, NEW names, Len(names) \in Nat
  PROVE  \E f : FoundFrom(value, names, Len(names), f) /\ Path(value, names) = f[Len(names)]
<1> DEFINE n == Len(names)
           Good(f) == FoundFrom(value, names, n, f)
           found == CHOOSE f : Good(f)
<1> HIDE DEF Field
<1>1. Path(value, names) = found[n]  BY DEF Path, FoundFrom
<1> HIDE DEF n
<1>2. \E f : Good(f)  BY FoundExist DEF n
<1> HIDE DEF Good
<1>3. Good(found)  BY <1>2
<1> HIDE DEF found
<1> QED  BY <1>1, <1>3 DEF Good, n

-----------------------------------------------------------------------------
(* What a template finds in its scopes.                                      *)

LEMMA LeastIndex == ASSUME NEW S, S \subseteq Nat, S # {}  PROVE Min(S) \in S
<1>1. PICK n \in S : \A m \in S : <<m, n>> \notin OpToRel(<, Nat)
  BY NatLessThanWellFounded, WFMin
<1>2. ASSUME NEW m \in S  PROVE n <= m
  <2>1. m \in Nat /\ n \in Nat  OBVIOUS
  <2>2. <<m, n>> \notin OpToRel(<, Nat)  BY <1>1
  <2>3. ~(m < n)  BY <2>1, <2>2 DEF OpToRel
  <2> QED  BY <2>1, <2>3
<1> QED  BY <1>2 DEF Min

LEMMA FieldIsAValue == ASSUME NEW v \in PageValue, NEW name  PROVE Field(v, name) \in PageValue
<1>1. Undefined \in PageValue  BY PageValueAssumption
<1>2. CASE v.type # "object"  BY <1>1, <1>2 DEF Field
<1>3. CASE v.type = "object"
  <2> DEFINE I == {j \in 1 .. Len(v.fields) : v.fields[j][1] = name}
             i == SelectInSeq(v.fields, LAMBDA field : field[1] = name)
  <2>1. v.fields \in Seq(STRING \X PageValue)  BY <1>3, PageValueAssumption
  <2>2. i = IF I # {} THEN Min(I) ELSE 0  BY DEF SelectInSeq
  <2>3. I \subseteq Nat /\ Len(v.fields) \in Nat  BY <2>1
  <2>4. i = 0 \/ i \in 1 .. Len(v.fields)
    <3>1. I # {} => Min(I) \in I
      <4> HIDE DEF I
      <4> QED  BY <2>3, LeastIndex
    <3> QED  BY <2>2, <3>1
  <2>5. Field(v, name) = IF i = 0 THEN Undefined ELSE v.fields[i][2]  BY <1>3 DEF Field
  <2> HIDE DEF i
  <2>6. \A j \in 1 .. Len(v.fields) : v.fields[j][2] \in PageValue  BY <2>1
  <2> QED  BY <1>1, <2>4, <2>5, <2>6
<1> QED  BY <1>2, <1>3

LEMMA OutwardIsAValue ==
  ASSUME NEW scopes \in Seq(PageValue), NEW d \in Nat
  PROVE  Outward(scopes, d) \in PageValue
<1>1. Undefined \in PageValue  BY PageValueAssumption
<1>2. d < Len(scopes) => d + 1 \in 1 .. Len(scopes)  OBVIOUS
<1>3. d < Len(scopes) => scopes[d + 1] \in PageValue  BY <1>2
<1> HIDE DEF Undefined
<1> QED  BY <1>1, <1>3 DEF Outward

LEMMA FoundAreValues ==
  ASSUME NEW value \in PageValue, NEW names, NEW n \in Nat, NEW f, FoundFrom(value, names, n, f)
  PROVE  \A k \in 0 .. n : f[k] \in PageValue
<1> DEFINE S == {k \in Nat : k <= n => f[k] \in PageValue}
<1>1. f[0] = value /\ \A k \in 1 .. n : f[k] = Field(f[k - 1], names[k])  BY FoundValues
<1>2. 0 \in S  BY <1>1
<1>3. ASSUME NEW k \in Nat, k \in S  PROVE k + 1 \in S
  <2>1. SUFFICES ASSUME k + 1 <= n  PROVE f[k + 1] \in PageValue  OBVIOUS
  <2>2. k + 1 \in 1 .. n /\ (k + 1) - 1 = k /\ f[k] \in PageValue  BY <1>3, <2>1
  <2>3. f[k + 1] = Field(f[k], names[k + 1])  BY <1>1, <2>2
  <2> QED  BY <2>2, <2>3, FieldIsAValue
<1>4. Nat \subseteq S
  <2> HIDE DEF S
  <2> QED  BY <1>2, <1>3, Induction
<1> QED  BY <1>4

LEMMA LookedIsAValue ==
  ASSUME NEW scopes \in Seq(PageValue), NEW id \in IdNode
  PROVE  Looked(id, scopes) \in PageValue
<1>1. id.depth \in Nat /\ id.parts \in Seq(STRING)  BY DEF IdNode
<1>2. Len(id.parts) \in Nat  BY <1>1
<1>3. Outward(scopes, id.depth) \in PageValue  BY <1>1, OutwardIsAValue
<1>4. PICK f : /\ FoundFrom(Outward(scopes, id.depth), id.parts, Len(id.parts), f)
               /\ Path(Outward(scopes, id.depth), id.parts) = f[Len(id.parts)]
  BY <1>2, PathFound
<1>5. Len(id.parts) \in 0 .. Len(id.parts)  BY <1>2
<1>6. f[Len(id.parts)] \in PageValue  BY <1>2, <1>3, <1>4, <1>5, FoundAreValues
<1> QED  BY <1>4, <1>6 DEF Looked

-----------------------------------------------------------------------------
(* The stack machine: its state but for its variables, and what each opcode
   does to it.                                                               *)

\* Values that are pushed on the stack for a parameter.
Cells == PageValue \cup {Str(<<s>>) : s \in STRING}

State(cells, buffer) ==
  [stack : {cells}, context : Nat, lastHelper : BOOLEAN, buffer : {buffer}]

LEMMA StackTop ==
  ASSUME NEW V, NEW s \in Seq(V), NEW x \in V
  PROVE  /\ Append(s, x) \in Seq(V)
         /\ Append(s, x)[Len(Append(s, x))] = x
         /\ SubSeq(Append(s, x), 1, Len(Append(s, x)) - 1) = s
<1> DEFINE t == Append(s, x)
<1>1. t \in Seq(V) /\ Len(t) = Len(s) + 1 /\ Len(s) \in Nat /\ t[Len(s) + 1] = x
      /\ \A i \in 1 .. Len(s) : t[i] = s[i]
  BY AppendProperties, LenProperties
<1> HIDE DEF t
<1>2. Len(t) - 1 = Len(s)  BY <1>1
<1> DEFINE r == SubSeq(t, 1, Len(s))
<1>3. r \in Seq(V) /\ Len(r) = Len(s) /\ \A i \in 1 .. Len(s) : r[i] = s[i]
  <2>1. \A i \in 1 .. Len(s) : t[i] \in V  BY <1>1
  <2>2. /\ r \in Seq(V) /\ Len(r) = IF 1 <= Len(s) THEN Len(s) - 1 + 1 ELSE 0
        /\ \A i \in 1 .. Len(s) - 1 + 1 : r[i] = t[1 + i - 1]
    BY <1>1, <2>1, SubSeqProperties
  <2> QED  BY <1>1, <2>2
<1>4. r = s
  <2> HIDE DEF r
  <2> QED  BY <1>3, SeqEqual
<1> QED  BY <1>1, <1>2, <1>4 DEF t

LEMMA StepOpcodes ==
  ASSUME NEW inner, NEW at, NEW m, NEW a
  PROVE  /\ Step(inner, at, m, Op("appendContent", a)) = AppendContent(m, a)
         /\ Step(inner, at, m, Op("append", a)) = AppendValue(m, a)
         /\ Step(inner, at, m, Op("getContext", a)) = GetContext(m, a)
         /\ Step(inner, at, m, Op("lookupOnContext", a)) = LookupOnContext(m, at, a)
         /\ Step(inner, at, m, Op("pushContext", a)) = PushContext(m, at)
         /\ Step(inner, at, m, Op("lookup", a)) = Lookup(m, a)
         /\ Step(inner, at, m, Op("pushString", a)) = PushString(m, a)
         /\ Step(inner, at, m, Op("pushProgram", a)) = PushProgram(m, at, a)
         /\ Step(inner, at, m, Op("invokeHelper", a)) = InvokeHelper(inner, m, at, a[1], a[2])
         /\ Step(inner, at, m, Op("invokeAmbiguous", a)) = InvokeAmbiguous(inner, m, at, a)
         /\ Step(inner, at, m, Op("blockValue", a)) = BlockValue(inner, m, at)
         /\ Step(inner, at, m, Op("ambiguousBlockValue", a)) = AmbiguousBlockValue(inner, m, at)
  BY DEF Step, Op

LEMMA PushState ==
  ASSUME NEW V, NEW s \in Seq(V), NEW v, NEW B, NEW m \in State(s, B)
  PROVE  Push(m, v) \in State(Append(s, v), B)
  BY DEF State, Push

LEMMA ContextState ==
  ASSUME NEW s, NEW B, NEW m \in State(s, B), NEW d \in Nat
  PROVE  GetContext(m, d) \in State(s, B) /\ GetContext(m, d).context = d
  BY DEF State, GetContext

LEMMA TopState ==
  ASSUME NEW V, NEW s \in Seq(V), NEW x \in V, NEW B, NEW m \in State(Append(s, x), B)
  PROVE  Peek(m, 0) = x /\ Pop(m, 1) \in State(s, B)
<1>1. m.stack = Append(s, x)  BY DEF State
<1>2. Len(m.stack) - 0 = Len(m.stack)
  <2>1. Append(s, x) \in Seq(V)  BY StackTop
  <2>2. Len(Append(s, x)) \in Nat  BY <2>1
  <2> QED  BY <1>1, <2>2
<1>3. Peek(m, 0) = x  BY <1>1, <1>2, StackTop DEF Peek
<1>4. SubSeq(m.stack, 1, Len(m.stack) - 1) = s  BY <1>1, StackTop
<1>5. Pop(m, 1) \in State(s, B)  BY <1>4 DEF Pop, State
<1> QED  BY <1>3, <1>5

LEMMA ReplaceTop ==
  ASSUME NEW V, NEW s \in Seq(V), NEW x \in V, NEW B, NEW m \in State(Append(s, x), B), NEW v
  PROVE  Replace(m, 1, v) \in State(Append(s, v), B)
<1>1. Pop(m, 1) \in State(s, B)  BY TopState
<1> QED  BY <1>1, PushState DEF Replace

\* Every opcode of a program.
OpNames ==
  {"appendContent", "append", "getContext", "lookupOnContext", "pushContext", "lookup", "pushString",
   "pushProgram", "invokeHelper", "invokeAmbiguous", "blockValue", "ambiguousBlockValue"}
Args == STRING \cup Nat \cup BOOLEAN \cup Program \cup {NoProgram} \cup (Nat \X STRING)
Ops  == [opcode : OpNames, arg : Args]

LEMMA OneOf == ASSUME NEW S, NEW x \in S  PROVE <<x>> \in Seq(S)
  OBVIOUS

LEMMA OpType == ASSUME NEW name \in OpNames, NEW arg \in Args  PROVE Op(name, arg) \in Ops
  BY DEF Op, Ops

LEMMA OneOp == ASSUME NEW name \in OpNames, NEW arg \in Args  PROVE <<Op(name, arg)>> \in Seq(Ops)
<1>1. Op(name, arg) \in Ops  BY OpType
<1> QED  BY <1>1, OneOf

Lookups(names) == [i \in 1 .. Len(names) - 1 |-> Op("lookup", names[i + 1])]

LEMMA LookupsType ==
  ASSUME NEW names \in Seq(STRING), names # <<>>
  PROVE  Lookups(names) \in Seq(Ops) /\ Len(Lookups(names)) = Len(names) - 1
<1> DEFINE n == Len(names) - 1
<1>1. n \in Nat  OBVIOUS
<1>2. \A i \in 1 .. n : Op("lookup", names[i + 1]) \in Ops
  <2>1. \A i \in 1 .. n : names[i + 1] \in Args
    <3>1. \A i \in 1 .. n : names[i + 1] \in STRING  OBVIOUS
    <3> QED  BY <3>1 DEF Args
  <2> QED  BY <2>1, OpType DEF OpNames
<1> HIDE DEF n, Op, Ops
<1>3. [i \in 1 .. n |-> Op("lookup", names[i + 1])] \in [1 .. n -> Ops]  BY <1>2
<1>4. Lookups(names) \in [1 .. n -> Ops]  BY <1>3 DEF Lookups, n
<1>5. Len(Lookups(names)) = n /\ Lookups(names) \in Seq(Ops)
  <2> HIDE DEF Lookups
  <2> QED  BY <1>1, <1>4
<1> QED  BY <1>5 DEF n

PushFirst(id) ==
  IF id.parts = <<>> THEN <<Op("pushContext", 0)>>
  ELSE <<Op("lookupOnContext", id.parts[1])>> \o Lookups(id.parts)

LEMMA PushIdType ==
  ASSUME NEW id \in IdNode
  PROVE  /\ PushId(id) = <<Op("getContext", id.depth)>> \o PushFirst(id)
         /\ <<Op("getContext", id.depth)>> \in Seq(Ops)
         /\ PushFirst(id) \in Seq(Ops)
         /\ PushId(id) \in Seq(Ops)
<1>1. id.depth \in Nat /\ id.parts \in Seq(STRING)  BY DEF IdNode
<1>2. PushId(id) = <<Op("getContext", id.depth)>> \o PushFirst(id)
  <2> HIDE DEF Op
  <2> QED  BY DEF PushId, PushFirst, Lookups
<1>3. <<Op("getContext", id.depth)>> \in Seq(Ops)
  <2>1. id.depth \in Args  BY <1>1 DEF Args
  <2> QED  BY <2>1, OneOp DEF OpNames
<1>4. PushFirst(id) \in Seq(Ops)
  <2>1. CASE id.parts = <<>>
    <3>1. 0 \in Args  BY DEF Args
    <3>2. <<Op("pushContext", 0)>> \in Seq(Ops)  BY <3>1, OneOp DEF OpNames
    <3> HIDE DEF Op, Ops
    <3> QED  BY <2>1, <3>2 DEF PushFirst
  <2>2. CASE id.parts # <<>>
    <3>1. id.parts[1] \in STRING  BY <1>1, <2>2
    <3>2. id.parts[1] \in Args  BY <3>1 DEF Args
    <3>3. <<Op("lookupOnContext", id.parts[1])>> \in Seq(Ops)  BY <3>2, OneOp DEF OpNames
    <3>4. Lookups(id.parts) \in Seq(Ops)  BY <1>1, <2>2, LookupsType
    <3> DEFINE u == <<Op("lookupOnContext", id.parts[1])>>
               v == Lookups(id.parts)
    <3>5. PushFirst(id) = u \o v  BY <2>2 DEF PushFirst
    <3> HIDE DEF u, v
    <3>6. u \o v \in Seq(Ops)  BY <3>3, <3>4, ConcatProperties DEF u, v
    <3> QED  BY <3>5, <3>6
  <2> QED  BY <2>1, <2>2
<1>5. PushId(id) \in Seq(Ops)
  <2> DEFINE u == <<Op("getContext", id.depth)>>
             v == PushFirst(id)
  <2> HIDE DEF u, v
  <2>1. u \o v \in Seq(Ops)  BY <1>3, <1>4, ConcatProperties DEF u, v
  <2> QED  BY <1>2, <2>1 DEF u, v
<1> QED  BY <1>2, <1>3, <1>4, <1>5

\* A name is looked up in its scope, and pushed.
LEMMA PushIdPushes ==
  ASSUME NEW inner, NEW at, NEW scopes \in Seq(PageValue), NEW id \in IdNode,
         At(at, id.depth) = Outward(scopes, id.depth),
         NEW s \in Seq(Cells), NEW B, NEW m \in State(s, B)
  PROVE  After(inner, at, m, PushId(id)) \in State(Append(s, Looked(id, scopes)), B)
<1>1. id.depth \in Nat /\ id.parts \in Seq(STRING) /\ Len(id.parts) \in Nat  BY DEF IdNode
<1> DEFINE value == Outward(scopes, id.depth)
           n == Len(id.parts)
           m1 == GetContext(m, id.depth)
<1>2. value \in PageValue  BY <1>1, OutwardIsAValue
<1>3. m1 \in State(s, B) /\ m1.context = id.depth  BY <1>1, ContextState
<1>4. After(inner, at, m, PushId(id)) = After(inner, at, m1, PushFirst(id))
  <2> DEFINE u == <<Op("getContext", id.depth)>>
             v == PushFirst(id)
  <2>1. After(inner, at, m, u) = m1  BY AfterOne, StepOpcodes
  <2>2. PushId(id) = u \o v /\ u \in Seq(Ops) /\ v \in Seq(Ops)  BY PushIdType
  <2> HIDE DEF u, v, m1
  <2>3. After(inner, at, m, u \o v) = After(inner, at, After(inner, at, m, u), v)
    BY <2>2, AfterConcat
  <2>4. After(inner, at, m, PushId(id)) = After(inner, at, m1, v)
    BY ONLY <2>1, <2>2, <2>3, Zenon
  <2> QED  BY <2>4 DEF v
<1>5. PICK f : FoundFrom(value, id.parts, n, f) /\ Path(value, id.parts) = f[n]  BY <1>1, PathFound
<1> HIDE DEF value, m1
<1>6. Looked(id, scopes) = f[n]  BY <1>5 DEF Looked, value
<1>7. CASE id.parts = <<>>
  <2>1. n = 0 /\ f[n] = value
    <3>1. Len(id.parts) = 0 /\ 0 \in Nat  BY <1>1, <1>7
    <3>2. f[0] = value  BY <1>1, <1>5, FoundValues
    <3> QED  BY <3>1, <3>2
  <2>2. After(inner, at, m1, PushFirst(id)) = PushContext(m1, at)
    <3>1. PushFirst(id) = <<Op("pushContext", 0)>>  BY <1>7 DEF PushFirst
    <3> QED  BY <3>1, AfterOne, StepOpcodes
  <2>3. PushContext(m1, at) = Push(m1, value)  BY <1>3 DEF PushContext, value
  <2> QED  BY <1>3, <1>4, <1>6, <2>1, <2>2, <2>3, PushState
<1>8. CASE id.parts # <<>>
  <2> DEFINE ops == Lookups(id.parts)
             m2 == Push(m1, f[1])
             I == [k \in 0 .. n - 1 |-> State(Append(s, f[k + 1]), B)]
  <2>1. n \in Nat /\ n # 0 /\ n - 1 \in Nat  BY <1>1, <1>8
  <2>2. f[0] = value /\ \A k \in 1 .. n : f[k] = Field(f[k - 1], id.parts[k])
    BY <1>1, <1>5, FoundValues
  <2>3. f[1] = Field(value, id.parts[1])
    <3>1. 1 \in 1 .. n /\ 1 - 1 = 0  BY <2>1
    <3> HIDE DEF n
    <3> QED  BY <2>2, <3>1
  <2>4. After(inner, at, m1, PushFirst(id)) = After(inner, at, m2, ops)
    <3> DEFINE u == <<Op("lookupOnContext", id.parts[1])>>
    <3>1. PushFirst(id) = u \o ops  BY <1>8 DEF PushFirst
    <3>2. LookupOnContext(m1, at, id.parts[1]) = m2
      BY <1>3, <2>3 DEF LookupOnContext, value
    <3>3. After(inner, at, m1, u) = m2
      BY <3>2, AfterOne, StepOpcodes
    <3>4. u \in Seq(Ops)
      <4>1. id.parts[1] \in Args  BY <1>1, <1>8 DEF Args
      <4> QED  BY <4>1, OneOp DEF OpNames
    <3>5. ops \in Seq(Ops)  BY <1>1, <1>8, LookupsType
    <3> HIDE DEF u, ops, m2
    <3>6. After(inner, at, m1, u \o ops) = After(inner, at, After(inner, at, m1, u), ops)
      BY <3>4, <3>5, AfterConcat
    <3> QED  BY ONLY <3>1, <3>3, <3>6, Zenon
  <2>5. Len(ops) = n - 1  BY <1>1, <1>8, LookupsType
  <2>6. \A k \in 0 .. n : f[k] \in PageValue  BY <1>1, <1>2, <1>5, FoundAreValues
  <2>7. m2 \in I[0]
    <3>1. m2 \in State(Append(s, f[1]), B)  BY <1>3, PushState
    <3>2. I[0] = State(Append(s, f[1]), B)
      <4>1. 0 \in 0 .. n - 1 /\ 0 + 1 = 1  BY <2>1
      <4> HIDE DEF State, n
      <4> QED  BY <4>1
    <3> QED  BY <3>1, <3>2
  <2>8. ASSUME NEW k \in 1 .. n - 1, NEW x \in I[k - 1]
        PROVE  Step(inner, at, x, ops[k]) \in I[k]
    <3>1. k \in 0 .. n - 1 /\ k - 1 \in 0 .. n - 1 /\ (k - 1) + 1 = k /\ k + 1 \in 1 .. n
          /\ k \in 0 .. n /\ (k + 1) - 1 = k
      BY <2>1
    <3>2. ops[k] = Op("lookup", id.parts[k + 1])
      <4> HIDE DEF Op
      <4> QED  BY DEF Lookups
    <3>3. x \in State(Append(s, f[k]), B)
      <4>1. I[k - 1] = State(Append(s, f[(k - 1) + 1]), B)
        <5> HIDE DEF State, n
        <5> QED  BY <3>1
      <4> HIDE DEF I
      <4> QED  BY <3>1, <4>1
    <3>4. f[k] \in Cells
      <4>1. f[k] \in PageValue  BY <2>6, <3>1
      <4> QED  BY <4>1 DEF Cells
    <3>5. Peek(x, 0) = f[k]  BY <3>3, <3>4, TopState
    <3>6. f[k + 1] = Field(f[k], id.parts[k + 1])
      <4> HIDE DEF n
      <4> QED  BY <2>2, <3>1
    <3>7. Lookup(x, id.parts[k + 1]) \in State(Append(s, f[k + 1]), B)
      <4>1. Lookup(x, id.parts[k + 1]) = Replace(x, 1, f[k + 1])  BY <3>5, <3>6 DEF Lookup
      <4> QED  BY <3>3, <3>4, <4>1, ReplaceTop
    <3>8. Step(inner, at, x, ops[k]) = Lookup(x, id.parts[k + 1])  BY <3>2, StepOpcodes
    <3>9. I[k] = State(Append(s, f[k + 1]), B)
      <4> HIDE DEF State, n
      <4> QED  BY <3>1
    <3> QED  BY <3>7, <3>8, <3>9
  <2>9. After(inner, at, m2, ops) \in I[n - 1]
    <3> DEFINE j == n - 1
    <3>1. j \in Nat /\ Len(ops) = j /\ \A k \in 1 .. j : \A x \in I[k - 1] : Step(inner, at, x, ops[k]) \in I[k]
      BY <2>1, <2>5, <2>8
    <3> HIDE DEF j, I, ops, m2
    <3>2. After(inner, at, m2, ops) \in I[j]  BY <2>7, <3>1, AfterEach
    <3> QED  BY <3>2 DEF j
  <2>10. I[n - 1] = State(Append(s, f[n]), B)
    <3>1. n - 1 \in 0 .. n - 1 /\ (n - 1) + 1 = n  BY <2>1
    <3> HIDE DEF State, n
    <3> QED  BY <3>1
  <2> QED  BY <1>4, <1>6, <2>4, <2>9, <2>10
<1> QED  BY <1>7, <1>8

\* The first elements of a sequence.
First(v, k) == [i \in 1 .. k |-> v[i]]

LEMMA FirstElements ==
  ASSUME NEW V, NEW v \in Seq(V)
  PROVE  /\ First(v, 0) = <<>>
         /\ First(v, Len(v)) = v
         /\ \A k \in 0 .. Len(v) : First(v, k) \in Seq(V) /\ Len(First(v, k)) = k
         /\ \A k \in 1 .. Len(v) : v[k] \in V /\ First(v, k) = Append(First(v, k - 1), v[k])
<1>1. First(v, 0) = <<>>  BY DEF First
<1>2. First(v, Len(v)) = v  BY DEF First
<1>3. \A k \in 1 .. Len(v) : v[k] \in V  OBVIOUS
<1>4. ASSUME NEW k \in 0 .. Len(v)  PROVE First(v, k) \in Seq(V) /\ Len(First(v, k)) = k
  <2>1. k \in Nat /\ Len(v) \in Nat  OBVIOUS
  <2>2. \A i \in 1 .. k : v[i] \in V  OBVIOUS
  <2>3. First(v, k) \in [1 .. k -> V]  BY <2>2 DEF First
  <2> QED  BY <2>1, <2>3
<1>5. ASSUME NEW k \in 1 .. Len(v)  PROVE First(v, k) = Append(First(v, k - 1), v[k])
  <2> DEFINE s == First(v, k - 1)
             r == First(v, k)
             t == Append(s, v[k])
  <2>1. k \in 0 .. Len(v) /\ k - 1 \in 0 .. Len(v) /\ (k - 1) + 1 = k /\ k - 1 \in Nat  OBVIOUS
  <2>2. s \in Seq(V) /\ Len(s) = k - 1 /\ r \in Seq(V) /\ Len(r) = k  BY <1>4, <2>1
  <2>3. (\A i \in 1 .. k - 1 : s[i] = v[i]) /\ \A i \in 1 .. k : r[i] = v[i]  BY DEF First
  <2> HIDE DEF s, r
  <2>4. /\ t \in Seq(V) /\ Len(t) = k /\ t[k] = v[k]
        /\ \A i \in 1 .. k - 1 : t[i] = s[i]
    <3>1. /\ t \in Seq(V) /\ Len(t) = Len(s) + 1 /\ t[Len(s) + 1] = v[k]
          /\ \A i \in 1 .. Len(s) : t[i] = s[i]
      BY <1>3, <2>2, AppendProperties
    <3> HIDE DEF t
    <3> QED  BY <2>1, <2>2, <3>1
  <2> HIDE DEF t
  <2>5. \A i \in 1 .. Len(r) : r[i] = t[i]
    <3>1. \A i \in 1 .. k : i = k \/ i \in 1 .. k - 1  OBVIOUS
    <3> QED  BY <2>2, <2>3, <2>4, <3>1
  <2>6. r = t  BY <2>2, <2>4, <2>5, SeqEqual
  <2> QED  BY <2>6 DEF r, s, t
<1> QED  BY <1>1, <1>2, <1>3, <1>4, <1>5

LEMMA FlattenIsSeq == ASSUME NEW T, NEW s \in Seq(Seq(T))  PROVE FlattenSeq(s) \in Seq(T)
<1>1. CASE s = <<>>
  <2>1. <<>> \in Seq(T)  OBVIOUS
  <2> QED  BY <1>1, <2>1, FlattenNone, Zenon
<1>2. CASE s # <<>>
  <2> DEFINE n == Len(s)
  <2>1. n \in Nat /\ n # 0 /\ \A k \in 1 .. n : s[k] \in Seq(T)  BY <1>2
  <2>2. PICK f : Parts(n, s, f) /\ FlattenSeq(s) = f[n]  BY <2>1, FlattenParts
  <2> HIDE DEF n
  <2>3. (1 <= n => f[1] = s[1]) /\ \A i \in 2 .. n : f[i] = Cat(f[i - 1], s[i])
    BY <2>1, <2>2, PartsValues
  <2> DEFINE S == {k \in Nat : k + 1 <= n => f[k + 1] \in Seq(T)}
  <2>4. 0 \in S
    <3>1. 1 \in 1 .. n /\ 1 <= n /\ 0 + 1 = 1  BY <2>1
    <3>2. f[1] \in Seq(T)  BY <2>1, <2>3, <3>1
    <3> QED  BY <3>1, <3>2
  <2>5. ASSUME NEW k \in Nat, k \in S  PROVE k + 1 \in S
    <3>1. SUFFICES ASSUME (k + 1) + 1 <= n  PROVE f[(k + 1) + 1] \in Seq(T)  OBVIOUS
    <3> DEFINE j == k + 1
               l == j + 1
    <3>2. l \in 2 .. n /\ l \in 1 .. n /\ l - 1 = j /\ f[j] \in Seq(T)  BY <2>1, <2>5, <3>1
    <3> HIDE DEF j, l
    <3>3. f[l] = Cat(f[j], s[l]) /\ s[l] \in Seq(T)  BY <2>1, <2>3, <3>2
    <3>4. \A u, v \in Seq(T) : Cat(u, v) \in Seq(T)  BY DEF Cat
    <3>5. f[l] \in Seq(T)  BY <3>2, <3>3, <3>4
    <3> QED  BY <3>5 DEF j, l
  <2>6. Nat \subseteq S
    <3> HIDE DEF S
    <3> QED  BY <2>4, <2>5, Induction
  <2>7. n - 1 \in Nat /\ (n - 1) + 1 = n /\ n <= n  BY <2>1
  <2>8. f[n] \in Seq(T)  BY <2>6, <2>7
  <2> QED  BY <2>2, <2>8
<1> QED  BY <1>1, <1>2

LEMMA ParamTypes ==
  ASSUME NEW param \in IdNode \cup StringNode
  PROVE  /\ param.type = "STRING" => param \in StringNode /\ param.string \in STRING
         /\ param.type # "STRING" => param \in IdNode /\ param.depth \in Nat /\ param.type = "ID"
         /\ PushParam(param) \in Seq(Ops)
<1>1. param.type = "STRING" => param \in StringNode /\ param.string \in STRING
  BY DEF IdNode, StringNode
<1>2. param.type # "STRING" => param \in IdNode /\ param.depth \in Nat /\ param.type = "ID"
  BY DEF IdNode, StringNode
<1>3. CASE param.type = "STRING"
  <2>1. param.string \in Args  BY <1>1, <1>3 DEF Args
  <2>2. <<Op("pushString", param.string)>> \in Seq(Ops)  BY <2>1, OneOp DEF OpNames
  <2>3. PushParam(param) = <<Op("pushString", param.string)>>  BY <1>3 DEF PushParam
  <2> QED  BY <1>1, <1>2, <2>2, <2>3
<1>4. CASE param.type # "STRING"
  <2>1. PushParam(param) = PushId(param)  BY <1>4 DEF PushParam
  <2>2. PushId(param) \in Seq(Ops)  BY <1>2, <1>4, PushIdType
  <2> QED  BY <1>1, <1>2, <2>1, <2>2
<1> QED  BY <1>3, <1>4

LEMMA ParamValueType ==
  ASSUME NEW scopes \in Seq(PageValue), NEW param \in IdNode \cup StringNode
  PROVE  ParamValue(param, scopes) \in Cells
<1>1. CASE param.type = "STRING"
  <2>1. param.string \in STRING  BY <1>1, ParamTypes
  <2> QED  BY <1>1, <2>1 DEF ParamValue, Cells
<1>2. CASE param.type # "STRING"
  <2>1. Looked(param, scopes) \in PageValue  BY <1>2, ParamTypes, LookedIsAValue
  <2> QED  BY <1>2, <2>1 DEF ParamValue, Cells
<1> QED  BY <1>1, <1>2

\* The scopes a name looks out to were given to the function.
Reaches(at, depth, scopes) == At(at, depth) = Outward(scopes, depth)

ParamReaches(at, param, scopes) == param.type = "ID" => Reaches(at, param.depth, scopes)

LEMMA PushParamPushes ==
  ASSUME NEW inner, NEW at, NEW scopes \in Seq(PageValue), NEW param \in IdNode \cup StringNode,
         ParamReaches(at, param, scopes), NEW s \in Seq(Cells), NEW B, NEW m \in State(s, B)
  PROVE  After(inner, at, m, PushParam(param)) \in State(Append(s, ParamValue(param, scopes)), B)
<1>1. CASE param.type = "STRING"
  <2>1. After(inner, at, m, PushParam(param)) = PushString(m, param.string)
    <3>1. PushParam(param) = <<Op("pushString", param.string)>>  BY <1>1 DEF PushParam
    <3> QED  BY <3>1, AfterOne, StepOpcodes
  <2>2. PushString(m, param.string) = Push(m, ParamValue(param, scopes))
    BY <1>1 DEF PushString, ParamValue
  <2> QED  BY <2>1, <2>2, PushState
<1>2. CASE param.type # "STRING"
  <2>1. PushParam(param) = PushId(param) /\ ParamValue(param, scopes) = Looked(param, scopes)
    BY <1>2 DEF PushParam, ParamValue
  <2>2. param \in IdNode /\ At(at, param.depth) = Outward(scopes, param.depth)
    BY <1>2, ParamTypes DEF ParamReaches, Reaches
  <2>3. After(inner, at, m, PushId(param)) \in State(Append(s, Looked(param, scopes)), B)
    BY <2>2, PushIdPushes
  <2> QED  BY <2>1, <2>3
<1> QED  BY <1>1, <1>2

\* The parameters are on the stack, the last one first.
Reversed(params, scopes) ==
  [i \in 1 .. Len(params) |-> ParamValue(params[Len(params) + 1 - i], scopes)]

LEMMA PushParamsPush ==
  ASSUME NEW inner, NEW at, NEW scopes \in Seq(PageValue), NEW params \in Seq(IdNode \cup StringNode),
         \A i \in DOMAIN params : ParamReaches(at, params[i], scopes),
         NEW B, NEW m \in State(<<>>, B)
  PROVE  /\ PushParams(params) \in Seq(Ops)
         /\ Reversed(params, scopes) \in Seq(Cells)
         /\ Len(Reversed(params, scopes)) = Len(params)
         /\ After(inner, at, m, PushParams(params)) \in State(Reversed(params, scopes), B)
<1> DEFINE n == Len(params)
           parts == [i \in 1 .. n |-> PushParam(params[n + 1 - i])]
           vals == Reversed(params, scopes)
           I == [k \in 0 .. n |-> State(First(vals, k), B)]
<1>1. n \in Nat /\ DOMAIN params = 1 .. n /\ \A i \in 1 .. n : n + 1 - i \in 1 .. n  OBVIOUS
<1>2. \A i \in 1 .. n : params[n + 1 - i] \in IdNode \cup StringNode
  <2> HIDE DEF IdNode, StringNode
  <2> QED  BY <1>1
<1>3. \A i \in 1 .. n : ParamReaches(at, params[n + 1 - i], scopes)  BY <1>1
<1>4. parts \in Seq(Seq(Ops)) /\ Len(parts) = n
  <2>1. \A i \in 1 .. n : PushParam(params[n + 1 - i]) \in Seq(Ops)  BY <1>2, ParamTypes
  <2>2. parts \in [1 .. n -> Seq(Ops)]
    <3> HIDE DEF Ops, n
    <3> QED  BY <2>1
  <2> HIDE DEF parts, n
  <2> QED  BY <1>1, <2>2
<1>5. vals \in Seq(Cells) /\ Len(vals) = n
  <2>1. \A i \in 1 .. n : ParamValue(params[n + 1 - i], scopes) \in Cells  BY <1>2, ParamValueType
  <2>2. vals \in [1 .. n -> Cells]
    <3> HIDE DEF Cells
    <3> QED  BY <2>1 DEF Reversed
  <2> HIDE DEF vals, n
  <2> QED  BY <1>1, <2>2
<1>6. \A i \in 1 .. n : vals[i] = ParamValue(params[n + 1 - i], scopes)  BY DEF Reversed
<1>7. \A i \in 1 .. n : parts[i] = PushParam(params[n + 1 - i])  OBVIOUS
<1>8. \A k \in 0 .. n : I[k] = State(First(vals, k), B)  OBVIOUS
<1>9. PushParams(params) = FlattenSeq(parts)  BY DEF PushParams
<1>10. PushParams(params) \in Seq(Ops)  BY <1>4, <1>9, FlattenIsSeq
<1> HIDE DEF n, parts, vals, I
<1>11. m \in I[0]
  <2>1. First(vals, 0) = <<>> /\ 0 \in 0 .. n  BY <1>1, <1>5, FirstElements
  <2> QED  BY <1>8, <2>1
<1>12. ASSUME NEW k \in 1 .. n, NEW x \in I[k - 1]  PROVE After(inner, at, x, parts[k]) \in I[k]
  <2>1. k - 1 \in 0 .. n /\ k \in 0 .. n  BY <1>1
  <2>2. x \in State(First(vals, k - 1), B)  BY <1>8, <2>1
  <2>3. First(vals, k - 1) \in Seq(Cells) /\ First(vals, k) = Append(First(vals, k - 1), vals[k])
    BY <1>5, <2>1, FirstElements
  <2>4. After(inner, at, x, PushParam(params[n + 1 - k]))
          \in State(Append(First(vals, k - 1), ParamValue(params[n + 1 - k], scopes)), B)
    BY <1>2, <1>3, <2>2, <2>3, PushParamPushes
  <2> QED  BY <1>6, <1>7, <1>8, <2>1, <2>3, <2>4
<1>13. After(inner, at, m, FlattenSeq(parts)) \in I[Len(parts)]
  BY <1>4, <1>11, <1>12, AfterParts
<1>14. I[Len(parts)] = State(vals, B)
  <2>1. n \in 0 .. n /\ First(vals, n) = vals  BY <1>1, <1>5, FirstElements
  <2> QED  BY <1>4, <1>8, <2>1
<1> QED  BY <1>5, <1>9, <1>10, <1>13, <1>14 DEF vals, n

-----------------------------------------------------------------------------
(* Programs and helpers.                                                     *)

LEMMA TwoOf ==
  ASSUME NEW S, NEW a \in S, NEW b \in S
  PROVE  <<a, b>> \in Seq(S) /\ <<a, b>> = <<a>> \o <<b>>
<1>1. <<a, b>> \in Seq(S)  OBVIOUS
<1> DEFINE u == <<a>>
           v == <<b>>
           s == <<a, b>>
           t == u \o v
<1>2. u \in Seq(S) /\ v \in Seq(S) /\ Len(u) = 1 /\ Len(v) = 1 /\ u[1] = a /\ v[1] = b  OBVIOUS
<1>3. s \in Seq(S) /\ Len(s) = 2 /\ s[1] = a /\ s[2] = b  OBVIOUS
<1> HIDE DEF u, v
<1>4. /\ t \in Seq(S) /\ Len(t) = Len(u) + Len(v)
      /\ \A i \in 1 .. Len(u) + Len(v) : t[i] = IF i <= Len(u) THEN u[i] ELSE v[i - Len(u)]
  BY <1>2, ConcatProperties
<1> HIDE DEF s, t
<1>5. Len(t) = 2 /\ t[1] = a /\ t[2] = b  BY <1>2, <1>4
<1>6. \A i \in 1 .. Len(s) : s[i] = t[i]
  <2>1. \A i \in 1 .. 2 : i = 1 \/ i = 2  OBVIOUS
  <2> QED  BY <1>3, <1>5, <2>1
<1>7. s = t  BY <1>3, <1>4, <1>5, <1>6, SeqEqual
<1>8. <<a, b>> = <<a>> \o <<b>>  BY <1>7 DEF s, t, u, v
<1> QED  BY <1>1, <1>8

LEMMA AfterTwo ==
  ASSUME NEW inner, NEW at, NEW m, NEW a \in Ops, NEW b \in Ops
  PROVE  /\ After(inner, at, m, <<a, b>>) = Step(inner, at, Step(inner, at, m, a), b)
         /\ <<a, b>> \in Seq(Ops)
<1> DEFINE u == <<a>>
           v == <<b>>
<1>1. <<a, b>> = u \o v /\ <<a, b>> \in Seq(Ops)  BY TwoOf
<1>2. u \in Seq(Ops) /\ v \in Seq(Ops)  BY OneOf
<1>3. After(inner, at, m, u) = Step(inner, at, m, a)  BY AfterOne
<1>4. After(inner, at, Step(inner, at, m, a), v) = Step(inner, at, Step(inner, at, m, a), b)
  BY AfterOne
<1> HIDE DEF u, v
<1>5. After(inner, at, m, u \o v) = After(inner, at, After(inner, at, m, u), v)
  BY <1>2, AfterConcat
<1> QED  BY ONLY <1>1, <1>3, <1>4, <1>5, Zenon

\* A stack with two values more.
TwoOn(s, x, y) == Append(Append(s, x), y)

LEMMA TwoMore ==
  ASSUME NEW V, NEW s \in Seq(V), NEW x, NEW y
  PROVE  /\ Len(TwoOn(s, x, y)) = Len(s) + 2
         /\ TwoOn(s, x, y)[Len(s) + 1] = x
         /\ TwoOn(s, x, y)[Len(s) + 2] = y
         /\ \A i \in 1 .. Len(s) : TwoOn(s, x, y)[i] = s[i]
         /\ \A n \in 0 .. Len(s) : SubSeq(TwoOn(s, x, y), 1, n) = First(s, n)
<1> DEFINE W == V \cup {x, y}
           a == Append(s, x)
           t == Append(a, y)
           n == Len(s)
<1>1. s \in Seq(W) /\ n \in Nat  OBVIOUS
<1>2. x \in W /\ y \in W  OBVIOUS
<1> HIDE DEF W, n
<1>3. /\ a \in Seq(W) /\ Len(a) = n + 1 /\ a[n + 1] = x
      /\ \A i \in 1 .. n : a[i] = s[i]
  BY <1>1, <1>2, AppendProperties DEF n
<1> HIDE DEF a
<1>4. /\ t \in Seq(W) /\ Len(t) = Len(a) + 1 /\ t[Len(a) + 1] = y
      /\ \A i \in 1 .. Len(a) : t[i] = a[i]
  BY <1>2, <1>3, AppendProperties
<1> HIDE DEF t
<1>5. /\ Len(t) = n + 2 /\ t[n + 1] = x /\ t[n + 2] = y /\ \A i \in 1 .. n : t[i] = s[i]
  <2>1. n + 1 \in 1 .. Len(a) /\ (n + 1) + 1 = n + 2 /\ \A i \in 1 .. n : i \in 1 .. Len(a)
    BY <1>1, <1>3
  <2> QED  BY <1>3, <1>4, <2>1
<1>6. ASSUME NEW k \in 0 .. n  PROVE SubSeq(t, 1, k) = First(s, k)
  <2>1. k \in Nat /\ \A i \in 1 .. k : i \in 1 .. Len(t) /\ i \in 1 .. n /\ 1 + i - 1 = i
    BY <1>1, <1>5
  <2>2. \A i \in 1 .. k : t[i] \in W  BY <1>4, <2>1
  <2>3. /\ SubSeq(t, 1, k) \in Seq(W) /\ Len(SubSeq(t, 1, k)) = IF 1 <= k THEN k - 1 + 1 ELSE 0
        /\ \A i \in 1 .. k - 1 + 1 : SubSeq(t, 1, k)[i] = t[1 + i - 1]
    BY <1>4, <2>1, <2>2, SubSeqProperties
  <2> DEFINE r == SubSeq(t, 1, k)
  <2>4. r \in Seq(W) /\ Len(r) = k /\ \A i \in 1 .. k : r[i] = t[i]  BY <2>1, <2>3
  <2>5. /\ First(s, k) \in Seq(W) /\ Len(First(s, k)) = k
        /\ \A i \in 1 .. k : First(s, k)[i] = s[i]
    <3>1. k \in 0 .. Len(s)  BY DEF n
    <3>2. \A i \in 1 .. k : First(s, k)[i] = s[i]  BY DEF First
    <3> QED  BY <1>1, <3>1, <3>2, FirstElements
  <2> HIDE DEF r
  <2>6. \A i \in 1 .. k : r[i] = First(s, k)[i]  BY <1>5, <2>1, <2>4, <2>5
  <2>7. r = First(s, k)  BY <2>4, <2>5, <2>6, SeqEqual
  <2> QED  BY <2>7 DEF r
<1> QED  BY <1>5, <1>6 DEF t, a, n, TwoOn

\* The two programs of a block are pushed.
LEMMA ProgramsAre ==
  ASSUME NEW inner, NEW at, NEW m, NEW program \in Program \cup {NoProgram},
         NEW inverse \in Program \cup {NoProgram}
  PROVE  /\ Programs(program, inverse) \in Seq(Ops)
         /\ After(inner, at, m, Programs(program, inverse))
              = Push(Push(m, Closure(at, program)), Closure(at, inverse))
<1> DEFINE a == Op("pushProgram", program)
           b == Op("pushProgram", inverse)
           x == Closure(at, program)
           y == Closure(at, inverse)
<1>1. a \in Ops /\ b \in Ops  BY OpType DEF Args, OpNames
<1>2. Programs(program, inverse) = <<a, b>>  BY DEF Programs
<1>3. \A w : Step(inner, at, w, a) = Push(w, x) /\ Step(inner, at, w, b) = Push(w, y)
  BY StepOpcodes DEF PushProgram
<1> HIDE DEF a, b, x, y
<1>4. After(inner, at, m, <<a, b>>) = Push(Push(m, x), y) /\ <<a, b>> \in Seq(Ops)
  BY <1>1, <1>3, AfterTwo
<1> QED  BY <1>2, <1>4 DEF x, y

LEMMA ProgramsPush ==
  ASSUME NEW inner, NEW at, NEW program \in Program \cup {NoProgram},
         NEW inverse \in Program \cup {NoProgram},
         NEW V, NEW s \in Seq(V), NEW B, NEW m \in State(s, B)
  PROVE  /\ Programs(program, inverse) \in Seq(Ops)
         /\ After(inner, at, m, Programs(program, inverse))
              \in State(TwoOn(s, Closure(at, program), Closure(at, inverse)), B)
<1> DEFINE x == Closure(at, program)
           y == Closure(at, inverse)
<1>1. /\ Programs(program, inverse) \in Seq(Ops)
      /\ After(inner, at, m, Programs(program, inverse)) = Push(Push(m, x), y)
  BY ProgramsAre
<1> HIDE DEF x, y
<1>2. Push(Push(m, x), y) \in State(TwoOn(s, x, y), B)  BY DEF Push, State, TwoOn
<1> QED  BY <1>1, <1>2 DEF x, y

\* What is on top of a stack with two programs.
LEMMA TwoTop ==
  ASSUME NEW V, NEW s \in Seq(V), NEW x, NEW y, NEW B, NEW m \in State(TwoOn(s, x, y), B)
  PROVE  /\ Peek(m, 0) = y /\ Peek(m, 1) = x
         /\ \A i \in 1 .. Len(s) : Peek(m, i + 1) = s[Len(s) + 1 - i]
         /\ \A k \in 0 .. Len(s) : Pop(m, k + 2) \in State(First(s, Len(s) - k), B)
<1> DEFINE n == Len(s)
           t == TwoOn(s, x, y)
<1>1. n \in Nat  OBVIOUS
<1>2. /\ Len(t) = n + 2 /\ t[n + 1] = x /\ t[n + 2] = y
      /\ \A i \in 1 .. n : t[i] = s[i]
      /\ \A k \in 0 .. n : SubSeq(t, 1, k) = First(s, k)
  BY TwoMore
<1>3. m.stack = t  BY DEF State
<1> HIDE DEF t, n
<1>4. \A i : Peek(m, i) = t[Len(t) - i]  BY <1>3 DEF Peek
<1>5. Len(t) - 0 = n + 2 /\ Len(t) - 1 = n + 1  BY <1>1, <1>2
<1>6. Peek(m, 0) = y /\ Peek(m, 1) = x  BY <1>2, <1>4, <1>5
<1>7. ASSUME NEW i \in 1 .. n  PROVE Peek(m, i + 1) = s[n + 1 - i]
  <2>1. Len(t) - (i + 1) = n + 1 - i /\ n + 1 - i \in 1 .. n  BY <1>1, <1>2
  <2> QED  BY <1>2, <1>4, <2>1
<1>8. ASSUME NEW k \in 0 .. n  PROVE Pop(m, k + 2) \in State(First(s, n - k), B)
  <2>1. Len(t) - (k + 2) = n - k /\ n - k \in 0 .. n  BY <1>1, <1>2
  <2>2. SubSeq(t, 1, Len(t) - (k + 2)) = First(s, n - k)  BY <1>2, <2>1
  <2>3. Pop(m, k + 2) \in State(SubSeq(t, 1, Len(t) - (k + 2)), B)  BY <1>3 DEF Pop, State
  <2> QED  BY <2>2, <2>3
<1> QED  BY <1>6, <1>7, <1>8 DEF n, t

-----------------------------------------------------------------------------
(* What the programs of a block are called with.                             *)

AreRuns(runs) ==
  \A i \in DOMAIN runs : runs[i].which \in {"program", "inverse"} /\ runs[i].context \in PageValue

LEMMA OnceIsRun ==
  ASSUME NEW which \in {"program", "inverse"}, NEW context \in PageValue
  PROVE  AreRuns(Once(which, context))
<1> DEFINE x == Run(which, context)
<1>1. x.which = which /\ x.context = context  BY DEF Run
<1> HIDE DEF x
<1> DEFINE runs == <<x>>
<1>2. DOMAIN runs = {1} /\ runs[1] = x  OBVIOUS
<1> HIDE DEF runs
<1>3. AreRuns(runs)  BY <1>1, <1>2 DEF AreRuns
<1> QED  BY <1>3 DEF runs, x, Once

LEMMA EachIsRun ==
  ASSUME NEW items \in Seq(PageValue)
  PROVE  AreRuns(InEach(items))
<1>1. \A i \in DOMAIN items : items[i] \in PageValue  OBVIOUS
<1> QED  BY <1>1 DEF InEach, AreRuns, Run

LEMMA ValueParts ==
  ASSUME NEW v \in PageValue
  PROVE  /\ v.type = "array" => v.items \in Seq(PageValue)
         /\ v.type = "object" => [i \in DOMAIN v.fields |-> v.fields[i][2]] \in Seq(PageValue)
<1>1. v.type = "array" => v.items \in Seq(PageValue)  BY PageValueAssumption
<1>2. ASSUME v.type = "object"  PROVE [i \in DOMAIN v.fields |-> v.fields[i][2]] \in Seq(PageValue)
  <2> DEFINE s == v.fields
             n == Len(s)
  <2>1. s \in Seq(STRING \X PageValue)  BY <1>2, PageValueAssumption
  <2>2. n \in Nat /\ DOMAIN s = 1 .. n /\ \A i \in 1 .. n : s[i][2] \in PageValue  BY <2>1
  <2> HIDE DEF s, n
  <2>3. [i \in DOMAIN s |-> s[i][2]] \in [1 .. n -> PageValue]  BY <2>2
  <2> DEFINE r == [i \in DOMAIN s |-> s[i][2]]
  <2> HIDE DEF r
  <2>4. r \in Seq(PageValue)  BY <2>2, <2>3 DEF r
  <2> QED  BY <2>4 DEF r, s
<1> QED  BY <1>1, <1>2

LEMMA SectionAreRuns ==
  ASSUME NEW value \in PageValue, NEW this \in PageValue
  PROVE  AreRuns(SectionRuns(value, this))
<1> DEFINE runs == SectionRuns(value, this)
<1> HIDE DEF AreRuns, Once, InEach
<1>1. CASE value = True \/ value \in {Undefined, False}
  <2>1. runs = Once("program", this) \/ runs = Once("inverse", this)
    BY <1>1 DEF SectionRuns, True, False, Undefined
  <2> QED  BY <2>1, OnceIsRun
<1>2. CASE ~(value = True \/ value \in {Undefined, False}) /\ value.type = "array"
  <2>1. runs = IF value.items = <<>> THEN Once("inverse", this) ELSE InEach(value.items)
    BY <1>2 DEF SectionRuns
  <2>2. AreRuns(Once("inverse", this))  BY OnceIsRun
  <2>3. AreRuns(InEach(value.items))  BY <1>2, ValueParts, EachIsRun
  <2>4. CASE value.items = <<>>  BY <2>1, <2>2, <2>4
  <2>5. CASE value.items # <<>>  BY <2>1, <2>3, <2>5
  <2> QED  BY <2>4, <2>5
<1>3. CASE ~(value = True \/ value \in {Undefined, False}) /\ value.type # "array"
  <2>1. runs = Once("program", value)  BY <1>3 DEF SectionRuns
  <2> QED  BY <2>1, OnceIsRun
<1> QED  BY <1>1, <1>2, <1>3

LEMMA EachAreRuns ==
  ASSUME NEW value \in PageValue, NEW this \in PageValue
  PROVE  AreRuns(EachRuns(value, this))
<1> DEFINE items == CASE value.type = "array"  -> value.items
                      [] value.type = "object" -> [i \in DOMAIN value.fields |-> value.fields[i][2]]
                      [] OTHER -> <<>>
<1>1. items \in Seq(PageValue)
  <2>1. CASE value.type = "array"
    <3>1. items = value.items  BY <2>1
    <3> QED  BY <2>1, <3>1, ValueParts
  <2>2. CASE value.type = "object"
    <3>1. items = [i \in DOMAIN value.fields |-> value.fields[i][2]]  BY <2>2
    <3> QED  BY <2>2, <3>1, ValueParts
  <2>3. CASE value.type # "array" /\ value.type # "object"
    <3>1. items = <<>>  BY <2>3
    <3> HIDE DEF items
    <3> QED  BY <3>1
  <2> QED  BY <2>1, <2>2, <2>3
<1>2. EachRuns(value, this) = IF items = <<>> THEN Once("inverse", this) ELSE InEach(items)
  BY DEF EachRuns
<1> HIDE DEF items
<1>3. AreRuns(Once("inverse", this)) /\ AreRuns(InEach(items))  BY <1>1, OnceIsRun, EachIsRun
<1>4. CASE items = <<>>  BY <1>2, <1>3, <1>4
<1>5. CASE items # <<>>  BY <1>2, <1>3, <1>5
<1> QED  BY <1>4, <1>5

LEMMA BlockAreRuns ==
  ASSUME NEW name \in Blocks, NEW this \in PageValue, NEW params \in Seq(PageValue)
  PROVE  AreRuns(BlockRuns(name, this, params))
<1> DEFINE value == Param(params, 1)
           runs == BlockRuns(name, this, params)
<1>1. value \in PageValue
  <2>1. Undefined \in PageValue  BY PageValueAssumption
  <2>2. 1 <= Len(params) => params[1] \in PageValue  OBVIOUS
  <2> QED  BY <2>1, <2>2, Zenon DEF Param
<1>2. name \in {"each", "if", "unless", "with", "granted"}  BY DEF Blocks
<1>3. /\ AreRuns(Once("program", this)) /\ AreRuns(Once("inverse", this))
      /\ AreRuns(Once("program", value)) /\ AreRuns(<<>>)
  <2>1. AreRuns(<<>>)
    <3>1. DOMAIN <<>> = {}  OBVIOUS
    <3> QED  BY <3>1 DEF AreRuns
  <2> HIDE DEF value
  <2> QED  BY <1>1, <2>1, OnceIsRun
<1>4. CASE name = "each"
  <2>1. runs = EachRuns(value, this)  BY <1>4 DEF BlockRuns
  <2> HIDE DEF value
  <2> QED  BY <1>1, <2>1, EachAreRuns
<1>5. CASE name = "if"
  <2>1. runs = IfRuns(value, this)  BY <1>5 DEF BlockRuns
  <2> HIDE DEF value
  <2>2. runs = Once("program", this) \/ runs = Once("inverse", this)  BY <2>1, Zenon DEF IfRuns
  <2> QED  BY <1>3, <2>2
<1>6. CASE name = "unless"
  <2>1. runs = UnlessRuns(value, this)  BY <1>6 DEF BlockRuns
  <2> HIDE DEF value
  <2>2. runs = Once("program", this) \/ runs = Once("inverse", this)  BY <2>1, Zenon DEF UnlessRuns
  <2> QED  BY <1>3, <2>2
<1>7. CASE name = "with"
  <2>1. runs = WithRuns(value)  BY <1>7 DEF BlockRuns
  <2> HIDE DEF value
  <2>2. runs = <<>> \/ runs = Once("program", value)  BY <2>1, Zenon DEF WithRuns
  <2> QED  BY <1>3, <2>2
<1>8. CASE name = "granted"
  <2>1. runs = GrantedRuns(value, this)  BY <1>8 DEF BlockRuns
  <2> HIDE DEF value
  <2>2. runs = <<>> \/ runs = Once("program", this)  BY <2>1, Zenon DEF GrantedRuns
  <2> QED  BY <1>3, <2>2
<1> QED  BY <1>2, <1>4, <1>5, <1>6, <1>7, <1>8

-----------------------------------------------------------------------------
(* The scopes a program looks out to.                                        *)

LEMMA NodesOf ==
  ASSUME NEW p \in Program
  PROVE  /\ p \in Seq(ContentNode \cup MustacheNode \cup BlockNode)
         /\ \A i \in DOMAIN p : /\ p[i].type \in {"content", "mustache", "block"}
                                /\ p[i].type = "content" => p[i] \in ContentNode
                                /\ p[i].type = "mustache" => /\ p[i] \in MustacheNode
                                                             /\ ValidCall(p[i], Simple)
                                /\ p[i].type = "block" => /\ p[i] \in BlockNode
                                                          /\ ValidCall(p[i].mustache, Blocks)
                                                          /\ p[i].program \in Inside(p)
                                                          /\ p[i].inverse \in Inside(p)
<1>1. p \in Seq(ContentNode \cup MustacheNode \cup BlockNode)  BY ProgramAssumption
<1> SUFFICES ASSUME NEW i \in DOMAIN p
             PROVE  /\ p[i].type \in {"content", "mustache", "block"}
                    /\ p[i].type = "content" => p[i] \in ContentNode
                    /\ p[i].type = "mustache" => p[i] \in MustacheNode /\ ValidCall(p[i], Simple)
                    /\ p[i].type = "block" => /\ p[i] \in BlockNode
                                              /\ ValidCall(p[i].mustache, Blocks)
                                              /\ p[i].program \in Inside(p)
                                              /\ p[i].inverse \in Inside(p)
  BY <1>1
<1>2. p[i] \in ContentNode \cup MustacheNode \cup BlockNode
  <2> HIDE DEF ContentNode, MustacheNode, BlockNode
  <2> QED  BY <1>1
<1>3. /\ p[i].type \in {"content", "mustache", "block"}
      /\ p[i].type = "content" => p[i] \in ContentNode
      /\ p[i].type = "mustache" => p[i] \in MustacheNode
      /\ p[i].type = "block" => p[i] \in BlockNode
  BY <1>2 DEF ContentNode, MustacheNode, BlockNode
<1>4. ValidNode(p[i], Nesting[p])  BY ProgramAssumption
<1>5. p[i].type = "mustache" => ValidCall(p[i], Simple)  BY <1>4 DEF ValidNode
<1>6. p[i].type = "block" => ValidCall(p[i].mustache, Blocks)  BY <1>4 DEF ValidNode
<1>7. p[i].type = "block" => p[i].program \in Inside(p) /\ p[i].inverse \in Inside(p)
  BY DEF Inside
<1> QED  BY <1>3, <1>5, <1>6, <1>7

LEMMA MustacheDepths ==
  ASSUME NEW mustache \in MustacheNode
  PROVE  IdDepths(mustache) \subseteq Nat \ {0}
<1>1. mustache.id.depth \in Nat  BY DEF MustacheNode, IdNode
<1>2. ASSUME NEW i \in DOMAIN mustache.params, mustache.params[i].type = "ID"
      PROVE  mustache.params[i].depth \in Nat
  <2>1. mustache.params \in Seq(IdNode \cup StringNode)  BY DEF MustacheNode
  <2>2. mustache.params[i] \in IdNode \cup StringNode
    <3> HIDE DEF IdNode, StringNode
    <3> QED  BY <2>1
  <2> QED  BY <1>2, <2>2 DEF IdNode, StringNode
<1> QED  BY <1>1, <1>2 DEF IdDepths

LEMMA NodesDepths ==
  ASSUME NEW p \in Program, NEW i \in DOMAIN p
  PROVE  NodeDepths(p[i]) \subseteq Nat \ {0}
<1>1. CASE p[i].type = "content"  BY <1>1 DEF NodeDepths
<1>2. CASE p[i].type = "mustache"
  <2>1. p[i] \in MustacheNode  BY <1>2, NodesOf
  <2> QED  BY <1>2, <2>1, MustacheDepths DEF NodeDepths
<1>3. CASE p[i].type = "block"
  <2>1. p[i] \in BlockNode  BY <1>3, NodesOf
  <2>2. p[i].mustache \in MustacheNode  BY <2>1 DEF BlockNode
  <2> QED  BY <1>3, <2>2, MustacheDepths DEF NodeDepths
<1> QED  BY <1>1, <1>2, <1>3, NodesOf

LEMMA UnionOf ==
  ASSUME NEW A, NEW B, NEW D, D = (UNION A) \cup (UNION B)
  PROVE  /\ \A s \in A \cup B : s \subseteq D
         /\ \A N : (\A s \in A \cup B : s \subseteq N) => D \subseteq N
<1>1. ASSUME NEW s \in A \cup B, NEW x \in s  PROVE x \in D
  <2>1. x \in (UNION A) \cup (UNION B)  OBVIOUS
  <2> QED  BY <2>1
<1>2. ASSUME NEW N, \A s \in A \cup B : s \subseteq N, NEW x \in D  PROVE x \in N
  <2>1. x \in (UNION A) \cup (UNION B)  OBVIOUS
  <2>2. PICK s \in A \cup B : x \in s  BY <2>1
  <2> QED  BY <1>2, <2>2
<1> QED  BY <1>1, <1>2

\* A program looks out as far as its statements do, and one scope less than its blocks.
LEMMA DepthsAre ==
  ASSUME NEW p \in Program
  PROVE  /\ Depths[p] \subseteq Nat \ {0}
         /\ \A i \in DOMAIN p : NodeDepths(p[i]) \subseteq Depths[p]
         /\ \A q \in Inside(p) : Outer(Depths[q]) \subseteq Depths[p]
<1>1. ASSUME NEW r \in Program
      PROVE  Depths[r] = (UNION {NodeDepths(r[i]) : i \in DOMAIN r})
                           \cup (UNION {Outer(Depths[q]) : q \in Inside(r)})
  <2> DEFINE f == [q \in Inside(r) |-> Depths[q]]
  <2>1. Depths[r] = DepthsOf(f, r)  BY DepthsEquation
  <2>2. \A q \in Inside(r) : f[q] = Depths[q]  OBVIOUS
  <2> HIDE DEF f, NodeDepths, Outer
  <2>3. UNION {Outer(f[q]) : q \in Inside(r)} = UNION {Outer(Depths[q]) : q \in Inside(r)}
    BY <2>2
  <2> QED  BY <2>1, <2>3 DEF DepthsOf
<1>2. (\A i \in DOMAIN p : NodeDepths(p[i]) \subseteq Depths[p])
      /\ \A q \in Inside(p) : Outer(Depths[q]) \subseteq Depths[p]
  <2> DEFINE A == {NodeDepths(p[i]) : i \in DOMAIN p}
             B == {Outer(Depths[q]) : q \in Inside(p)}
  <2> HIDE DEF NodeDepths, Outer
  <2>1. \A i \in DOMAIN p : NodeDepths(p[i]) \in A  OBVIOUS
  <2>2. \A q \in Inside(p) : Outer(Depths[q]) \in B  OBVIOUS
  <2>3. Depths[p] = (UNION A) \cup (UNION B)  BY <1>1
  <2> HIDE DEF A, B
  <2>4. \A s \in A \cup B : s \subseteq Depths[p]  BY <2>3, UnionOf
  <2>5. ASSUME NEW i \in DOMAIN p  PROVE NodeDepths(p[i]) \subseteq Depths[p]
    <3>1. NodeDepths(p[i]) \in A \cup B  BY <2>1
    <3> QED  BY <2>4, <3>1, Zenon
  <2>6. ASSUME NEW q \in Inside(p)  PROVE Outer(Depths[q]) \subseteq Depths[p]
    <3>1. Outer(Depths[q]) \in A \cup B  BY <2>2
    <3> QED  BY <2>4, <3>1, Zenon
  <2> QED  BY <2>5, <2>6
<1> DEFINE S == {n \in Nat : \A r \in Below(n) : Depths[r] \subseteq Nat \ {0}}
<1>3. 0 \in S
  <2>1. \A r \in Program : Nesting[r] \in Nat  BY ProgramAssumption
  <2> QED  BY <2>1 DEF Below
<1>4. ASSUME NEW n \in Nat, n \in S  PROVE n + 1 \in S
  <2>1. SUFFICES ASSUME NEW r \in Below(n + 1)  PROVE Depths[r] \subseteq Nat \ {0}  OBVIOUS
  <2>2. r \in Program /\ Inside(r) \subseteq Below(n)  BY BelowTheNext
  <2>3. \A q \in Inside(r) : Depths[q] \subseteq Nat \ {0}  BY <1>4, <2>2
  <2>4. \A q \in Inside(r) : Outer(Depths[q]) \subseteq Nat \ {0}
    <3> SUFFICES ASSUME NEW q \in Inside(r), NEW d \in Depths[q], d >= 2  PROVE d - 1 \in Nat \ {0}
      BY DEF Outer
    <3>1. d \in Nat  BY <2>3
    <3> QED  BY <3>1
  <2>5. \A i \in DOMAIN r : NodeDepths(r[i]) \subseteq Nat \ {0}  BY <2>2, NodesDepths
  <2> DEFINE A == {NodeDepths(r[i]) : i \in DOMAIN r}
             B == {Outer(Depths[q]) : q \in Inside(r)}
  <2> HIDE DEF NodeDepths, Outer
  <2>6. \A s \in A : s \subseteq Nat \ {0}  BY <2>5
  <2>7. \A s \in B : s \subseteq Nat \ {0}  BY <2>4
  <2>8. Depths[r] = (UNION A) \cup (UNION B)  BY <1>1, <2>2
  <2> HIDE DEF A, B
  <2>9. \A s \in A \cup B : s \subseteq Nat \ {0}  BY <2>6, <2>7
  <2> QED  BY <2>8, <2>9, UnionOf
<1>5. Nat \subseteq S
  <2> HIDE DEF S
  <2> QED  BY <1>3, <1>4, Induction
<1>6. Depths[p] \subseteq Nat \ {0}
  <2>1. Nesting[p] \in Nat /\ Nesting[p] + 1 \in Nat /\ p \in Below(Nesting[p] + 1)
    <3>1. Nesting[p] \in Nat  BY InsideIsBelow
    <3> QED  BY <3>1 DEF Below
  <2>2. Nesting[p] + 1 \in S  BY <1>5, <2>1
  <2> QED  BY <2>1, <2>2
<1> QED  BY <1>2, <1>6

-----------------------------------------------------------------------------
(* What the function of a program is given.                                  *)

\* The contexts of a program: one for each scope it looks out to.
Given(p, scopes) == [d \in Parameters(p) |-> Outward(scopes, d)]

LEMMA GivenScopes ==
  ASSUME NEW p \in Program, NEW scopes \in Seq(PageValue)
  PROVE  /\ Parameters(p) \subseteq Nat
         /\ Given(p, scopes) \in [Parameters(p) -> PageValue \cup {ReferenceError}]
         /\ \A d \in Parameters(p) : Reaches(Given(p, scopes), d, scopes)
<1>1. Parameters(p) \subseteq Nat  BY DepthsAre DEF Parameters
<1>2. \A d \in Parameters(p) : Outward(scopes, d) \in PageValue  BY <1>1, OutwardIsAValue
<1>3. Given(p, scopes) \in [Parameters(p) -> PageValue \cup {ReferenceError}]
  <2> HIDE DEF Outward, Parameters, ReferenceError
  <2> QED  BY <1>2 DEF Given
<1>4. \A d \in Parameters(p) : Reaches(Given(p, scopes), d, scopes)
  <2> HIDE DEF Outward, Parameters, ReferenceError
  <2> QED  BY DEF Given, Reaches, At
<1> QED  BY <1>1, <1>3, <1>4

LEMMA InnerScope ==
  ASSUME NEW c \in PageValue, NEW scopes \in Seq(PageValue)
  PROVE  /\ <<c>> \o scopes \in Seq(PageValue)
         /\ Outward(<<c>> \o scopes, 0) = c
         /\ \A d \in Nat \ {0} : Outward(<<c>> \o scopes, d) = Outward(scopes, d - 1)
<1> DEFINE u == <<c>>
           t == u \o scopes
<1>1. u \in Seq(PageValue) /\ Len(u) = 1 /\ u[1] = c  BY OneOf
<1> HIDE DEF u
<1>2. /\ t \in Seq(PageValue) /\ Len(t) = Len(u) + Len(scopes)
      /\ \A i \in 1 .. Len(u) + Len(scopes) :
           t[i] = IF i <= Len(u) THEN u[i] ELSE scopes[i - Len(u)]
  BY <1>1, ConcatProperties
<1> HIDE DEF t
<1>3. Len(scopes) \in Nat  OBVIOUS
<1>4. Len(t) = Len(scopes) + 1 /\ t[1] = c
  BY <1>1, <1>2, <1>3
<1>5. \A i \in 2 .. Len(scopes) + 1 : t[i] = scopes[i - 1]
  BY <1>1, <1>2, <1>3
<1>6. Outward(t, 0) = c  BY <1>3, <1>4 DEF Outward
<1>7. ASSUME NEW d \in Nat \ {0}  PROVE Outward(t, d) = Outward(scopes, d - 1)
  <2>1. CASE d < Len(t)
    <3>1. d + 1 \in 2 .. Len(scopes) + 1 /\ (d + 1) - 1 = d /\ (d - 1) + 1 = d /\ d - 1 < Len(scopes)
      BY <1>3, <1>4, <2>1
    <3>2. Outward(t, d) = t[d + 1]  BY <2>1 DEF Outward
    <3>3. Outward(scopes, d - 1) = scopes[d]  BY <3>1 DEF Outward
    <3> QED  BY <1>5, <3>1, <3>2, <3>3
  <2>2. CASE ~(d < Len(t))
    <3>1. ~(d - 1 < Len(scopes))  BY <1>3, <1>4, <2>2
    <3> QED  BY <2>2, <3>1 DEF Outward
  <2> QED  BY <2>1, <2>2
<1> QED  BY <1>2, <1>6, <1>7 DEF t, u

\* A program of a block is given the contexts it needs, by the program around it.
LEMMA DeclaredGiven ==
  ASSUME NEW p \in Program, NEW q \in Inside(p), NEW c \in PageValue, NEW scopes \in Seq(PageValue)
  PROVE  Declared(q, c, Given(p, scopes)) = Given(q, <<c>> \o scopes)
<1> DEFINE at == Given(p, scopes)
           t == <<c>> \o scopes
<1>1. q \in Program  BY InsideIsBelow
<1>2. ASSUME NEW d \in Parameters(q)
      PROVE  (IF d = 0 THEN c ELSE At(at, d - 1)) = Outward(t, d)
  <2>1. CASE d = 0
    <3>1. Outward(t, 0) = c  BY InnerScope
    <3> QED  BY <2>1, <3>1
  <2>2. CASE d # 0
    <3>1. d \in Depths[q] /\ d \in Nat \ {0}  BY <1>1, <2>2, DepthsAre DEF Parameters
    <3>2. d - 1 \in Parameters(p)
      <4>1. CASE d = 1  BY <4>1 DEF Parameters
      <4>2. CASE d # 1
        <5>1. d >= 2  BY <3>1, <4>2
        <5>2. d - 1 \in Outer(Depths[q])  BY <3>1, <5>1 DEF Outer
        <5> QED  BY <5>2, DepthsAre DEF Parameters
      <4> QED  BY <4>1, <4>2
    <3>3. At(at, d - 1) = Outward(scopes, d - 1)  BY <3>2, GivenScopes DEF Reaches
    <3>4. Outward(t, d) = Outward(scopes, d - 1)  BY <3>1, InnerScope
    <3> HIDE DEF at, t
    <3> QED  BY <2>2, <3>3, <3>4
  <2> QED  BY <2>1, <2>2
<1> HIDE DEF at, t
<1>3. Declared(q, c, at) = Given(q, t)
  <2> HIDE DEF At, Outward, Parameters
  <2> QED  BY <1>2 DEF Declared, Given
<1> QED  BY <1>3 DEF at, t

\* Every name of a call looks out to a scope that its program is given.
CallReaches(at, mustache, scopes) ==
  /\ Reaches(at, 0, scopes)
  /\ Reaches(at, mustache.id.depth, scopes)
  /\ \A i \in DOMAIN mustache.params : ParamReaches(at, mustache.params[i], scopes)

LEMMA MustacheReaches ==
  ASSUME NEW p \in Program, NEW scopes \in Seq(PageValue), NEW mustache \in MustacheNode,
         IdDepths(mustache) \subseteq Depths[p]
  PROVE  CallReaches(Given(p, scopes), mustache, scopes)
<1>1. \A d \in Parameters(p) : Reaches(Given(p, scopes), d, scopes)  BY GivenScopes
<1>2. 0 \in Parameters(p)  BY DEF Parameters
<1>3. mustache.id.depth \in Parameters(p)  BY DEF Parameters, IdDepths
<1>4. ASSUME NEW i \in DOMAIN mustache.params, mustache.params[i].type = "ID"
      PROVE  mustache.params[i].depth \in Parameters(p)
  BY <1>4 DEF Parameters, IdDepths
<1> QED  BY <1>1, <1>2, <1>3, <1>4 DEF CallReaches, ParamReaches

\* The functions that are generated for the programs of the blocks render them.
CallsRender(inner, rendering, p) ==
  \A q \in Inside(p), scopes \in Seq(PageValue) : inner[q][Given(q, scopes)] = rendering[q][scopes]

RunsText(rendering, block, runs, scopes) ==
  FlattenSeq([i \in DOMAIN runs |-> rendering[block[runs[i].which]][<<runs[i].context>> \o scopes]])

LEMMA BlockRenders ==
  ASSUME NEW p \in Program, NEW inner, NEW rendering, CallsRender(inner, rendering, p),
         NEW block, block.program \in Inside(p), block.inverse \in Inside(p),
         NEW scopes \in Seq(PageValue), NEW runs, AreRuns(runs)
  PROVE  RunBlock(inner, runs, Closure(Given(p, scopes), block.program),
                               Closure(Given(p, scopes), block.inverse))
           = Str(RunsText(rendering, block, runs, scopes))
<1> DEFINE at == Given(p, scopes)
           fn == Closure(at, block.program)
           inverse == Closure(at, block.inverse)
           Called(i) == Call(inner, IF runs[i].which = "program" THEN fn ELSE inverse, runs[i].context)
           Html(i) == rendering[block[runs[i].which]][<<runs[i].context>> \o scopes]
<1>1. ASSUME NEW q \in Inside(p), NEW c \in PageValue
      PROVE  Call(inner, Closure(at, q), c) = rendering[q][<<c>> \o scopes]
  <2>1. Call(inner, Closure(at, q), c) = inner[q][Declared(q, c, at)]  BY DEF Call, Closure
  <2>2. Declared(q, c, at) = Given(q, <<c>> \o scopes)  BY DeclaredGiven
  <2>3. <<c>> \o scopes \in Seq(PageValue)  BY InnerScope
  <2>4. inner[q][Given(q, <<c>> \o scopes)] = rendering[q][<<c>> \o scopes]
    BY <2>3 DEF CallsRender
  <2> HIDE DEF at
  <2> QED  BY ONLY <2>1, <2>2, <2>4, Zenon
<1>2. ASSUME NEW i \in DOMAIN runs  PROVE Called(i) = Html(i)
  <2> DEFINE c == runs[i].context
  <2>1. runs[i].which \in {"program", "inverse"} /\ c \in PageValue  BY DEF AreRuns
  <2>2. CASE runs[i].which = "program"
    <3>1. Called(i) = Call(inner, fn, c)  BY <2>2, Zenon
    <3>2. Call(inner, fn, c) = rendering[block.program][<<c>> \o scopes]  BY <1>1, <2>1
    <3>3. Html(i) = rendering[block.program][<<c>> \o scopes]  BY <2>2
    <3> QED  BY ONLY <3>1, <3>2, <3>3, Zenon
  <2>3. CASE runs[i].which = "inverse"
    <3>1. Called(i) = Call(inner, inverse, c)
      <4>1. runs[i].which # "program"  BY <2>3
      <4> QED  BY <4>1, Zenon
    <3>2. Call(inner, inverse, c) = rendering[block.inverse][<<c>> \o scopes]  BY <1>1, <2>1
    <3>3. Html(i) = rendering[block.inverse][<<c>> \o scopes]  BY <2>3
    <3> QED  BY ONLY <3>1, <3>2, <3>3, Zenon
  <2> QED  BY <2>1, <2>2, <2>3
<1>3. RunBlock(inner, runs, fn, inverse) = Str(FlattenSeq([i \in DOMAIN runs |-> Called(i)]))
  BY DEF RunBlock
<1>4. RunsText(rendering, block, runs, scopes) = FlattenSeq([i \in DOMAIN runs |-> Html(i)])
  BY DEF RunsText
<1> HIDE DEF Called, Html, fn, inverse
<1>5. [i \in DOMAIN runs |-> Called(i)] = [i \in DOMAIN runs |-> Html(i)]  BY <1>2
<1>6. RunBlock(inner, runs, fn, inverse) = Str(RunsText(rendering, block, runs, scopes))
  BY <1>3, <1>4, <1>5, Zenon
<1> QED  BY <1>6 DEF fn, inverse, at

-----------------------------------------------------------------------------
(* What is invoked, and what is appended.                                    *)

LEMMA OnlyOne == ASSUME NEW v  PROVE <<>> \in Seq({v}) /\ <<v>> \in Seq({v}) /\ Append(<<>>, v) = <<v>>
  OBVIOUS

LEMMA AppendState ==
  ASSUME NEW inner, NEW at, NEW v, NEW B, NEW m \in State(<<v>>, B), NEW escaped \in BOOLEAN
  PROVE  /\ <<Op("append", escaped)>> \in Seq(Ops)
         /\ After(inner, at, m, <<Op("append", escaped)>>)
              \in State(<<>>, Append(B, Appended(v, escaped)))
<1>1. escaped \in Args  BY DEF Args
<1>2. <<Op("append", escaped)>> \in Seq(Ops)  BY <1>1, OneOp DEF OpNames
<1>3. After(inner, at, m, <<Op("append", escaped)>>) = AppendValue(m, escaped)
  BY AfterOne, StepOpcodes
<1>4. Peek(m, 0) = v /\ Pop(m, 1) \in State(<<>>, B)
  <2> DEFINE V == {v}
             s == <<>>
  <2>1. s \in Seq(V) /\ v \in V /\ Append(s, v) = <<v>>  BY OnlyOne
  <2> HIDE DEF V, s
  <2>2. m \in State(Append(s, v), B)  BY <2>1
  <2>3. Peek(m, 0) = v /\ Pop(m, 1) \in State(s, B)  BY <2>1, <2>2, TopState
  <2> QED  BY <2>3 DEF s
<1>5. AppendValue(m, escaped) \in State(<<>>, Append(B, Appended(v, escaped)))
  <2> DEFINE w == Pop(m, 1)
             b == Append(w.buffer, Appended(Peek(m, 0), escaped))
  <2>1. AppendValue(m, escaped) = [w EXCEPT !.buffer = b]  BY DEF AppendValue
  <2>2. w.buffer = B  BY <1>4 DEF State
  <2>3. b = Append(B, Appended(v, escaped))  BY <1>4, <2>2, Zenon
  <2>4. w \in State(<<>>, B)  BY <1>4
  <2> HIDE DEF w, b
  <2>5. [w EXCEPT !.buffer = b] \in State(<<>>, b)  BY <2>4 DEF State
  <2> QED  BY <2>1, <2>3, <2>5
<1> QED  BY <1>2, <1>3, <1>5

\* The text of a block is not escaped, and is appended even when it is empty.
LEMMA TextAppended == ASSUME NEW t  PROVE Appended(Str(t), FALSE) = t
<1>1. Str(t).type = "string" /\ Str(t).text = t  BY DEF Str
<1>2. Falsy(Str(t)) => t = <<>>  BY DEF Falsy, Str, Undefined, False, Num
<1>3. Printed(Str(t)) = t  BY <1>1 DEF Printed
<1>4. Appended(Str(t), FALSE) = IF Falsy(Str(t)) /\ Str(t).type # "number" THEN <<>> ELSE Printed(Str(t))
  BY DEF Appended
<1>5. CASE Falsy(Str(t))
  <2>1. Appended(Str(t), FALSE) = <<>>  BY <1>1, <1>4, <1>5
  <2> QED  BY <1>2, <1>5, <2>1
<1>6. CASE ~Falsy(Str(t))  BY <1>3, <1>4, <1>6
<1> QED  BY <1>5, <1>6

\* A value in the place of what it was made of.
LEMMA ReplaceWhole ==
  ASSUME NEW V, NEW s \in Seq(V), NEW x, NEW y, NEW B, NEW m \in State(TwoOn(s, x, y), B), NEW v
  PROVE  Replace(m, Len(s) + 2, v) \in State(<<v>>, B)
<1>1. Len(s) \in 0 .. Len(s) /\ Len(s) - Len(s) = 0  OBVIOUS
<1>2. First(s, 0) = <<>>  BY FirstElements
<1>3. Pop(m, Len(s) + 2) \in State(First(s, Len(s) - Len(s)), B)  BY <1>1, TwoTop
<1>4. Pop(m, Len(s) + 2) \in State(<<>>, B)  BY <1>1, <1>2, <1>3
<1>5. Push(Pop(m, Len(s) + 2), v) \in State(Append(<<>>, v), B)
  <2> DEFINE w == Pop(m, Len(s) + 2)
             none == <<>>
  <2>1. none \in Seq({v}) /\ w \in State(none, B)  BY <1>4, OnlyOne
  <2> HIDE DEF w, none
  <2>2. Push(w, v) \in State(Append(none, v), B)  BY <2>1, PushState
  <2> QED  BY <2>2 DEF w, none
<1>6. Append(<<>>, v) = <<v>>  OBVIOUS
<1> QED  BY <1>5, <1>6 DEF Replace

LEMMA InvokeHelperReplaces ==
  ASSUME NEW inner, NEW at, NEW scopes \in Seq(PageValue), Reaches(at, 0, scopes),
         NEW mustache \in MustacheNode, Reversed(mustache.params, scopes) \in Seq(Cells),
         Len(Reversed(mustache.params, scopes)) = Len(mustache.params), NEW name,
         NEW x, NEW y, NEW B, NEW m \in State(TwoOn(Reversed(mustache.params, scopes), x, y), B)
  PROVE  InvokeHelper(inner, m, at, Len(mustache.params), name)
           \in State(<<Invoked(inner, name, Outward(scopes, 0), ParamValues(mustache, scopes), x, y)>>, B)
<1> DEFINE params == mustache.params
           n == Len(params)
           s == Reversed(params, scopes)
           v == Invoked(inner, name, Outward(scopes, 0), ParamValues(mustache, scopes), x, y)
<1>1. params \in Seq(IdNode \cup StringNode)  BY DEF MustacheNode
<1>2. n \in Nat /\ DOMAIN params = 1 .. n  BY <1>1
<1>3. \A i \in 1 .. n : s[i] = ParamValue(params[n + 1 - i], scopes)  BY DEF Reversed
<1>4. /\ Peek(m, 0) = y /\ Peek(m, 1) = x
      /\ \A i \in 1 .. n : Peek(m, i + 1) = s[n + 1 - i]
  <2>1. s \in Seq(Cells) /\ Len(s) = n /\ m \in State(TwoOn(s, x, y), B)  OBVIOUS
  <2> HIDE DEF s, n
  <2>2. /\ Peek(m, 0) = y /\ Peek(m, 1) = x
        /\ \A i \in 1 .. Len(s) : Peek(m, i + 1) = s[Len(s) + 1 - i]
    BY <2>1, TwoTop
  <2> QED  BY <2>1, <2>2
<1>5. Params(m, n) = ParamValues(mustache, scopes)
  <2>1. ASSUME NEW i \in 1 .. n  PROVE Peek(m, i + 1) = ParamValue(params[i], scopes)
    <3>1. n + 1 - i \in 1 .. n /\ n + 1 - (n + 1 - i) = i  BY <1>2
    <3> HIDE DEF n, s, params
    <3> QED  BY <1>3, <1>4, <3>1
  <2>2. ParamValues(mustache, scopes) = [i \in 1 .. n |-> ParamValue(params[i], scopes)]
    BY <1>2 DEF ParamValues
  <2>3. Params(m, n) = [i \in 1 .. n |-> Peek(m, i + 1)]  BY DEF Params
  <2> HIDE DEF n, s, params
  <2> QED  BY <2>1, <2>2, <2>3
<1>6. At(at, 0) = Outward(scopes, 0)  BY DEF Reaches
<1>7. InvokeHelper(inner, m, at, n, name) = Replace(m, n + 2, v)
  BY <1>4, <1>5, <1>6 DEF InvokeHelper
<1>8. Replace(m, n + 2, v) \in State(<<v>>, B)
  <2>1. s \in Seq(Cells) /\ Len(s) = n /\ m \in State(TwoOn(s, x, y), B)  OBVIOUS
  <2> HIDE DEF s, n, v
  <2>2. Replace(m, Len(s) + 2, v) \in State(<<v>>, B)  BY <2>1, ReplaceWhole
  <2> QED  BY <2>1, <2>2
<1> QED  BY <1>7, <1>8

\* What is invoked when a name can be the one of a helper.
AmbiguousValue(inner, name, depth, scopes, x, y) ==
  IF name \in Helpers THEN Invoked(inner, name, Outward(scopes, 0), <<>>, x, y)
                      ELSE Field(Outward(scopes, depth), name)

LEMMA InvokeAmbiguousReplaces ==
  ASSUME NEW inner, NEW at, NEW scopes \in Seq(PageValue), Reaches(at, 0, scopes),
         NEW depth, Reaches(at, depth, scopes), NEW name,
         NEW x, NEW y, NEW B, NEW m \in State(TwoOn(<<>>, x, y), B), m.context = depth
  PROVE  /\ InvokeAmbiguous(inner, m, at, name)
              \in State(<<AmbiguousValue(inner, name, depth, scopes, x, y)>>, B)
         /\ InvokeAmbiguous(inner, m, at, name).lastHelper = (name \in Helpers)
<1> DEFINE v == AmbiguousValue(inner, name, depth, scopes, x, y)
           s == <<>>
           V == {v}
           w == Replace(m, 2, v)
<1>1. s \in Seq(V) /\ Len(s) = 0 /\ Len(s) + 2 = 2 /\ m \in State(TwoOn(s, x, y), B)
  BY OnlyOne
<1> HIDE DEF s, V
<1>2. Peek(m, 0) = y /\ Peek(m, 1) = x
  <2>1. s \in Seq(V) /\ m \in State(TwoOn(s, x, y), B)  BY <1>1
  <2> QED  BY ONLY <2>1, TwoTop
<1>3. At(at, 0) = Outward(scopes, 0) /\ At(at, m.context) = Outward(scopes, depth)
  BY DEF Reaches
<1>4. w \in State(<<v>>, B)
  <2> HIDE DEF v
  <2>1. Replace(m, Len(s) + 2, v) \in State(<<v>>, B)  BY <1>1, ReplaceWhole
  <2> QED  BY <1>1, <2>1
<1>5. InvokeAmbiguous(inner, m, at, name) = [w EXCEPT !.lastHelper = (name \in Helpers)]
  <2>1. v = IF name \in Helpers THEN Invoked(inner, name, At(at, 0), <<>>, Peek(m, 1), Peek(m, 0))
                                ELSE Field(At(at, m.context), name)
    BY <1>2, <1>3, Zenon DEF AmbiguousValue
  <2> HIDE DEF v
  <2> QED  BY <2>1, Zenon DEF InvokeAmbiguous
<1> HIDE DEF w, v
<1>6. /\ [w EXCEPT !.lastHelper = (name \in Helpers)] \in State(<<v>>, B)
      /\ [w EXCEPT !.lastHelper = (name \in Helpers)].lastHelper = (name \in Helpers)
  <2> DEFINE b == name \in Helpers
             u == [w EXCEPT !.lastHelper = b]
  <2>1. b \in BOOLEAN
    <3>1. CASE name \in Helpers
      <4> HIDE DEF Helpers
      <4> QED  BY <3>1
    <3>2. CASE name \notin Helpers
      <4> HIDE DEF Helpers
      <4> QED  BY <3>2
    <3> QED  BY <3>1, <3>2
  <2> HIDE DEF b
  <2>2. u \in State(<<v>>, B) /\ u.lastHelper = b  BY <1>4, <2>1 DEF State
  <2> QED  BY <2>2 DEF b
<1> QED  BY <1>5, <1>6 DEF v

LEMMA BlockValueReplaces ==
  ASSUME NEW inner, NEW at, NEW scopes \in Seq(PageValue), Reaches(at, 0, scopes), NEW v,
         NEW x, NEW y, NEW B, NEW m \in State(TwoOn(<<v>>, x, y), B)
  PROVE  /\ BlockValue(inner, m, at)
              \in State(<<RunBlock(inner, SectionRuns(v, Outward(scopes, 0)), x, y)>>, B)
         /\ Pop(m, 2) \in State(<<v>>, B)
<1> DEFINE s == <<v>>
           V == {v}
           r == RunBlock(inner, SectionRuns(v, Outward(scopes, 0)), x, y)
<1>1. s \in Seq(V) /\ Len(s) = 1 /\ s[1] = v /\ m \in State(TwoOn(s, x, y), B)  BY OnlyOne
<1> HIDE DEF s, V
<1>2. Peek(m, 0) = y /\ Peek(m, 1) = x
      /\ (\A i \in 1 .. Len(s) : Peek(m, i + 1) = s[Len(s) + 1 - i])
      /\ (\A k \in 0 .. Len(s) : Pop(m, k + 2) \in State(First(s, Len(s) - k), B))
  <2>1. s \in Seq(V) /\ m \in State(TwoOn(s, x, y), B)  BY <1>1
  <2> QED  BY ONLY <2>1, TwoTop
<1>3. Peek(m, 2) = v
  <2>1. 1 \in 1 .. Len(s) /\ 1 + 1 = 2 /\ Len(s) + 1 - 1 = 1  BY <1>1
  <2> QED  BY <1>1, <1>2, <2>1
<1>4. Pop(m, 2) \in State(<<v>>, B)
  <2>1. 0 \in 0 .. Len(s) /\ 0 + 2 = 2 /\ Len(s) - 0 = Len(s)  BY <1>1
  <2>2. First(s, Len(s)) = s  BY <1>1, FirstElements
  <2>3. Pop(m, 2) \in State(s, B)  BY <1>2, <2>1, <2>2
  <2> QED  BY <2>3 DEF s
<1>5. At(at, 0) = Outward(scopes, 0)  BY DEF Reaches
<1>6. BlockValue(inner, m, at) = Replace(m, 3, r)  BY <1>2, <1>3, <1>5 DEF BlockValue
<1>7. Replace(m, 3, r) \in State(<<r>>, B)
  <2> HIDE DEF r
  <2>1. Len(s) + 2 = 3  BY <1>1
  <2>2. Replace(m, Len(s) + 2, r) \in State(<<r>>, B)  BY <1>1, ReplaceWhole
  <2> QED  BY <2>1, <2>2
<1> QED  BY <1>4, <1>6, <1>7

-----------------------------------------------------------------------------
(* What is compiled of a statement does what the statement stands for.       *)

\* Three parts of the opcodes, one after the other.
LEMMA AfterThree ==
  ASSUME NEW inner, NEW at, NEW m, NEW a \in Seq(Ops), NEW b \in Seq(Ops), NEW c \in Seq(Ops)
  PROVE  /\ a \o b \o c \in Seq(Ops)
         /\ After(inner, at, m, a \o b \o c)
              = After(inner, at, After(inner, at, After(inner, at, m, a), b), c)
<1> DEFINE u == a \o b
<1>1. u \in Seq(Ops)
  <2> HIDE DEF Ops
  <2> QED  BY ConcatProperties
<1>2. After(inner, at, m, u) = After(inner, at, After(inner, at, m, a), b)  BY AfterConcat
<1> HIDE DEF u
<1>3. After(inner, at, m, u \o c) = After(inner, at, After(inner, at, m, u), c)
  BY <1>1, AfterConcat
<1>4. u \o c \in Seq(Ops)
  <2> HIDE DEF Ops
  <2> QED  BY <1>1, ConcatProperties
<1>5. After(inner, at, m, u \o c)
        = After(inner, at, After(inner, at, After(inner, at, m, a), b), c)
  BY ONLY <1>2, <1>3, Zenon
<1> QED  BY <1>4, <1>5 DEF u

LEMMA HelperPushes ==
  ASSUME NEW inner, NEW at, NEW scopes \in Seq(PageValue), NEW mustache \in MustacheNode,
         CallReaches(at, mustache, scopes), mustache.id.parts[1] \in STRING,
         NEW program \in Program \cup {NoProgram}, NEW inverse \in Program \cup {NoProgram},
         NEW B, NEW m \in State(<<>>, B)
  PROVE  /\ HelperMustache(mustache, program, inverse) \in Seq(Ops)
         /\ After(inner, at, m, HelperMustache(mustache, program, inverse))
              \in State(<<Invoked(inner, mustache.id.parts[1], Outward(scopes, 0),
                                  ParamValues(mustache, scopes), Closure(at, program),
                                  Closure(at, inverse))>>, B)
<1> DEFINE params == mustache.params
           name == mustache.id.parts[1]
           n == Len(params)
           s == Reversed(params, scopes)
           x == Closure(at, program)
           y == Closure(at, inverse)
           a == PushParams(params)
           b == Programs(program, inverse)
           op == Op("invokeHelper", <<n, name>>)
           c == <<op>>
           m1 == After(inner, at, m, a)
           m2 == After(inner, at, m1, b)
           m3 == After(inner, at, m2, c)
           v == Invoked(inner, name, Outward(scopes, 0), ParamValues(mustache, scopes), x, y)
<1>1. params \in Seq(IdNode \cup StringNode)  BY DEF MustacheNode
<1>2. \A i \in DOMAIN params : ParamReaches(at, params[i], scopes)  BY DEF CallReaches
<1>3. Reaches(at, 0, scopes)  BY DEF CallReaches
<1>4. a \in Seq(Ops) /\ s \in Seq(Cells) /\ Len(s) = n /\ m1 \in State(s, B)
  BY <1>1, <1>2, PushParamsPush
<1>5. c \in Seq(Ops)
  <2>1. n \in Nat  BY <1>1
  <2>2. <<n, name>> \in Args
    <3> HIDE DEF n, name
    <3> QED  BY <2>1 DEF Args, name
  <2> QED  BY <2>2, OneOp DEF OpNames
<1>6. HelperMustache(mustache, program, inverse) = a \o b \o c
  BY DEF HelperMustache
<1>7. m3 = InvokeHelper(inner, m2, at, n, name)
  <2>1. m3 = Step(inner, at, m2, op)  BY AfterOne
  <2>2. Step(inner, at, m2, op) = InvokeHelper(inner, m2, at, <<n, name>>[1], <<n, name>>[2])
    BY StepOpcodes
  <2>3. <<n, name>>[1] = n /\ <<n, name>>[2] = name  OBVIOUS
  <2> HIDE DEF m3, m2, op, n, name
  <2> QED  BY <2>1, <2>2, <2>3
<1>8. b \in Seq(Ops) /\ m2 \in State(TwoOn(s, x, y), B)
  <2> HIDE DEF m1, s, a
  <2> QED  BY <1>4, ProgramsPush
<1>9. InvokeHelper(inner, m2, at, n, name) \in State(<<v>>, B)
  <2> HIDE DEF m2, x, y
  <2> QED  BY <1>3, <1>4, <1>8, InvokeHelperReplaces
<1> HIDE DEF a, b, c, s, v
<1>10. a \o b \o c \in Seq(Ops) /\ After(inner, at, m, a \o b \o c) = m3
  BY <1>4, <1>5, <1>8, AfterThree
<1> HIDE DEF m3
<1>11. m3 \in State(<<v>>, B)  BY <1>7, <1>9
<1> QED  BY <1>6, <1>10, <1>11 DEF v

LEMMA AmbiguousPushes ==
  ASSUME NEW inner, NEW at, NEW scopes \in Seq(PageValue), NEW mustache \in MustacheNode,
         CallReaches(at, mustache, scopes), mustache.id.parts[1] \in STRING,
         NEW program \in Program \cup {NoProgram}, NEW inverse \in Program \cup {NoProgram},
         NEW B, NEW m \in State(<<>>, B)
  PROVE  /\ AmbiguousMustache(mustache, program, inverse) \in Seq(Ops)
         /\ After(inner, at, m, AmbiguousMustache(mustache, program, inverse))
              \in State(<<AmbiguousValue(inner, mustache.id.parts[1], mustache.id.depth, scopes,
                                         Closure(at, program), Closure(at, inverse))>>, B)
         /\ After(inner, at, m, AmbiguousMustache(mustache, program, inverse)).lastHelper
              = (mustache.id.parts[1] \in Helpers)
<1> DEFINE name == mustache.id.parts[1]
           depth == mustache.id.depth
           none == <<>>
           x == Closure(at, program)
           y == Closure(at, inverse)
           a == <<Op("getContext", depth)>>
           b == Programs(program, inverse)
           c == <<Op("invokeAmbiguous", name)>>
           m1 == After(inner, at, m, a)
           m2 == After(inner, at, m1, b)
           m3 == After(inner, at, m2, c)
           v == AmbiguousValue(inner, name, depth, scopes, x, y)
<1>1. depth \in Nat  BY DEF MustacheNode, IdNode
<1>2. Reaches(at, 0, scopes) /\ Reaches(at, depth, scopes)  BY DEF CallReaches
<1>3. a \in Seq(Ops) /\ c \in Seq(Ops)
  <2>1. depth \in Args /\ name \in Args
    <3> HIDE DEF depth, name
    <3> QED  BY <1>1 DEF Args, name
  <2> QED  BY <2>1, OneOp DEF OpNames
<1>4. m1 \in State(none, B) /\ m1.context = depth
  <2>1. m1 = GetContext(m, depth)  BY AfterOne, StepOpcodes
  <2>2. m \in State(none, B)  OBVIOUS
  <2> HIDE DEF name, depth, none, x, y, a, b, c, m1, m2, m3, v
  <2> QED  BY <1>1, <2>1, <2>2, ContextState
<1>5. AmbiguousMustache(mustache, program, inverse) = a \o b \o c
  BY DEF AmbiguousMustache
<1>6. m3 = InvokeAmbiguous(inner, m2, at, name)  BY AfterOne, StepOpcodes
<1>7. b \in Seq(Ops) /\ m2 \in State(TwoOn(none, x, y), B) /\ m2.context = depth
  <2>1. none \in Seq(Cells)  OBVIOUS
  <2>2. m1 \in State(none, B)  BY <1>4
  <2> HIDE DEF m1, none
  <2>3. b \in Seq(Ops) /\ m2 \in State(TwoOn(none, x, y), B)  BY <2>1, <2>2, ProgramsPush
  <2>4. m2 = Push(Push(m1, x), y)  BY ProgramsAre
  <2>5. Push(Push(m1, x), y).context = m1.context  BY <2>2 DEF Push, State
  <2> QED  BY <1>4, <2>3, <2>4, <2>5
<1>8. /\ InvokeAmbiguous(inner, m2, at, name) \in State(<<v>>, B)
      /\ InvokeAmbiguous(inner, m2, at, name).lastHelper = (name \in Helpers)
  <2> HIDE DEF m2, x, y, name, depth
  <2> QED  BY <1>2, <1>7, InvokeAmbiguousReplaces
<1> HIDE DEF a, b, c, v
<1>9. a \o b \o c \in Seq(Ops) /\ After(inner, at, m, a \o b \o c) = m3
  BY <1>3, <1>7, AfterThree
<1> HIDE DEF m3
<1>10. m3 \in State(<<v>>, B) /\ m3.lastHelper = (name \in Helpers)  BY <1>6, <1>8, Zenon
<1> QED  BY <1>5, <1>9, <1>10, Zenon DEF v

\* The name of a call, and what its kind says of it.
LEMMA CallKinds ==
  ASSUME NEW mustache \in MustacheNode, NEW helpers, helpers \subseteq Helpers,
         ValidCall(mustache, helpers)
  PROVE  /\ ClassifyMustache(mustache) \in {"simple", "helper", "ambiguous"}
         /\ ClassifyMustache(mustache) = "simple" => ~CallsHelper(mustache)
         /\ ClassifyMustache(mustache) = "helper" =>
              CallsHelper(mustache) /\ mustache.id.parts[1] \in STRING
         /\ ClassifyMustache(mustache) = "ambiguous" =>
              /\ mustache.params = <<>> /\ mustache.id.depth = 0
              /\ mustache.id.parts[1] \in STRING /\ Len(mustache.id.parts) = 1
              /\ CallsHelper(mustache) <=> mustache.id.parts[1] \in Helpers
         /\ CallsHelper(mustache) => mustache.id.parts[1] \in helpers
<1>1. mustache.id \in IdNode /\ mustache.id.parts \in Seq(STRING)  BY DEF MustacheNode, IdNode
<1>2. mustache.id.isSimple =>
        /\ mustache.id.depth = 0 /\ Len(mustache.id.parts) = 1
        /\ mustache.id.parts[1] \in STRING
  BY <1>1 DEF ValidCall
<1>3. CallsHelper(mustache) => mustache.id.parts[1] \in helpers  BY DEF ValidCall
<1>4. ~CallsHelper(mustache) => mustache.params = <<>>  BY DEF ValidCall
<1>5. CallsHelper(mustache) <=> mustache.id.isSimple /\ mustache.id.parts[1] \in Helpers
  BY DEF CallsHelper
<1>6. KnownHelpers \subseteq Helpers  BY DEF KnownHelpers, Helpers, Blocks
<1> HIDE DEF Helpers, KnownHelpers
<1>7. CASE ~mustache.id.isSimple
  <2>1. ClassifyMustache(mustache) = "simple"  BY <1>7 DEF ClassifyMustache
  <2> QED  BY <1>3, <1>5, <1>7, <2>1
<1>8. CASE mustache.id.isSimple /\ (mustache.params # <<>> \/ mustache.id.parts[1] \in KnownHelpers)
  <2>1. ClassifyMustache(mustache) = "helper"  BY <1>8 DEF ClassifyMustache
  <2>2. CallsHelper(mustache)  BY <1>4, <1>5, <1>6, <1>8
  <2> QED  BY <1>2, <1>3, <1>8, <2>1, <2>2
<1>9. CASE mustache.id.isSimple /\ ~(mustache.params # <<>> \/ mustache.id.parts[1] \in KnownHelpers)
  <2>1. ClassifyMustache(mustache) = "ambiguous"  BY <1>9 DEF ClassifyMustache
  <2> QED  BY <1>2, <1>3, <1>5, <1>9, <2>1
<1> QED  BY <1>7, <1>8, <1>9

\* A name of one part is looked up in its scope.
LEMMA LookedOne ==
  ASSUME NEW scopes, NEW id, id.depth = 0, id.parts \in Seq(STRING), Len(id.parts) = 1
  PROVE  Looked(id, scopes) = Field(Outward(scopes, 0), id.parts[1])
<1> DEFINE value == Outward(scopes, 0)
           names == id.parts
<1>1. Looked(id, scopes) = Path(value, names)  BY DEF Looked
<1>2. Len(names) = 1 /\ Len(names) \in Nat  OBVIOUS
<1> HIDE DEF value, names
<1>3. PICK f : FoundFrom(value, names, Len(names), f) /\ Path(value, names) = f[Len(names)]
  BY <1>2, PathFound
<1>4. f[0] = value /\ \A k \in 1 .. Len(names) : f[k] = Field(f[k - 1], names[k])
  BY <1>2, <1>3, FoundValues
<1>5. 1 \in 1 .. Len(names) /\ 1 - 1 = 0  BY <1>2
<1>6. f[1] = Field(f[0], names[1])
  <2> HIDE DEF Field
  <2> QED  BY <1>4, <1>5
<1>7. Path(value, names) = Field(value, names[1])  BY <1>2, <1>3, <1>4, <1>6
<1> QED  BY <1>1, <1>7 DEF value, names

LEMMA NoParams ==
  ASSUME NEW mustache, NEW scopes, mustache.params = <<>>
  PROVE  ParamValues(mustache, scopes) = <<>>
<1>1. DOMAIN mustache.params = {}  OBVIOUS
<1>2. ParamValues(mustache, scopes) = [i \in {} |-> ParamValue(mustache.params[i], scopes)]
  BY <1>1 DEF ParamValues
<1> QED  BY <1>2

LEMMA MustacheRenders ==
  ASSUME NEW inner, NEW at, NEW scopes \in Seq(PageValue), NEW node \in MustacheNode,
         ValidCall(node, Simple), CallReaches(at, node, scopes),
         NEW B, NEW m \in State(<<>>, B)
  PROVE  /\ CompileMustache(node) \in Seq(Ops)
         /\ After(inner, at, m, CompileMustache(node))
              \in State(<<>>, Append(B, Appended(MustacheValue(node, scopes), node.escaped)))
<1> DEFINE kind == ClassifyMustache(node)
           name == node.id.parts[1]
           this == Outward(scopes, 0)
           v == MustacheValue(node, scopes)
           x == Closure(at, NoProgram)
           a == CASE kind = "helper"    -> HelperMustache(node, NoProgram, NoProgram)
                  [] kind = "simple"    -> PushId(node.id)
                  [] kind = "ambiguous" -> AmbiguousMustache(node, NoProgram, NoProgram)
           c == <<Op("append", node.escaped)>>
           m1 == After(inner, at, m, a)
<1>1. node.escaped \in BOOLEAN /\ node.id \in IdNode /\ node.id.parts \in Seq(STRING)
  BY DEF MustacheNode, IdNode
<1>2. CompileMustache(node) = a \o c  BY DEF CompileMustache
<1>3. /\ kind \in {"simple", "helper", "ambiguous"}
      /\ kind = "simple" => ~CallsHelper(node)
      /\ kind = "helper" => CallsHelper(node) /\ name \in STRING
      /\ kind = "ambiguous" => /\ node.params = <<>> /\ node.id.depth = 0
                               /\ name \in STRING /\ Len(node.id.parts) = 1
                               /\ CallsHelper(node) <=> name \in Helpers
      /\ CallsHelper(node) => name \in Simple
  <2>1. Simple \subseteq Helpers  BY DEF Helpers
  <2> HIDE DEF Helpers, Simple
  <2> QED  BY <2>1, CallKinds
<1>4. ASSUME name \in Simple, NEW params
      PROVE  Invoked(inner, name, this, params, x, x) = Str(HelperText(name, this, params))
  <2>1. name \notin Blocks  BY <1>4 DEF Simple, Blocks
  <2> HIDE DEF name, this
  <2> QED  BY <2>1, Zenon DEF Invoked
<1>5. a \in Seq(Ops) /\ m1 \in State(<<v>>, B)
  <2>1. CASE kind = "helper"
    <3>1. a = HelperMustache(node, NoProgram, NoProgram)  BY <2>1
    <3>2. /\ HelperMustache(node, NoProgram, NoProgram) \in Seq(Ops)
          /\ After(inner, at, m, HelperMustache(node, NoProgram, NoProgram))
               \in State(<<Invoked(inner, name, this, ParamValues(node, scopes), x, x)>>, B)
      BY <1>3, <2>1, HelperPushes
    <3>3. Invoked(inner, name, this, ParamValues(node, scopes), x, x) = v
      <4>1. CallsHelper(node) /\ name \in Simple  BY <1>3, <2>1
      <4>2. v = Str(HelperText(name, this, ParamValues(node, scopes)))
        BY <4>1, Zenon DEF MustacheValue
      <4> QED  BY <1>4, <4>1, <4>2, Zenon
    <3> HIDE DEF a, v
    <3> QED  BY <3>1, <3>2, <3>3
  <2>2. CASE kind = "simple"
    <3>1. a = PushId(node.id)  BY <2>2
    <3>2. PushId(node.id) \in Seq(Ops)  BY <1>1, PushIdType
    <3>3. v = Looked(node.id, scopes)  BY <1>3, <2>2, Zenon DEF MustacheValue
    <3>4. After(inner, at, m, PushId(node.id)) \in State(Append(<<>>, v), B)
      <4>1. At(at, node.id.depth) = Outward(scopes, node.id.depth)  BY DEF CallReaches, Reaches
      <4> DEFINE none == <<>>
      <4>2. none \in Seq(Cells) /\ m \in State(none, B)  OBVIOUS
      <4> HIDE DEF none, v
      <4>3. After(inner, at, m, PushId(node.id)) \in State(Append(none, Looked(node.id, scopes)), B)
        BY <1>1, <4>1, <4>2, PushIdPushes
      <4> QED  BY <3>3, <4>3 DEF none
    <3>5. Append(<<>>, v) = <<v>>  BY OnlyOne
    <3> HIDE DEF a, v
    <3> QED  BY <3>1, <3>2, <3>4, <3>5
  <2>3. CASE kind = "ambiguous"
    <3> DEFINE w == AmbiguousValue(inner, name, node.id.depth, scopes, x, x)
    <3>1. a = AmbiguousMustache(node, NoProgram, NoProgram)  BY <2>3
    <3>2. /\ AmbiguousMustache(node, NoProgram, NoProgram) \in Seq(Ops)
          /\ After(inner, at, m, AmbiguousMustache(node, NoProgram, NoProgram))
               \in State(<<w>>, B)
      BY <1>3, <2>3, AmbiguousPushes
    <3>3. w = v
      <4>1. CASE CallsHelper(node)
        <5>1. name \in Helpers /\ name \in Simple  BY <1>3, <2>3, <4>1
        <5>2. w = Invoked(inner, name, this, <<>>, x, x)  BY <5>1, Zenon DEF AmbiguousValue
        <5>3. v = Str(HelperText(name, this, ParamValues(node, scopes)))
          BY <4>1, Zenon DEF MustacheValue
        <5>4. ParamValues(node, scopes) = <<>>  BY <1>3, <2>3, NoParams
        <5> QED  BY <1>4, <5>1, <5>2, <5>3, <5>4, Zenon
      <4>2. CASE ~CallsHelper(node)
        <5>1. name \notin Helpers /\ node.id.depth = 0  BY <1>3, <2>3, <4>2
        <5>2. w = Field(Outward(scopes, node.id.depth), name)
          BY <5>1, Zenon DEF AmbiguousValue
        <5>3. v = Looked(node.id, scopes)  BY <4>2, Zenon DEF MustacheValue
        <5>4. Looked(node.id, scopes) = Field(Outward(scopes, 0), name)
          BY <1>1, <1>3, <2>3, LookedOne
        <5> QED  BY ONLY <5>1, <5>2, <5>3, <5>4, Zenon
      <4> QED  BY <4>1, <4>2
    <3> HIDE DEF a, v, w
    <3> QED  BY <3>1, <3>2, <3>3
  <2> QED  BY <1>3, <2>1, <2>2, <2>3
<1>6. /\ c \in Seq(Ops)
      /\ After(inner, at, m1, c) \in State(<<>>, Append(B, Appended(v, node.escaped)))
  <2> HIDE DEF m1, v
  <2> QED  BY <1>1, <1>5, AppendState
<1> HIDE DEF a, c, v
<1>7. a \o c \in Seq(Ops) /\ After(inner, at, m, a \o c) = After(inner, at, m1, c)
  <2>1. a \o c \in Seq(Ops)
    <3> HIDE DEF Ops
    <3> QED  BY <1>5, <1>6, ConcatProperties
  <2>2. After(inner, at, m, a \o c) = After(inner, at, After(inner, at, m, a), c)
    BY <1>5, <1>6, AfterConcat
  <2> QED  BY <2>1, <2>2
<1> QED  BY <1>2, <1>6, <1>7 DEF v

\* The parameters of a block are values that a page can have.
LEMMA BlockParams ==
  ASSUME NEW p \in Program, NEW i \in DOMAIN p, p[i].type = "block", NEW scopes \in Seq(PageValue)
  PROVE  ParamValues(p[i].mustache, scopes) \in Seq(PageValue)
<1> DEFINE mustache == p[i].mustache
           params == mustache.params
           n == Len(params)
<1>1. mustache \in MustacheNode
  <2>1. p[i] \in BlockNode  BY NodesOf
  <2> QED  BY <2>1 DEF BlockNode
<1>2. \A literal \in Literals(mustache) : Str(<<literal.string>>) \in PageValue
  BY PageValueAssumption
<1> HIDE DEF mustache
<1>3. params \in Seq(IdNode \cup StringNode)  BY <1>1 DEF MustacheNode
<1>4. n \in Nat /\ DOMAIN params = 1 .. n  BY <1>3
<1>5. ASSUME NEW k \in 1 .. n  PROVE ParamValue(params[k], scopes) \in PageValue
  <2>1. params[k] \in IdNode \cup StringNode
    <3> HIDE DEF IdNode, StringNode
    <3> QED  BY <1>3, <1>4
  <2>2. CASE params[k].type = "STRING"
    <3>1. params[k] \in StringNode  BY <2>1, <2>2, ParamTypes
    <3>2. params[k] \in Literals(mustache)  BY <1>4, <3>1 DEF Literals
    <3>3. Str(<<params[k].string>>) \in PageValue  BY <1>2, <3>2
    <3> QED  BY <2>2, <3>3 DEF ParamValue
  <2>3. CASE params[k].type # "STRING"
    <3>1. Looked(params[k], scopes) \in PageValue  BY <2>1, <2>3, ParamTypes, LookedIsAValue
    <3> QED  BY <2>3, <3>1 DEF ParamValue
  <2> QED  BY <2>2, <2>3
<1>6. ParamValues(mustache, scopes) = [k \in 1 .. n |-> ParamValue(params[k], scopes)]
  BY <1>4 DEF ParamValues
<1> HIDE DEF params, n
<1>7. [k \in 1 .. n |-> ParamValue(params[k], scopes)] \in [1 .. n -> PageValue]  BY <1>5
<1> DEFINE r == ParamValues(mustache, scopes)
<1>8. r \in [1 .. n -> PageValue]  BY <1>6, <1>7
<1> HIDE DEF r
<1>9. r \in Seq(PageValue)  BY <1>4, <1>8
<1> QED  BY <1>9 DEF r, mustache

LEMMA RunsOfAreRuns ==
  ASSUME NEW p \in Program, NEW i \in DOMAIN p, p[i].type = "block", NEW scopes \in Seq(PageValue)
  PROVE  AreRuns(RunsOf(p[i].mustache, scopes))
<1> DEFINE mustache == p[i].mustache
           this == Outward(scopes, 0)
<1>1. mustache \in MustacheNode /\ ValidCall(mustache, Blocks)
  <2>1. p[i] \in BlockNode /\ ValidCall(p[i].mustache, Blocks)  BY NodesOf
  <2> QED  BY <2>1 DEF BlockNode
<1>2. ParamValues(mustache, scopes) \in Seq(PageValue)  BY BlockParams
<1>3. this \in PageValue  BY OutwardIsAValue
<1> HIDE DEF mustache, this
<1>4. ASSUME CallsHelper(mustache)  PROVE AreRuns(RunsOf(mustache, scopes))
  <2>1. mustache.id.parts[1] \in Blocks  BY <1>1, <1>4 DEF ValidCall
  <2>2. RunsOf(mustache, scopes)
          = BlockRuns(mustache.id.parts[1], this, ParamValues(mustache, scopes))
    BY <1>4, Zenon DEF RunsOf, this
  <2> HIDE DEF AreRuns, Blocks
  <2> QED  BY <1>2, <1>3, <2>1, <2>2, BlockAreRuns
<1>5. ASSUME ~CallsHelper(mustache)  PROVE AreRuns(RunsOf(mustache, scopes))
  <2>1. RunsOf(mustache, scopes) = SectionRuns(Looked(mustache.id, scopes), this)
    BY <1>5, Zenon DEF RunsOf, this
  <2>2. mustache.id \in IdNode  BY <1>1 DEF MustacheNode
  <2>3. Looked(mustache.id, scopes) \in PageValue  BY <2>2, LookedIsAValue
  <2> HIDE DEF AreRuns
  <2> QED  BY <1>3, <2>1, <2>3, SectionAreRuns
<1>6. AreRuns(RunsOf(mustache, scopes))  BY <1>4, <1>5
<1> QED  BY <1>6 DEF mustache

\* What is left of a block: the text of its programs.
LEMMA BlockPushes ==
  ASSUME NEW p \in Program, NEW i \in DOMAIN p, p[i].type = "block",
         NEW inner, NEW rendering, CallsRender(inner, rendering, p),
         NEW scopes \in Seq(PageValue), NEW B, NEW m \in State(<<>>, B)
  PROVE  /\ CompileBlock(p[i]) \in Seq(Ops)
         /\ After(inner, Given(p, scopes), m, CompileBlock(p[i]))
              \in State(<<>>, Append(B, RunsText(rendering, p[i], RunsOf(p[i].mustache, scopes), scopes)))
<1> DEFINE block == p[i]
           mustache == block.mustache
           at == Given(p, scopes)
           kind == ClassifyMustache(mustache)
           name == mustache.id.parts[1]
           this == Outward(scopes, 0)
           x == Closure(at, block.program)
           y == Closure(at, block.inverse)
           runs == RunsOf(mustache, scopes)
           html == RunsText(rendering, block, runs, scopes)
           v == Str(html)
           b == Programs(block.program, block.inverse)
           a == CASE kind = "helper" -> HelperMustache(mustache, block.program, block.inverse)
                  [] kind = "simple" -> PushId(mustache.id) \o b \o <<Op("blockValue", 0)>>
                  [] kind = "ambiguous" -> AmbiguousMustache(mustache, block.program, block.inverse)
                                             \o b \o <<Op("ambiguousBlockValue", 0)>>
           c == <<Op("append", FALSE)>>
           m1 == After(inner, at, m, a)
<1>1. /\ block.program \in Inside(p) /\ block.inverse \in Inside(p)
      /\ ValidCall(mustache, Blocks) /\ block \in BlockNode
  BY NodesOf
<1>2. mustache \in MustacheNode /\ block.program \in Program /\ block.inverse \in Program
  BY <1>1 DEF BlockNode
<1>3. CallReaches(at, mustache, scopes)
  <2>1. IdDepths(mustache) = NodeDepths(block)  BY DEF NodeDepths
  <2>2. NodeDepths(block) \subseteq Depths[p]  BY DepthsAre
  <2> HIDE DEF mustache, block
  <2> QED  BY <1>2, <2>1, <2>2, MustacheReaches
<1>4. RunBlock(inner, runs, x, y) = v
  <2>1. AreRuns(runs)  BY RunsOfAreRuns
  <2> HIDE DEF runs, block
  <2> QED  BY <1>1, <2>1, BlockRenders
<1>5. CompileBlock(block) = a \o c  BY DEF CompileBlock
<1> HIDE DEF mustache, at, this, block
<1>6. /\ kind \in {"simple", "helper", "ambiguous"}
      /\ kind = "simple" => ~CallsHelper(mustache)
      /\ kind = "helper" => CallsHelper(mustache) /\ name \in STRING
      /\ kind = "ambiguous" => /\ mustache.params = <<>> /\ mustache.id.depth = 0
                               /\ name \in STRING /\ Len(mustache.id.parts) = 1
                               /\ CallsHelper(mustache) <=> name \in Helpers
      /\ CallsHelper(mustache) => name \in Blocks
  <2>1. Blocks \subseteq Helpers  BY DEF Helpers
  <2> HIDE DEF Helpers, Blocks
  <2> QED  BY <1>1, <1>2, <2>1, CallKinds
<1>7. mustache.id \in IdNode /\ mustache.id.parts \in Seq(STRING)  BY <1>2 DEF MustacheNode, IdNode
<1>8. CallsHelper(mustache) =>
        Invoked(inner, name, this, ParamValues(mustache, scopes), x, y) = v
  <2>1. SUFFICES ASSUME CallsHelper(mustache)
                 PROVE  Invoked(inner, name, this, ParamValues(mustache, scopes), x, y) = v
    OBVIOUS
  <2>2. runs = BlockRuns(name, this, ParamValues(mustache, scopes))
    BY <2>1, Zenon DEF RunsOf, this
  <2>3. name \in Blocks  BY <1>6, <2>1
  <2> HIDE DEF name, runs, x, y, v
  <2>4. Invoked(inner, name, this, ParamValues(mustache, scopes), x, y) = RunBlock(inner, runs, x, y)
    BY <2>2, <2>3, Zenon DEF Invoked
  <2> QED  BY <1>4, <2>4
<1>9. ~CallsHelper(mustache) =>
        RunBlock(inner, SectionRuns(Looked(mustache.id, scopes), this), x, y) = v
  <2>1. SUFFICES ASSUME ~CallsHelper(mustache)
                 PROVE  RunBlock(inner, SectionRuns(Looked(mustache.id, scopes), this), x, y) = v
    OBVIOUS
  <2>2. runs = SectionRuns(Looked(mustache.id, scopes), this)  BY <2>1, Zenon DEF RunsOf, this
  <2> HIDE DEF runs, x, y, v
  <2> QED  BY <1>4, <2>2
<1>10. Reaches(at, 0, scopes)  BY <1>3 DEF CallReaches
<1>11. a \in Seq(Ops) /\ m1 \in State(<<v>>, B)
  <2>1. CASE kind = "helper"
    <3>1. a = HelperMustache(mustache, block.program, block.inverse)  BY <2>1
    <3>2. /\ HelperMustache(mustache, block.program, block.inverse) \in Seq(Ops)
          /\ After(inner, at, m, HelperMustache(mustache, block.program, block.inverse))
               \in State(<<Invoked(inner, name, Outward(scopes, 0), ParamValues(mustache, scopes), x, y)>>, B)
      BY <1>2, <1>3, <1>6, <2>1, HelperPushes
    <3>3. Invoked(inner, name, Outward(scopes, 0), ParamValues(mustache, scopes), x, y) = v
      BY <1>6, <1>8, <2>1 DEF this
    <3> HIDE DEF a, v
    <3> QED  BY <3>1, <3>2, <3>3
  <2>2. CASE kind = "simple"
    <3> DEFINE looked == Looked(mustache.id, scopes)
               none == <<>>
               s == <<looked>>
               ids == PushId(mustache.id)
               d == <<Op("blockValue", 0)>>
               w1 == After(inner, at, m, ids)
               w2 == After(inner, at, w1, b)
               w3 == After(inner, at, w2, d)
    <3>1. a = ids \o b \o d  BY <2>2
    <3>2. ids \in Seq(Ops)  BY <1>7, PushIdType
    <3>3. w1 \in State(s, B)
      <4>1. At(at, mustache.id.depth) = Outward(scopes, mustache.id.depth)
        BY <1>3 DEF CallReaches, Reaches
      <4>2. none \in Seq(Cells) /\ m \in State(none, B)  OBVIOUS
      <4>3. Append(none, looked) = s  BY OnlyOne
      <4> HIDE DEF none
      <4>4. w1 \in State(Append(none, looked), B)  BY <1>7, <4>1, <4>2, PushIdPushes
      <4> QED  BY <4>3, <4>4
    <3>4. d \in Seq(Ops)
      <4>1. 0 \in Args  BY DEF Args
      <4> QED  BY <4>1, OneOp DEF OpNames
    <3>5. b \in Seq(Ops) /\ w2 \in State(TwoOn(s, x, y), B)
      <4>1. s \in Seq({looked})  BY OnlyOne
      <4> DEFINE V == {looked}
      <4>2. s \in Seq(V)  BY <4>1
      <4> HIDE DEF V, s, w1
      <4> QED  BY <1>2, <3>3, <4>2, ProgramsPush
    <3>6. w3 = BlockValue(inner, w2, at)  BY AfterOne, StepOpcodes
    <3>7. w3 \in State(<<v>>, B)
      <4>1. w2 \in State(TwoOn(<<looked>>, x, y), B)  BY <3>5
      <4> HIDE DEF w2, looked, x, y
      <4>2. BlockValue(inner, w2, at)
              \in State(<<RunBlock(inner, SectionRuns(looked, Outward(scopes, 0)), x, y)>>, B)
        BY <1>10, <4>1, BlockValueReplaces
      <4>3. RunBlock(inner, SectionRuns(looked, Outward(scopes, 0)), x, y) = v
        BY <1>6, <1>9, <2>2 DEF looked, this
      <4> HIDE DEF v, w3
      <4> QED  BY <3>6, <4>2, <4>3
    <3> HIDE DEF a, b, d, ids, w3, v
    <3>8. ids \o b \o d \in Seq(Ops) /\ After(inner, at, m, ids \o b \o d) = w3
      BY <3>2, <3>4, <3>5, AfterThree DEF w3
    <3> QED  BY <3>1, <3>7, <3>8
  <2>3. CASE kind = "ambiguous"
    <3> DEFINE w == AmbiguousValue(inner, name, mustache.id.depth, scopes, x, y)
               s == <<w>>
               first == AmbiguousMustache(mustache, block.program, block.inverse)
               d == <<Op("ambiguousBlockValue", 0)>>
               w1 == After(inner, at, m, first)
               w2 == After(inner, at, w1, b)
               w3 == After(inner, at, w2, d)
    <3>1. a = first \o b \o d  BY <2>3
    <3>2. first \in Seq(Ops) /\ w1 \in State(s, B) /\ w1.lastHelper = (name \in Helpers)
      <4>1. mustache.id.parts[1] \in STRING  BY <1>6, <2>3
      <4>2. /\ block.program \in Program \cup {NoProgram}
            /\ block.inverse \in Program \cup {NoProgram}
        BY <1>2
      <4> HIDE DEF kind, runs, html, v, a, b, c, m1, w2, w3, d
      <4>3. /\ first \in Seq(Ops)
            /\ After(inner, at, m, first)
                 \in State(<<AmbiguousValue(inner, mustache.id.parts[1], mustache.id.depth, scopes,
                                            Closure(at, block.program),
                                            Closure(at, block.inverse))>>, B)
            /\ After(inner, at, m, first).lastHelper = (mustache.id.parts[1] \in Helpers)
        BY <1>2, <1>3, <4>1, <4>2, AmbiguousPushes
      <4> QED  BY <4>3
    <3>3. d \in Seq(Ops)
      <4>1. 0 \in Args  BY DEF Args
      <4> QED  BY <4>1, OneOp DEF OpNames
    <3>4. b \in Seq(Ops) /\ w2 \in State(TwoOn(s, x, y), B) /\ w2.lastHelper = w1.lastHelper
      <4> DEFINE V == {w}
      <4>1. s \in Seq(V)  BY OnlyOne
      <4>2. w1 \in State(s, B)  BY <3>2
      <4> HIDE DEF V, s, w1
      <4>3. /\ Programs(block.program, block.inverse) \in Seq(Ops)
            /\ After(inner, at, w1, Programs(block.program, block.inverse)) \in State(TwoOn(s, x, y), B)
        BY <1>2, <4>1, <4>2, ProgramsPush
      <4>4. After(inner, at, w1, Programs(block.program, block.inverse)) = Push(Push(w1, x), y)
        BY <1>2, ProgramsAre
      <4>5. Push(Push(w1, x), y).lastHelper = w1.lastHelper  BY <4>2 DEF Push, State
      <4> QED  BY <4>3, <4>4, <4>5
    <3>5. w3 = AmbiguousBlockValue(inner, w2, at)  BY AfterOne, StepOpcodes
    <3>6. w3 \in State(<<v>>, B)
      <4>1. w2 \in State(TwoOn(<<w>>, x, y), B)  BY <3>4
      <4>2. w2.lastHelper = (name \in Helpers)
        <5> HIDE DEF w1, w2
        <5> QED  BY <3>2, <3>4, Zenon
      <4> HIDE DEF w2, x, y, v, w3
      <4>3. CASE CallsHelper(mustache)
        <5>1. name \in Helpers  BY <1>6, <2>3, <4>3
        <5>2. w = v
          <6>1. ParamValues(mustache, scopes) = <<>>  BY <1>6, <2>3, NoParams
          <6>2. w = Invoked(inner, name, this, <<>>, x, y)
            BY <5>1, Zenon DEF AmbiguousValue, this
          <6> HIDE DEF w
          <6> QED  BY <1>8, <4>3, <6>1, <6>2, Zenon
        <5>3. w3 = Pop(w2, 2)  BY <3>5, <4>2, <5>1, Zenon DEF AmbiguousBlockValue
        <5> HIDE DEF w
        <5>4. Pop(w2, 2) \in State(<<w>>, B)  BY <1>10, <4>1, BlockValueReplaces
        <5> QED  BY <5>2, <5>3, <5>4
      <4>4. CASE ~CallsHelper(mustache)
        <5>1. name \notin Helpers  BY <1>6, <2>3, <4>4
        <5>2. w = Looked(mustache.id, scopes)
          <6>1. w = Field(Outward(scopes, mustache.id.depth), name)
            BY <5>1, Zenon DEF AmbiguousValue
          <6>2. Looked(mustache.id, scopes) = Field(Outward(scopes, 0), name)
            BY <1>6, <1>7, <2>3, LookedOne
          <6>3. mustache.id.depth = 0  BY <1>6, <2>3
          <6> QED  BY ONLY <6>1, <6>2, <6>3, Zenon
        <5>3. w3 = BlockValue(inner, w2, at)
          BY <3>5, <4>2, <5>1, Zenon DEF AmbiguousBlockValue
        <5> HIDE DEF w
        <5>4. BlockValue(inner, w2, at)
                \in State(<<RunBlock(inner, SectionRuns(w, Outward(scopes, 0)), x, y)>>, B)
          BY <1>10, <4>1, BlockValueReplaces
        <5>5. RunBlock(inner, SectionRuns(w, Outward(scopes, 0)), x, y) = v
          BY <1>9, <4>4, <5>2 DEF this
        <5> QED  BY <5>3, <5>4, <5>5
      <4> QED  BY <4>3, <4>4
    <3> HIDE DEF a, b, d, first, w3, v
    <3>7. first \o b \o d \in Seq(Ops) /\ After(inner, at, m, first \o b \o d) = w3
      BY <3>2, <3>3, <3>4, AfterThree DEF w3
    <3> QED  BY <3>1, <3>6, <3>7
  <2> QED  BY <1>6, <2>1, <2>2, <2>3
<1>12. /\ c \in Seq(Ops)
       /\ After(inner, at, m1, c) \in State(<<>>, Append(B, Appended(v, FALSE)))
  <2> HIDE DEF m1, v
  <2> QED  BY <1>11, AppendState
<1>13. Appended(v, FALSE) = html
  <2> HIDE DEF html
  <2> QED  BY TextAppended
<1> HIDE DEF a, c, html, v
<1>14. a \o c \in Seq(Ops) /\ After(inner, at, m, a \o c) = After(inner, at, m1, c)
  <2>1. a \o c \in Seq(Ops)
    <3> HIDE DEF Ops
    <3> QED  BY <1>11, <1>12, ConcatProperties
  <2>2. After(inner, at, m, a \o c) = After(inner, at, After(inner, at, m, a), c)
    BY <1>11, <1>12, AfterConcat
  <2> QED  BY <2>1, <2>2
<1>15. /\ CompileBlock(block) \in Seq(Ops)
       /\ After(inner, at, m, CompileBlock(block)) \in State(<<>>, Append(B, html))
  BY <1>5, <1>12, <1>13, <1>14
<1> QED  BY <1>15 DEF block, at, html, runs, mustache

\* Each statement appends what it stands for.
LEMMA NodeRenders ==
  ASSUME NEW p \in Program, NEW i \in DOMAIN p,
         NEW inner, NEW rendering, CallsRender(inner, rendering, p),
         NEW scopes \in Seq(PageValue), NEW B, NEW m \in State(<<>>, B)
  PROVE  /\ CompileNode(p[i]) \in Seq(Ops)
         /\ After(inner, Given(p, scopes), m, CompileNode(p[i]))
              \in State(<<>>, Append(B, Statement(rendering, p[i], scopes)))
<1> DEFINE node == p[i]
           at == Given(p, scopes)
<1>1. CASE node.type = "content"
  <2>1. node \in ContentNode /\ node.string \in STRING
    <3>1. node \in ContentNode  BY <1>1, NodesOf
    <3> QED  BY <3>1 DEF ContentNode
  <2>2. CompileNode(node) = <<Op("appendContent", node.string)>>  BY <1>1 DEF CompileNode
  <2>3. <<Op("appendContent", node.string)>> \in Seq(Ops)
    <3>1. node.string \in Args  BY <2>1 DEF Args
    <3> QED  BY <3>1, OneOp DEF OpNames
  <2>4. After(inner, at, m, <<Op("appendContent", node.string)>>) = AppendContent(m, node.string)
    BY AfterOne, StepOpcodes
  <2>5. AppendContent(m, node.string) \in State(<<>>, Append(B, <<node.string>>))
    BY DEF State, AppendContent
  <2>6. Statement(rendering, node, scopes) = <<node.string>>  BY <1>1 DEF Statement
  <2> HIDE DEF at
  <2>7. After(inner, at, m, CompileNode(node))
          \in State(<<>>, Append(B, Statement(rendering, node, scopes)))
    BY <2>2, <2>4, <2>5, <2>6
  <2> QED  BY <2>2, <2>3, <2>7 DEF at
<1>2. CASE node.type = "mustache"
  <2>1. node \in MustacheNode /\ ValidCall(node, Simple)  BY <1>2, NodesOf
  <2>2. CallReaches(at, node, scopes)
    <3>1. IdDepths(node) = NodeDepths(node)  BY <1>2 DEF NodeDepths
    <3>2. NodeDepths(node) \subseteq Depths[p]  BY DepthsAre
    <3> HIDE DEF node
    <3> QED  BY <2>1, <3>1, <3>2, MustacheReaches
  <2>3. CompileNode(node) = CompileMustache(node)  BY <1>2 DEF CompileNode
  <2>4. Statement(rendering, node, scopes) = Appended(MustacheValue(node, scopes), node.escaped)
    BY <1>2 DEF Statement
  <2> HIDE DEF at, node
  <2>5. /\ CompileMustache(node) \in Seq(Ops)
        /\ After(inner, at, m, CompileMustache(node))
             \in State(<<>>, Append(B, Appended(MustacheValue(node, scopes), node.escaped)))
    BY <2>1, <2>2, MustacheRenders
  <2>6. /\ CompileNode(node) \in Seq(Ops)
        /\ After(inner, at, m, CompileNode(node))
             \in State(<<>>, Append(B, Statement(rendering, node, scopes)))
    BY <2>3, <2>4, <2>5
  <2> QED  BY <2>6 DEF at, node
<1>3. CASE node.type = "block"
  <2> DEFINE html == RunsText(rendering, node, RunsOf(node.mustache, scopes), scopes)
  <2>1. CompileNode(node) = CompileBlock(node)  BY <1>3 DEF CompileNode
  <2>2. Statement(rendering, node, scopes) = html  BY <1>3 DEF Statement, RunsText
  <2>3. /\ CompileBlock(node) \in Seq(Ops)
        /\ After(inner, at, m, CompileBlock(node)) \in State(<<>>, Append(B, html))
    BY <1>3, BlockPushes
  <2> HIDE DEF at, node, html
  <2>4. /\ CompileNode(node) \in Seq(Ops)
        /\ After(inner, at, m, CompileNode(node))
             \in State(<<>>, Append(B, Statement(rendering, node, scopes)))
    BY <2>1, <2>2, <2>3
  <2> QED  BY <2>4 DEF at, node
<1> QED  BY <1>1, <1>2, <1>3, NodesOf

\* The opcodes of a program leave what it stands for in the buffer.
LEMMA ProgramRenders ==
  ASSUME NEW p \in Program, NEW inner, NEW rendering, CallsRender(inner, rendering, p),
         NEW scopes \in Seq(PageValue)
  PROVE  CreateFunction(inner, p)[Given(p, scopes)] = Rendered(rendering, p)[scopes]
<1> DEFINE at == Given(p, scopes)
           n == Len(p)
           parts == [i \in DOMAIN p |-> CompileNode(p[i])]
           texts == [i \in DOMAIN p |-> Statement(rendering, p[i], scopes)]
           I == [k \in 0 .. n |-> State(<<>>, First(texts, k))]
           last == After(inner, at, Machine, Opcodes(p))
<1>1. n \in Nat /\ DOMAIN p = 1 .. n
  <2>1. p \in Seq(ContentNode \cup MustacheNode \cup BlockNode)  BY NodesOf
  <2> QED  BY <2>1
<1>2. ASSUME NEW i \in 1 .. n, NEW B, NEW m \in State(<<>>, B)
      PROVE  After(inner, at, m, parts[i]) \in State(<<>>, Append(B, texts[i]))
  <2>1. i \in DOMAIN p  BY <1>1
  <2>2. parts[i] = CompileNode(p[i]) /\ texts[i] = Statement(rendering, p[i], scopes)  BY <2>1
  <2>3. After(inner, at, m, CompileNode(p[i]))
          \in State(<<>>, Append(B, Statement(rendering, p[i], scopes)))
    BY <2>1, NodeRenders
  <2> HIDE DEF at, parts, texts
  <2> QED  BY <2>2, <2>3
<1>3. parts \in Seq(Seq(Ops)) /\ Len(parts) = n
  <2>1. \A i \in DOMAIN p : CompileNode(p[i]) \in Seq(Ops)
    <3> SUFFICES ASSUME NEW i \in DOMAIN p  PROVE CompileNode(p[i]) \in Seq(Ops)  OBVIOUS
    <3> DEFINE B == <<>>
               m == [stack |-> <<>>, context |-> 0, lastHelper |-> FALSE, buffer |-> B]
    <3>1. m \in State(<<>>, B)  BY DEF State
    <3> HIDE DEF m, B
    <3> QED  BY <3>1, NodeRenders
  <2>2. parts \in [1 .. n -> Seq(Ops)]
    <3> HIDE DEF Ops, n
    <3> QED  BY <1>1, <2>1
  <2> HIDE DEF parts, n, Ops
  <2> QED  BY <1>1, <2>2
<1> DEFINE T == {texts[i] : i \in 1 .. n}
<1>4. texts \in Seq(T) /\ Len(texts) = n
  <2>1. DOMAIN texts = 1 .. n /\ texts = [i \in 1 .. n |-> texts[i]]  BY <1>1
  <2> HIDE DEF texts, n
  <2>2. texts \in [1 .. n -> T]  BY <2>1
  <2> HIDE DEF T
  <2> QED  BY <1>1, <2>1, <2>2
<1>5. \A k \in 0 .. n : I[k] = State(<<>>, First(texts, k))
  <2> HIDE DEF texts
  <2> QED  OBVIOUS
<1>6. Opcodes(p) = FlattenSeq(parts)  BY DEF Opcodes
<1>7. CreateFunction(inner, p)[at] = FlattenSeq(last.buffer)
  <2>1. at \in [Parameters(p) -> PageValue \cup {ReferenceError}]  BY GivenScopes
  <2> HIDE DEF at
  <2> QED  BY <2>1 DEF CreateFunction
<1>8. Rendered(rendering, p)[scopes] = FlattenSeq(texts)  BY DEF Rendered
<1> HIDE DEF at, n, parts, texts, T, I
<1>9. Machine \in I[0]
  <2>1. First(texts, 0) = <<>> /\ 0 \in 0 .. n  BY <1>1, <1>4, FirstElements
  <2>2. Machine \in State(<<>>, <<>>)  BY DEF Machine, State
  <2> QED  BY <1>5, <2>1, <2>2
<1>10. ASSUME NEW k \in 1 .. n, NEW x \in I[k - 1]  PROVE After(inner, at, x, parts[k]) \in I[k]
  <2>1. k - 1 \in 0 .. n /\ k \in 0 .. n  BY <1>1
  <2>2. x \in State(<<>>, First(texts, k - 1))  BY <1>5, <2>1
  <2>3. First(texts, k) = Append(First(texts, k - 1), texts[k])  BY <1>4, FirstElements
  <2>4. After(inner, at, x, parts[k]) \in State(<<>>, Append(First(texts, k - 1), texts[k]))
    BY <1>2, <2>2
  <2> QED  BY <1>5, <2>1, <2>3, <2>4
<1>11. After(inner, at, Machine, FlattenSeq(parts)) \in I[Len(parts)]
  BY <1>3, <1>9, <1>10, AfterParts
<1>12. last.buffer = texts
  <2>1. n \in 0 .. n /\ First(texts, n) = texts  BY <1>1, <1>4, FirstElements
  <2>2. last \in State(<<>>, texts)  BY <1>3, <1>5, <1>6, <1>11, <2>1
  <2> QED  BY <2>2 DEF State
<1> HIDE DEF last
<1>13. CreateFunction(inner, p)[at] = Rendered(rendering, p)[scopes]  BY <1>7, <1>8, <1>12
<1> QED  BY <1>13 DEF at

\* The function that is generated for a program renders it, whatever its contexts are.
THEOREM FunctionsRender ==
  ASSUME NEW program \in Program, NEW scopes \in Seq(PageValue)
  PROVE  FunctionContext[program][Given(program, scopes)] = Rendering[program][scopes]
<1> DEFINE Renders(p) == \A sc \in Seq(PageValue) :
                           FunctionContext[p][Given(p, sc)] = Rendering[p][sc]
           S == {n \in Nat : \A p \in Below(n) : Renders(p)}
<1>1. 0 \in S
  <2>1. \A p \in Program : Nesting[p] \in Nat  BY ProgramAssumption
  <2>2. Below(0) = {}  BY <2>1 DEF Below
  <2> QED  BY <2>2
<1>2. ASSUME NEW n \in Nat, n \in S  PROVE n + 1 \in S
  <2>1. SUFFICES ASSUME NEW p \in Below(n + 1), NEW sc \in Seq(PageValue)
                 PROVE  FunctionContext[p][Given(p, sc)] = Rendering[p][sc]
    OBVIOUS
  <2>2. p \in Program /\ Inside(p) \subseteq Below(n)  BY BelowTheNext
  <2> DEFINE inner == [q \in Inside(p) |-> FunctionContext[q]]
             rendering == [q \in Inside(p) |-> Rendering[q]]
  <2>3. CallsRender(inner, rendering, p)
    <3> SUFFICES ASSUME NEW q \in Inside(p), NEW s \in Seq(PageValue)
                 PROVE  inner[q][Given(q, s)] = rendering[q][s]
      BY DEF CallsRender
    <3>1. FunctionContext[q][Given(q, s)] = Rendering[q][s]  BY <1>2, <2>2
    <3>2. inner[q] = FunctionContext[q] /\ rendering[q] = Rendering[q]  OBVIOUS
    <3> HIDE DEF inner, rendering
    <3> QED  BY <3>1, <3>2
  <2>4. FunctionContext[p] = CreateFunction(inner, p)  BY <2>2, FunctionContextEquation
  <2>5. Rendering[p] = Rendered(rendering, p)  BY <2>2, RenderingEquation
  <2> HIDE DEF inner, rendering
  <2>6. CreateFunction(inner, p)[Given(p, sc)] = Rendered(rendering, p)[sc]
    BY <2>2, <2>3, ProgramRenders
  <2> QED  BY <2>4, <2>5, <2>6
<1>3. Nat \subseteq S
  <2> HIDE DEF S
  <2> QED  BY <1>1, <1>2, Induction
<1>4. Nesting[program] + 1 \in Nat /\ program \in Below(Nesting[program] + 1)
  <2>1. Nesting[program] \in Nat  BY InsideIsBelow
  <2> QED  BY <2>1 DEF Below
<1>5. Nesting[program] + 1 \in S  BY <1>3, <1>4
<1>6. Renders(program)  BY <1>4, <1>5
<1> QED  BY <1>6

LEMMA TemplateRenders ==
  ASSUME NEW program \in Program, NEW context \in PageValue
  PROVE  TemplateFn(program, context) = Rendering[program][<<context>>]
<1> DEFINE scopes == <<context>>
           at == [d \in Parameters(program) |-> IF d = 0 THEN context ELSE Undefined]
<1>1. scopes \in Seq(PageValue) /\ Len(scopes) = 1 /\ scopes[1] = context  BY OneOf
<1>2. Parameters(program) \subseteq Nat  BY GivenScopes, <1>1
<1> HIDE DEF scopes
<1>3. ASSUME NEW d \in Parameters(program)
      PROVE  (IF d = 0 THEN context ELSE Undefined) = Outward(scopes, d)
  <2>1. d \in Nat  BY <1>2
  <2> HIDE DEF Undefined
  <2> QED  BY <1>1, <2>1 DEF Outward
<1>4. at = Given(program, scopes)
  <2> HIDE DEF Outward, Parameters, Undefined
  <2> QED  BY <1>3 DEF Given
<1>5. FunctionContext[program][Given(program, scopes)] = Rendering[program][scopes]
  BY <1>1, FunctionsRender
<1>6. TemplateFn(program, context) = FunctionContext[program][at]  BY DEF TemplateFn
<1> HIDE DEF at
<1> QED  BY <1>4, <1>5, <1>6 DEF scopes

TemplatesTyped ==
  /\ template = NoTemplate \/ template \in PageTemplate
  /\ rendered # NotRendered => template # NoTemplate

\* A page shows what its template stands for, whatever the templates of the pages and what
\* they are rendered with.
THEOREM TemplatesRender == TemplatesSpec => []RendersTheTemplate
<1> DEFINE Inv == TemplatesTyped /\ RendersTheTemplate
<1>1. TemplatesInit => Inv
  BY DEF TemplatesInit, TemplatesTyped, RendersTheTemplate
<1>2. ASSUME Inv, [TemplatesNext]_templateVars  PROVE Inv'
  <2> USE <1>2
  <2>1. CASE UNCHANGED templateVars
    BY <2>1 DEF templateVars, TemplatesTyped, RendersTheTemplate
  <2>2. ASSUME NEW t \in PageTemplate, LoadTemplate(t)  PROVE Inv'
    <3>1. rendered = NotRendered /\ rendered' = NotRendered /\ template' = t
      BY <2>2 DEF LoadTemplate, TemplatesTyped
    <3> QED  BY <3>1 DEF TemplatesTyped, RendersTheTemplate
  <2>3. ASSUME NEW context \in PageContext, RenderTemplate(context)  PROVE Inv'
    <3> DEFINE parsed == Parse(template.text)
               html == IF Accepted(parsed) THEN TemplateFn(Statements(parsed), context) ELSE Exception
    <3>1. /\ template # NoTemplate /\ template' = template
          /\ rendered' = <<context, html>>
      BY <2>3 DEF RenderTemplate
    <3>2. template \in PageTemplate  BY <3>1 DEF TemplatesTyped
    <3>3. context \in PageValue  BY PageTemplateAssumption
    <3>4. CASE template.valid
      <4>1. template.program \in Program /\ Accepted(parsed) /\ Statements(parsed) = template.program
        BY <3>2, <3>4, PageTemplateAssumption
      <4> HIDE DEF parsed
      <4>2. html = TemplateFn(template.program, context)  BY <4>1
      <4>3. html = Rendering[template.program][<<context>>]  BY <3>3, <4>1, <4>2, TemplateRenders
      <4> HIDE DEF html
      <4> QED  BY <3>1, <3>2, <3>4, <4>3 DEF TemplatesTyped, RendersTheTemplate
    <3>5. CASE ~template.valid
      <4>1. ~Accepted(parsed)  BY <3>2, <3>5, PageTemplateAssumption
      <4>2. html = Exception  BY <4>1
      <4> HIDE DEF html
      <4> QED  BY <3>1, <3>2, <3>5, <4>2 DEF TemplatesTyped, RendersTheTemplate
    <3> QED  BY <3>4, <3>5
  <2> QED  BY <2>1, <2>2, <2>3 DEF TemplatesNext
<1>3. Inv => RendersTheTemplate  OBVIOUS
<1> QED  BY <1>1, <1>2, <1>3, PTL DEF TemplatesSpec
================================================================================
