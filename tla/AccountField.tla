------------------------------ MODULE AccountField ------------------------------
(***************************************************************************)
(* The field where an account is chosen to get a role in a project         *)
(* (project-acl.js), with the menu of the accounts that match its text     *)
(* (bootstrap.js, typeahead).  Each key sends a query, the answers come in *)
(* any order or never, and the user moves on meanwhile.                    *)
(***************************************************************************)
EXTENDS Naturals, Sequences, FiniteSets

CONSTANTS
  Account,
  Text,          \* what the user types
  Empty,         \* the text of an empty field
  Malformed,     \* texts that are no regular expression
  Found,         \* the accounts the server finds for a text
  Query          \* bound on the queries in flight

NoQuery == "none"
Nobody == "nobody"

ASSUME FieldAssumption ==
  /\ {Empty, NoQuery} \cap Text = {} /\ Malformed \subseteq Text
  /\ Text \cap Account = {}
  /\ Found \in [Text -> Seq(Account)]

VARIABLES
  text,          \* text of the field; an account stands for its own label
  query,         \* this.query: the last text looked up
  queries,       \* the text of each query in flight
  known,         \* accounts of accountsByNames
  menu,          \* items of the menu
  active,        \* its active item
  menuShown,
  focused, mousedover,
  selected,      \* selectedAccount
  asked,         \* accounts whose authorization is being saved
  raised,        \* history: the last answer raised an exception before it was shown
  late           \* history: the last answer was for another text, or an answer was lost

fieldVars == <<text, query, queries, known, menu, active, menuShown, focused, mousedover,
               selected, asked, raised, late>>

FieldTypeOK ==
  /\ text \in Text \cup Account \cup {Empty}
  /\ query \in Text \cup {Empty}
  /\ queries \in [Query -> Text \cup {NoQuery}]
  /\ known \subseteq Account
  /\ menu \in Seq(Account) /\ active \in 0 .. Len(menu) /\ (menuShown => active # 0)
  /\ {menuShown, focused, mousedover, raised, late} \subseteq BOOLEAN
  /\ selected \in Account \cup {Nobody} /\ asked \subseteq Account

FieldInit ==
  /\ text = Empty /\ query = Empty
  /\ queries = [q \in Query |-> NoQuery]
  /\ known = {} /\ menu = <<>> /\ active = 0
  /\ menuShown = FALSE /\ focused = FALSE /\ mousedover = FALSE
  /\ selected = Nobody /\ asked = {}
  /\ raised = FALSE /\ late = FALSE

-----------------------------------------------------------------------------
ItemsOf(s) == {s[i] : i \in 1 .. Len(s)}
HideMenu == menuShown' = FALSE
ShowMenu(items) == menu' = items /\ active' = 1 /\ menuShown' = TRUE

FocusField ==
  /\ ~focused
  /\ focused' = TRUE
  /\ UNCHANGED <<text, query, queries, known, menu, active, menuShown, mousedover,
                 selected, asked, raised, late>>

\* The menu stays while the mouse is over it.
BlurField ==
  /\ focused
  /\ focused' = FALSE
  /\ IF mousedover THEN UNCHANGED menuShown ELSE HideMenu
  /\ UNCHANGED <<text, query, queries, known, menu, active, mousedover,
                 selected, asked, raised, late>>

\* keyup, lookup: an empty field hides the menu and sends no query.
Type(t) ==
  /\ focused /\ t # text
  /\ text' = t /\ query' = t
  /\ IF t = Empty
     THEN HideMenu /\ UNCHANGED <<queries, known>>
     ELSE /\ \E q \in Query :
               queries[q] = NoQuery /\ queries' = [queries EXCEPT ![q] = t]
          /\ UNCHANGED <<known, menuShown>>
  /\ UNCHANGED <<menu, active, focused, mousedover, selected, asked, raised, late>>

\* Without items the menu is hidden.  The highlighter makes a regular expression of
\* the last query, and raises an exception before anything is shown.
Process(items) ==
  IF items = <<>> THEN HideMenu /\ UNCHANGED <<menu, active>>
  ELSE IF query \in Malformed THEN UNCHANGED <<menu, active, menuShown>>
  ELSE ShowMenu(items)

\* Mutant: an answer for a former text is shown, but its accounts are not kept.
AnswerForgotten(q) ==
  /\ queries[q] # NoQuery
  /\ queries' = [queries EXCEPT ![q] = NoQuery]
  /\ LET items == Found[queries[q]] IN
     /\ known' = IF queries[q] = query THEN ItemsOf(items) ELSE known
     /\ Process(items)
     /\ raised' = (items # <<>> /\ query \in Malformed)
  /\ late' = (queries[q] # text)
  /\ UNCHANGED <<text, query, focused, mousedover, selected, asked>>

\* userLookup: the accounts found are known before they are shown.
Answer(q) ==
  /\ queries[q] # NoQuery
  /\ queries' = [queries EXCEPT ![q] = NoQuery]
  /\ LET items == Found[queries[q]] IN
     /\ known' = ItemsOf(items)
     /\ Process(items)
     /\ raised' = (items # <<>> /\ query \in Malformed)
  /\ late' = (queries[q] # text)
  /\ UNCHANGED <<text, query, focused, mousedover, selected, asked>>

\* At most the user is shown a message, and the page stays as it is.
Lost(q) ==
  /\ queries[q] # NoQuery
  /\ queries' = [queries EXCEPT ![q] = NoQuery]
  /\ late' = TRUE
  /\ UNCHANGED <<text, query, known, menu, active, menuShown, focused, mousedover,
                 selected, asked, raised>>

-----------------------------------------------------------------------------
(* The user moves in the menu.                                               *)

Activate(i) ==
  /\ menuShown
  /\ active' = i
  /\ UNCHANGED <<text, query, queries, known, menu, menuShown, focused,
                 selected, asked, raised, late>>

NextItem == IF active < Len(menu) THEN active + 1 ELSE 1

PrevItem == IF active > 1 THEN active - 1 ELSE Len(menu)

DownArrow    == focused /\ Activate(NextItem) /\ UNCHANGED mousedover
UpArrow      == focused /\ Activate(PrevItem) /\ UNCHANGED mousedover
EnterItem(i) == i \in 1 .. Len(menu) /\ Activate(i) /\ mousedover' = TRUE

LeaveMenu ==
  /\ mousedover
  /\ mousedover' = FALSE
  /\ IF focused THEN UNCHANGED menuShown ELSE HideMenu
  /\ UNCHANGED <<text, query, queries, known, menu, active, focused, selected, asked, raised, late>>

\* The account is looked up by the label of the item.
SelectItem ==
  /\ menuShown
  /\ text' = menu[active]
  /\ selected' = IF menu[active] \in known THEN menu[active] ELSE Nobody
  /\ HideMenu
  /\ UNCHANGED <<query, queries, known, menu, active, mousedover, asked, raised, late>>

SelectByKey   == focused /\ SelectItem /\ UNCHANGED focused
SelectByClick == mousedover /\ SelectItem /\ focused' = TRUE

EscapeMenu ==
  /\ focused /\ menuShown
  /\ HideMenu
  /\ UNCHANGED <<text, query, queries, known, menu, active, focused, mousedover,
                 selected, asked, raised, late>>

\* addACL: the selected account, whatever the field has become since.
AddACL ==
  /\ selected # Nobody
  /\ asked' = asked \cup {selected}
  /\ UNCHANGED <<text, query, queries, known, menu, active, menuShown, focused, mousedover,
                 selected, raised, late>>

\* The page is loaded again.
Added(a) ==
  /\ a \in asked
  /\ text' = Empty /\ query' = Empty
  /\ queries' = [q \in Query |-> NoQuery]
  /\ known' = {} /\ menu' = <<>> /\ active' = 0
  /\ menuShown' = FALSE /\ focused' = FALSE /\ mousedover' = FALSE
  /\ selected' = Nobody /\ asked' = {}
  /\ raised' = FALSE /\ late' = FALSE

NotAdded(a) ==
  /\ a \in asked
  /\ asked' = asked \ {a}
  /\ UNCHANGED <<text, query, queries, known, menu, active, menuShown, focused, mousedover,
                 selected, raised, late>>

FieldNext ==
  \/ FocusField \/ BlurField \/ DownArrow \/ UpArrow \/ LeaveMenu
  \/ SelectByKey \/ SelectByClick \/ EscapeMenu \/ AddACL
  \/ \E t \in Text \cup {Empty} : Type(t)
  \/ \E q \in Query : Answer(q) \/ Lost(q)
  \/ \E i \in 1 .. Len(menu) : EnterItem(i)
  \/ \E a \in Account : Added(a) \/ NotAdded(a)

FieldSpec == FieldInit /\ [][FieldNext]_fieldVars

-----------------------------------------------------------------------------
\* What the menu offers is found in the accounts by names.
MenuItemsAreKnown == menuShown /\ ~raised => ItemsOf(menu) \subseteq known

\* Once the answers have come and the last one was for the text of the field, the
\* menu shows what the server found for it.
MenuAnswersText ==
  /\ menuShown /\ ~late /\ ~raised
  /\ \A q \in Query : queries[q] = NoQuery
  => text \in Text /\ menu = Found[text]

\* Whatever the order of the answers to the look-ups, an item the user takes from the
\* menu is an account that can be given the role, also when the menu is of a former
\* text; and the menu is of the text once the last answer was for it.  Excepted is an
\* answer that raised an exception on its way to the menu.
MenuCanBeUsed == MenuItemsAreKnown /\ MenuAnswersText
================================================================================
