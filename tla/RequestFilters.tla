----------------------------- MODULE RequestFilters -----------------------------
(***************************************************************************)
(* The filters of the request page (controller/request-view.js): buttons   *)
(* that hide the deleted entries, the valid ones, and the rows of a locale *)
(* in the entries that were opened.  Each one shows and hides rows of its  *)
(* own; what a row shows depends on the order the buttons are used in.     *)
(***************************************************************************)
CONSTANTS
  Entry,
  TypeOf,        \* change each entry stands for
  Controlled,    \* entries the server has a control message for
  Language       \* locales of the request

ASSUME FiltersAssumption ==
  /\ TypeOf \in [Entry -> {"ADDED", "UPDATED", "DELETED"}]
  /\ Language \cap {"deleted", "valid"} = {}
  /\ Controlled \subseteq Entry

VARIABLES
  pressed,       \* buttons that are active: "deleted", "valid" and languages
  shown,         \* the rows of an entry are shown
  opened,        \* entries whose fields were loaded
  localeShown,   \* the row of a locale in an opened entry is shown
  localeFilter   \* locales hidden by the page

filtersVars == <<pressed, shown, opened, localeShown, localeFilter>>

FiltersTypeOK ==
  /\ pressed \subseteq {"deleted", "valid"} \cup Language
  /\ shown \in [Entry -> BOOLEAN]
  /\ opened \subseteq Entry
  /\ localeShown \in [Entry -> [Language -> BOOLEAN]]
  /\ localeFilter \subseteq Language

FiltersInit ==
  /\ pressed = {} /\ opened = {} /\ localeFilter = {}
  /\ shown = [e \in Entry |-> TRUE]
  /\ localeShown = [e \in Entry |-> [l \in Language |-> TRUE]]

-----------------------------------------------------------------------------
\* The classes of the rows of an entry, given by preProcessingFn.
Classes(e) == {TypeOf[e]} \cup {c \in {"invalid"} : e \in Controlled}
Deleted(e) == "DELETED" \in Classes(e)
Invalid(e) == "invalid" \in Classes(e)

\* The button becomes active after the page has looked at it.
Active(b) == b \in pressed
Press(b)  == pressed' = IF Active(b) THEN pressed \ {b} ELSE pressed \cup {b}

HideDeleted ==
  /\ shown' = [e \in Entry |-> IF Deleted(e) THEN Active("deleted") ELSE shown[e]]
  /\ Press("deleted")
  /\ UNCHANGED <<opened, localeShown, localeFilter>>

\* Mutant: the deleted entries are shown with the other valid ones.
ReleasedWithDeleted(e) == TRUE

\* Mutant: no deleted entry is shown again.
ReleasedNeverDeleted(e) == IF Deleted(e) THEN shown[e] ELSE TRUE

Released(e) == IF Active("deleted") /\ Deleted(e) THEN shown[e] ELSE TRUE

\* The rows without the class invalid: those of valid entries, and the rows of
\* the locales in every opened entry.
HideValid ==
  /\ shown' = [e \in Entry |-> IF Invalid(e) THEN shown[e]
                               ELSE IF Active("valid") THEN Released(e) ELSE FALSE]
  /\ localeShown' = [e \in Entry |-> IF e \in opened
                                     THEN [l \in Language |-> Active("valid")]
                                     ELSE localeShown[e]]
  /\ Press("valid")
  /\ UNCHANGED <<opened, localeFilter>>

FilterLocales(hidden, entries) ==
  /\ localeFilter' = hidden
  /\ localeShown' = [e \in Entry |-> IF e \in entries
                                     THEN [l \in Language |-> l \notin hidden]
                                     ELSE localeShown[e]]

HideLocale(l) ==
  /\ FilterLocales(IF Active(l) THEN localeFilter \ {l} ELSE localeFilter \cup {l}, opened)
  /\ Press(l)
  /\ UNCHANGED <<shown, opened>>

\* The fields of the entry are in the page; the filters on locales are applied to
\* all the entries.
Open(e) ==
  /\ shown[e] /\ e \notin opened
  /\ opened' = opened \cup {e}
  /\ FilterLocales(localeFilter, opened')
  /\ UNCHANGED <<pressed, shown>>

FiltersNext ==
  \/ HideDeleted \/ HideValid
  \/ \E l \in Language : HideLocale(l)
  \/ \E e \in Entry : Open(e)

FiltersSpec == FiltersInit /\ [][FiltersNext]_filtersVars

-----------------------------------------------------------------------------
\* The two filters on entries work together: as long as the one on deleted entries
\* is active, using the other one does not bring them back.
DeletedStayHidden ==
  Active("deleted") => \A e \in Entry : Deleted(e) => ~shown[e]

\* Whatever the order the filters were used in, a page without active filters
\* shows every row.
NothingHiddenWithoutFilter ==
  pressed = {} => \A e \in Entry : shown[e] /\ \A l \in Language : localeShown[e][l]

\* What NothingHiddenWithoutFilter rests on: an entry is hidden by an active
\* filter that applies to it, and the locales hidden are those of active buttons.
HiddenByAFilter ==
  /\ localeFilter = pressed \cap Language
  /\ \A e \in Entry : ~shown[e] => \/ Active("deleted") /\ Deleted(e)
                                   \/ Active("valid") /\ ~Invalid(e)
  /\ \A e \in Entry, l \in Language :
       ~localeShown[e][l] => e \in opened /\ (Active("valid") \/ Active(l))
================================================================================
