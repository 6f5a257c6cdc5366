---------------------------------- MODULE Menus ----------------------------------
(***************************************************************************)
(* The drop-down menus of the pages (bootstrap.js, dropdown): language,    *)
(* user and profile menus.  They have no role=menu, so only the toggles    *)
(* listen to the keyboard.                                                 *)
(***************************************************************************)
CONSTANT Menu

VARIABLES
  open,        \* menus whose parent has the class open
  focusOn      \* the toggle that has the focus

menusVars == <<open, focusOn>>

NoToggle == "none"

MenusTypeOK == open \subseteq Menu /\ focusOn \in Menu \cup {NoToggle}

MenusInit == open = {} /\ focusOn = NoToggle

ClearMenus == {}   \* what is left open

\* Mutant: a toggle closes its own menu only.
ToggledAlone(m) == IF m \in open THEN open \ {m} ELSE open \cup {m}

Toggled(m) == IF m \in open THEN ClearMenus ELSE ClearMenus \cup {m}

\* The click does not reach the document, which would close the menu again.
Toggle(m) ==
  /\ open' = Toggled(m)
  /\ focusOn' = m

\* An arrow key opens the menu; in an open one it finds no item to go to.  The
\* escape key toggles it, whether it is open or not.
ArrowKey(m) ==
  /\ focusOn = m /\ m \notin open
  /\ Toggle(m)

EscapeKey(m) ==
  /\ focusOn = m
  /\ Toggle(m)

ClickElsewhere ==
  /\ open' = ClearMenus
  /\ focusOn' = NoToggle

\* The tabulator moves the focus between toggles and away from them.
MoveFocus(m) ==
  /\ focusOn # m
  /\ focusOn' = m
  /\ UNCHANGED open

MenusNext ==
  \/ ClickElsewhere
  \/ \E m \in Menu : Toggle(m) \/ ArrowKey(m) \/ EscapeKey(m)
  \/ \E m \in Menu \cup {NoToggle} : MoveFocus(m)

MenusSpec == MenusInit /\ [][MenusNext]_menusVars

\* However the mouse and the keyboard are used, one menu is open at a time.
OneMenuOpen == \A m, n \in open : m = n
=================================================================================
