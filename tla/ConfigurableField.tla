----------------------------- MODULE ConfigurableField -----------------------------
(***************************************************************************)
(* The field of a form where the user chooses an implementation (of the    *)
(* source of a project, of the exchange of a request) and configures it    *)
(* (lib/jcombo.js, lib/jconfigurable.js).  The choices come from the       *)
(* server; the script that displays and reads the configuration of a       *)
(* choice is loaded when the choice is made, its template after that, and  *)
(* the user changes his mind meanwhile.                                    *)
(***************************************************************************)
CONSTANTS
  Choice,
  Unconfigured,  \* choices that have nothing to configure
  Lenient,       \* choices whose script sends whatever fields the box holds
  Nested         \* choices whose script keeps the fields it displayed last

Nothing == "nothing"

ASSUME ChoiceAssumption ==
  /\ Nothing \notin Choice
  /\ Unconfigured \cup Lenient \cup Nested \subseteq Choice
  /\ Unconfigured \cap Nested = {}

VARIABLES
  filled,        \* the choices are in the <select>
  choice,        \* the one that is selected
  scripts,       \* choices whose script is being loaded
  controller,    \* field.configController, that of a choice
  templates,     \* choices whose template is being loaded
  box,           \* the configuration the box holds
  boxShown,      \* the box is visible
  kept,          \* nested choices whose fields were displayed
  sent,          \* what the form sent last: a choice and its configuration
  complaint,     \* the form shows that its submission raised an exception
  hurried        \* history: the choice was made before the last one was displayed

fieldState == <<filled, choice, scripts, controller, templates, box, boxShown, kept, sent,
                complaint, hurried>>

ChoiceTypeOK ==
  /\ {filled, boxShown, complaint, hurried} \subseteq BOOLEAN
  /\ scripts \subseteq Choice /\ templates \subseteq Choice \ Unconfigured
  /\ kept \subseteq Nested
  /\ {choice, controller, box} \subseteq Choice \cup {Nothing}
  /\ sent \in [id : Choice \cup {Nothing}, node : Choice \cup {Nothing}]

ChoiceInit ==
  /\ filled = FALSE /\ choice = Nothing
  /\ scripts = {} /\ templates = {}
  /\ controller = Nothing /\ box = Nothing /\ boxShown = FALSE /\ kept = {}
  /\ sent = [id |-> Nothing, node |-> Nothing]
  /\ complaint = FALSE /\ hurried = FALSE

Loaded == scripts = {} /\ templates = {}

-----------------------------------------------------------------------------
\* jcombo.init: the choices have come.
Fill ==
  /\ ~filled
  /\ filled' = TRUE
  /\ UNCHANGED <<choice, scripts, controller, templates, box, boxShown, kept, sent,
                 complaint, hurried>>

\* onChange: without a choice, nothing is configured; the controller stays.
Choose(c) ==
  /\ filled /\ c # choice
  /\ choice' = c
  /\ hurried' = ~Loaded
  /\ IF c = Nothing
     THEN box' = Nothing /\ boxShown' = FALSE /\ UNCHANGED scripts
     ELSE scripts' = scripts \cup {c} /\ UNCHANGED <<box, boxShown>>
  /\ UNCHANGED <<filled, controller, templates, kept, sent, complaint>>

\* Mutant: a choice that was configured last is not displayed again.
DisplayOnce(c) == IF controller = c \/ c \in Unconfigured THEN {} ELSE {c}

\* The template that displays a choice.
Display(c) == IF c \in Unconfigured THEN {} ELSE {c}

\* The script of a choice is there, for the choice it was loaded for or for a later one.
Script(c) ==
  /\ c \in scripts
  /\ scripts' = scripts \ {c}
  /\ controller' = c
  /\ templates' = templates \cup Display(c)
  /\ box' = Nothing /\ boxShown' = TRUE
  /\ UNCHANGED <<filled, choice, kept, sent, complaint, hurried>>

Template(c) ==
  /\ c \in templates
  /\ templates' = templates \ {c}
  /\ box' = c
  /\ kept' = IF c \in Nested THEN kept \cup {c} ELSE kept
  /\ UNCHANGED <<filled, choice, scripts, controller, boxShown, sent, complaint, hurried>>

\* Most controllers look for their fields in the box, and raise an exception when they
\* are not there; so does a field that has no controller yet.
Readable ==
  /\ controller # Nothing
  /\ box = controller \/ controller \in Unconfigured \cup Lenient \cup kept

Configuration == IF controller \in Unconfigured \cup Nested THEN controller ELSE box

\* val, in a form that is submitted: the browser refuses to submit without a choice.
SendChoice ==
  /\ choice # Nothing
  /\ IF Readable
     THEN sent' = [id |-> choice, node |-> Configuration] /\ UNCHANGED complaint
     ELSE complaint' = TRUE /\ UNCHANGED sent
  /\ UNCHANGED <<filled, choice, scripts, controller, templates, box, boxShown, kept, hurried>>

ChoiceNext ==
  \/ Fill \/ SendChoice
  \/ \E c \in Choice \cup {Nothing} : Choose(c)
  \/ \E c \in Choice : Script(c) \/ Template(c)

\* The browser gets the scripts and the templates it asks for.
ChoiceFairness == \A c \in Choice : WF_fieldState(Script(c)) /\ WF_fieldState(Template(c))

ChoiceSpec == ChoiceInit /\ [][ChoiceNext]_fieldState /\ ChoiceFairness

-----------------------------------------------------------------------------
\* Once its script and its template are there, a choice that was made calmly is the one
\* whose configuration is displayed, and the one whose controller reads it.
ConfigurationOnceLoaded ==
  Loaded /\ ~hurried /\ choice # Nothing =>
    /\ controller = choice /\ boxShown
    /\ box = choice \/ (box = Nothing /\ choice \in Unconfigured)

\* The configuration of a choice made calmly is displayed, unless the user chooses
\* again.  A script or a template that comes late does not prevent it.
ChoiceIsDisplayed ==
  \A c \in Choice :
    choice = c ~> choice # c \/ hurried \/ (boxShown /\ (box = c \/ c \in Unconfigured))
=====================================================================================
