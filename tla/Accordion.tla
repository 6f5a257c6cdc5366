-------------------------------- MODULE Accordion --------------------------------
(***************************************************************************)
(* The sections of the settings page (bootstrap.js, collapse): showing one *)
(* hides the other, and both take the time of a transition during which    *)
(* the user goes on clicking.                                              *)
(***************************************************************************)
CONSTANT Section

VARIABLES
  in,             \* sections with the class in: shown, or being shown
  transitioning   \* sections on their way

accordionVars == <<in, transitioning>>

AccordionTypeOK == in \subseteq Section /\ transitioning \subseteq Section

AccordionInit == in = {} /\ transitioning = {}

Actives(s) == in \ {s}

\* Sections that hide when they are asked to: not those in transition.
Hidden(sections) == sections \ transitioning

\* Mutant: the section in place is not looked at.
MayShowAnyTime(s) == s \notin transitioning \cup in

\* show: the section is neither shown nor in transition, and neither is the one
\* in its place.
MayShow(s) == /\ s \notin transitioning \cup in
              /\ Actives(s) \cap transitioning = {}

Show(s) ==
  /\ MayShow(s)
  /\ in' = (in \ Hidden(Actives(s))) \cup {s}
  /\ transitioning' = transitioning \cup Hidden(Actives(s)) \cup {s}

Hide(s) ==
  /\ s \in in \ transitioning
  /\ in' = in \ {s}
  /\ transitioning' = transitioning \cup {s}

Complete(s) ==
  /\ s \in transitioning
  /\ transitioning' = transitioning \ {s}
  /\ UNCHANGED in

AccordionNext == \E s \in Section : Show(s) \/ Hide(s) \/ Complete(s)

AccordionSpec == AccordionInit /\ [][AccordionNext]_accordionVars

\* However fast the user clicks, one section is shown at a time.
OneSectionShown == \A s, t \in in : s = t
==================================================================================
