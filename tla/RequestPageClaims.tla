--------------------------- MODULE RequestPageClaims ---------------------------
(***************************************************************************)
(* What the code of the request page says of itself and does not ensure.   *)
(***************************************************************************)
EXTENDS RequestPage

\* A field marked as a success shows the value that was submitted, once the user
\* has left it and nothing is under way.
SuccessMeansSubmitted ==
  \A l \in Locale :
    /\ fields[l].present /\ "success" \in fields[l].marks
    /\ focus # l /\ ~fields[l].typing /\ Saving(l) = {}
    => ~Changed(l)
================================================================================
