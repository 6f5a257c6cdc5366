------------------------- MODULE RequestServiceClaims -------------------------
(***************************************************************************)
(* What the documentation, the tests or the comments of the console say of *)
(* requests and the code does not ensure.  Each claim is checked by a run  *)
(* of its own, which shows how the handlers break it.                      *)
(***************************************************************************)
EXTENDS RequestService

\* A deleted key cannot be edited (E-011).
DeletedKeysAreNotEdited ==
  \A r \in RequestId, k \in Key :
    requests[r].status = "EXPORTED" /\ requests[r].entries[k].type = "DELETED" =>
      requests[r].entries[k] =
        Diff(MapAt(requests[r].version), MapAt(requests[r].to))[k]

\* The map is written back into the latest version of the source: what others
\* committed in keys the diff does not hold is still there.
NoLostSourceChange ==
  \A h \in Handler :
    At(h, "written") /\ tx[h].committed # NoRevision =>
      \A k \in Key \ KeysOf(tx[h].diff) :
        MapAt(tx[h].committed)[k] = MapAt(tx[h].committed - 1)[k]

\* The keys a merged diff deletes have left the source.
DeletedKeysLeaveTheSource ==
  \A h \in Handler : At(h, "written") =>
    \A k \in Key :
      tx[h].diff[k].type = "DELETED" =>
        \E v \in tx[h].checkout .. Latest : MapAt(v)[k] = NoLabels
==============================================================================
