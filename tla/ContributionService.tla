-------------------------- MODULE ContributionService --------------------------
(***************************************************************************)
(* Contributions to one branch: ContributionServiceImpl over the table of  *)
(* staged contributions, the translation source and the mails.  A          *)
(* contributor stages labels and the reviewers are told; a reviewer posts  *)
(* labels to the source, those of a staged contribution, as they are or    *)
(* edited, or his own; or he rejects a contribution.  Each operation is    *)
(* one READ COMMITTED transaction of one thread.  The source and the mails *)
(* take no part in it: what they were given stays when it is rolled back.  *)
(***************************************************************************)
EXTENDS TranslationSource

CONSTANTS
  Handler,           \* threads that serve HTTP requests
  MaxContribution,   \* bound on the number of contributions staged
  Proposals          \* labels a contributor or a reviewer may post

Direct == 0          \* id of the labels a reviewer posts on his own
ContributionId == 1 .. MaxContribution

ASSUME ContributionAssumption ==
  /\ MaxContribution \in Nat
  /\ Author = {Direct} \cup ContributionId
  /\ Proposals \subseteq Map \ {EmptyMap}

VARIABLES
  contributions,     \* rows of CONTRIBUTION: never inserted, staged or deleted
  nextId,            \* auto-increment of CONTRIBUTION, not undone by a rollback
  mails,             \* mails handed to the mail sender
  tx                 \* progress of each handler

vars == <<repo, contributions, nextId, mails, tx>>

Row == [status : {"NONE", "STAGED", "GONE"}, labels : Map]
NoRow == [status |-> "NONE", labels |-> EmptyMap]

NoVersion == 0
Mail == [kind : {"STAGED", "ACCEPTED", "REJECTED"}, id : ContributionId,
         version : {NoVersion, NoRevision} \cup Nat]
Verdict(m) == m.kind \in {"ACCEPTED", "REJECTED"}

Step == {"idle", "staging", "staged", "saving", "mapRead", "checkedOut",
         "written", "loaded", "accepted", "rejecting", "rejected"}

\* The local variables of the handlers.
Tx == [step : Step,
       id : {Direct} \cup ContributionId,
       input : Map,               \* labels posted
       read : Nat,                \* revision of the map read at the head
       checkout : Nat,            \* revision of the checkout of the write
       committed : {NoVersion, NoRevision} \cup Nat]   \* what the commit returned

Idle == [step |-> "idle", id |-> Direct, input |-> EmptyMap, read |-> 0,
         checkout |-> 0, committed |-> NoVersion]

TypeOK == /\ SourceTypeOK
          /\ contributions \in [ContributionId -> Row]
          /\ nextId \in 1 .. MaxContribution + 1
          /\ mails \subseteq Mail
          /\ tx \in [Handler -> Tx]

Init == /\ SourceInit
        /\ contributions = [c \in ContributionId |-> NoRow]
        /\ nextId = 1
        /\ mails = {}
        /\ tx = [h \in Handler |-> Idle]

-----------------------------------------------------------------------------
At(h, step) == tx[h].step = step
Target(h)   == tx[h].id
Staged(c)   == contributions[c].status = "STAGED"
Advance(h, local) == tx' = [tx EXCEPT ![h] = local]
End(h)            == Advance(h, Idle)

\* The mail sender swallows its failures: the caller goes on in any case.
Send(kind, c, version) ==
  mails' = mails \cup {[kind |-> kind, id |-> c, version |-> version]}

-----------------------------------------------------------------------------
(* stage: the contribution is inserted, the reviewers are told, and only then
   the transaction commits.                                                  *)

\* Mutant: the id follows the one of the last committed row.
BeginStageWithoutSequence(h, labels) ==
  /\ At(h, "idle")
  /\ nextId \in ContributionId
  /\ nextId' = IF contributions[nextId].status = "NONE" THEN nextId ELSE nextId + 1
  /\ Advance(h, [Idle EXCEPT !.step = "staging", !.id = nextId, !.input = labels])
  /\ UNCHANGED <<repo, contributions, mails>>

BeginStage(h, labels) ==
  /\ At(h, "idle")
  /\ nextId \in ContributionId
  /\ nextId' = nextId + 1
  /\ Advance(h, [Idle EXCEPT !.step = "staging", !.id = nextId, !.input = labels])
  /\ UNCHANGED <<repo, contributions, mails>>

NotifyReviewers(h) ==
  /\ At(h, "staging")
  /\ Send("STAGED", Target(h), NoVersion)
  /\ Advance(h, [tx[h] EXCEPT !.step = "staged"])
  /\ UNCHANGED <<repo, contributions, nextId>>

CommitStage(h) ==
  /\ At(h, "staged")
  /\ contributions' = [contributions EXCEPT
                         ![Target(h)] = [status |-> "STAGED", labels |-> tx[h].input]]
  /\ End(h)
  /\ UNCHANGED <<repo, nextId, mails>>

-----------------------------------------------------------------------------
(* save: the source is read and written; the contribution is looked up after
   that, its author is told, and the row is deleted.                         *)

BeginDirect(h, labels) ==
  /\ At(h, "idle")
  /\ Advance(h, [Idle EXCEPT !.step = "saving", !.input = labels])
  /\ UNCHANGED <<repo, contributions, nextId, mails>>

\* The page of the review was loaded while the contribution was staged; the
\* reviewer posts its labels, or others.
BeginReview(h, c, labels) ==
  /\ At(h, "idle")
  /\ contributions[c].status # "NONE"
  /\ Advance(h, [Idle EXCEPT !.step = "saving", !.id = c, !.input = labels])
  /\ UNCHANGED <<repo, contributions, nextId, mails>>

ReadMap(h) ==
  /\ At(h, "saving")
  /\ Advance(h, [tx[h] EXCEPT !.step = "mapRead", !.read = Latest])
  /\ UNCHANGED <<repo, contributions, nextId, mails>>

Checkout(h) ==
  /\ At(h, "mapRead")
  /\ Advance(h, [tx[h] EXCEPT !.step = "checkedOut", !.checkout = Latest])
  /\ UNCHANGED <<repo, contributions, nextId, mails>>

\* Every label posted is the update of its key; its old value is not used.
InputDiff(labels) ==
  [k \in Key |->
     IF labels[k] = NoLabels
     THEN NoEntry
     ELSE [NoEntry EXCEPT !.type = "UPDATED", !.new = labels[k],
                          !.rows = {l \in Locale : labels[k][l] # NoValue}]]

\* Mutant: the labels posted are written without those of the source.
SavedMapOfInput(h) == AsMap(InputDiff(tx[h].input))

SavedMap(h) == ApplyDiff(MapAt(tx[h].read), InputDiff(tx[h].input))

\* Mutant: a commit Subversion rejects is taken for one that changes nothing.
CommitSourceSwallowed(h) ==
  /\ At(h, "checkedOut")
  /\ \/ /\ CommitRevision(SavedMap(h), tx[h].checkout, Target(h))
        /\ Advance(h, [tx[h] EXCEPT !.step = "written", !.committed = Latest + 1])
     \/ /\ OutOfDate(SentFiles(SavedMap(h), tx[h].checkout), tx[h].checkout)
        /\ Advance(h, [tx[h] EXCEPT !.step = "written",
                                    !.committed = NoRevision])
        /\ UNCHANGED repo
  /\ UNCHANGED <<contributions, nextId, mails>>

CommitSource(h) ==
  /\ At(h, "checkedOut")
  /\ \/ /\ CommitRevision(SavedMap(h), tx[h].checkout, Target(h))
        /\ Advance(h, [tx[h] EXCEPT !.step = "written", !.committed = Latest + 1])
     \/ /\ CommitNothing(SavedMap(h), tx[h].checkout)
        /\ Advance(h, [tx[h] EXCEPT !.step = "written",
                                    !.committed = NoRevision])
  /\ UNCHANGED <<contributions, nextId, mails>>

\* There is no contribution to delete.
EndDirect(h) ==
  /\ At(h, "written")
  /\ Target(h) = Direct
  /\ End(h)
  /\ UNCHANGED <<repo, contributions, nextId, mails>>

\* Mutant: the contribution is deleted before its author is told.
LoadReviewedAndDelete(h) ==
  /\ At(h, "written")
  /\ Target(h) # Direct
  /\ Staged(Target(h))
  /\ contributions' = [contributions EXCEPT ![Target(h)].status = "GONE"]
  /\ Advance(h, [tx[h] EXCEPT !.step = "loaded"])
  /\ UNCHANGED <<repo, nextId, mails>>

\* getById fails when the contribution was handled meanwhile.
LoadReviewed(h) ==
  /\ At(h, "written")
  /\ Target(h) # Direct
  /\ Staged(Target(h))
  /\ Advance(h, [tx[h] EXCEPT !.step = "loaded"])
  /\ UNCHANGED <<repo, contributions, nextId, mails>>

\* Mutant: the author is told of the head instead of the revision of the write.
NotifyAcceptedHead(h) ==
  /\ At(h, "loaded")
  /\ Send("ACCEPTED", Target(h), Latest)
  /\ Advance(h, [tx[h] EXCEPT !.step = "accepted"])
  /\ UNCHANGED <<repo, contributions, nextId>>

NotifyAccepted(h) ==
  /\ At(h, "loaded")
  /\ Send("ACCEPTED", Target(h), tx[h].committed)
  /\ Advance(h, [tx[h] EXCEPT !.step = "accepted"])
  /\ UNCHANGED <<repo, contributions, nextId>>

\* Mutant: the contribution is closed, as a request is, instead of deleted.
RemoveAsClosed(h) ==
  /\ contributions' = [contributions EXCEPT ![Target(h)].status = "CLOSED"]
  /\ End(h)
  /\ UNCHANGED <<repo, nextId, mails>>

Remove(h) ==
  /\ contributions' = [contributions EXCEPT ![Target(h)].status = "GONE"]
  /\ End(h)
  /\ UNCHANGED <<repo, nextId, mails>>

CommitSave(h) == At(h, "accepted") /\ Remove(h)

-----------------------------------------------------------------------------
(* deleteContribution: the author is told, then the row is deleted, whether or
   not it is still there.                                                    *)

BeginReject(h, c) ==
  /\ At(h, "idle")
  /\ Staged(c)
  /\ Advance(h, [Idle EXCEPT !.step = "rejecting", !.id = c])
  /\ UNCHANGED <<repo, contributions, nextId, mails>>

NotifyRejected(h) ==
  /\ At(h, "rejecting")
  /\ Send("REJECTED", Target(h), NoVersion)
  /\ Advance(h, [tx[h] EXCEPT !.step = "rejected"])
  /\ UNCHANGED <<repo, contributions, nextId>>

CommitReject(h) == At(h, "rejected") /\ Remove(h)

-----------------------------------------------------------------------------
\* The transaction is rolled back, or the server stops.
Abort(h) ==
  /\ ~At(h, "idle")
  /\ End(h)
  /\ UNCHANGED <<repo, contributions, nextId, mails>>

Developer == /\ \E m \in SourceMaps : DeveloperCommit(m)
             /\ UNCHANGED <<contributions, nextId, mails, tx>>

Begin(h) ==
  \/ \E labels \in Proposals : BeginStage(h, labels) \/ BeginDirect(h, labels)
  \/ \E c \in ContributionId :
       \/ BeginReject(h, c)
       \/ \E labels \in Proposals \cup {contributions[c].labels} :
            BeginReview(h, c, labels)

Continue(h) ==
  \/ NotifyReviewers(h) \/ CommitStage(h)
  \/ ReadMap(h) \/ Checkout(h) \/ CommitSource(h)
  \/ EndDirect(h) \/ LoadReviewed(h) \/ NotifyAccepted(h) \/ CommitSave(h)
  \/ NotifyRejected(h) \/ CommitReject(h)

Next == Developer \/ \E h \in Handler : Begin(h) \/ Continue(h) \/ Abort(h)

Spec == Init /\ [][Next]_vars

-----------------------------------------------------------------------------
(* What must hold whatever the handlers and the developers interleave. *)

Told(kind, c) == \E m \in mails : m.kind = kind /\ m.id = c

\* The mails and the table tell the same story although mails are sent before
\* the commits and transactions are rolled back: the reviewers were told of each
\* contribution, none leaves the list before its author got a verdict, and no
\* verdict is about labels that were never staged (ContributionServiceImpl 157,
\* 236, 284).
MailsTellTheStatus ==
  \A c \in ContributionId :
    /\ contributions[c].status # "NONE" => Told("STAGED", c)
    /\ contributions[c].status = "GONE" => Told("ACCEPTED", c) \/ Told("REJECTED", c)
    /\ Told("ACCEPTED", c) \/ Told("REJECTED", c) => contributions[c].status # "NONE"

\* The version a contributor reads in the mail of acceptance is the revision that
\* wrote the labels of his own contribution (ContributionServiceImpl 198, 224):
\* it stays so when the acceptance is rolled back after the mail, when several
\* reviewers accept it and when others commit in between.
AcceptedVersionIsOwnRevision ==
  \A m \in mails : m.kind = "ACCEPTED" /\ m.version # NoRevision =>
    /\ m.version \in 1 .. Latest
    /\ repo[m.version].by = m.id

Written(h) == tx[h].step \in {"written", "loaded", "accepted"}

\* Once the source is written, each label posted was the label of the source at
\* some revision from the checkout to the commit, unless it is blank or of a
\* locale without a file (ContributionServiceImpl 185-202).
PostedLabelsReachSource ==
  \A h \in Handler : Written(h) =>
    \A k \in Key : \A l \in GroupLocales[BundleOf[k]] :
      tx[h].input[k][l] \in Text =>
        \E v \in tx[h].checkout .. Latest :
          /\ v <= tx[h].committed \/ v = tx[h].checkout
          /\ MapAt(v)[k][l] = tx[h].input[k][l]

\* A post that no commit overtook between its two checkouts changes the labels
\* posted and no other one of the source, not even in the same key.
PostTouchesOnlyItsLabels ==
  \A h \in Handler :
    Written(h) /\ tx[h].committed # NoRevision /\ tx[h].read = tx[h].checkout =>
      \A k \in Key, l \in Locale :
        tx[h].input[k][l] = NoValue =>
          MapAt(tx[h].committed)[k][l] = MapAt(tx[h].committed - 1)[k][l]

Staging(h) == tx[h].step \in {"staging", "staged"}

FreshIds ==
  \A c \in ContributionId : c >= nextId =>
    /\ contributions[c].status = "NONE"
    /\ \A m \in mails : m.id # c

TargetsAllocated == \A h \in Handler : Target(h) < nextId

StagingAlone ==
  \A h \in Handler : Staging(h) =>
    /\ Target(h) # Direct
    /\ contributions[Target(h)].status = "NONE"
    /\ \A g \in Handler : Staging(g) /\ Target(g) = Target(h) => g = h

TargetsStaged ==
  \A h \in Handler :
    /\ Target(h) # Direct /\ ~Staging(h) => contributions[Target(h)].status # "NONE"
    /\ tx[h].step \in {"loaded", "accepted", "rejecting", "rejected"} =>
         Target(h) # Direct

MailsSent ==
  \A h \in Handler :
    /\ At(h, "staged") => Told("STAGED", Target(h))
    /\ At(h, "accepted") => Told("ACCEPTED", Target(h))
    /\ At(h, "rejected") => Told("REJECTED", Target(h))

RevisionsExist ==
  \A h \in Handler :
    /\ tx[h].step \in {"mapRead", "checkedOut"} \/ Written(h) =>
         tx[h].read \in 1 .. Latest
    /\ At(h, "checkedOut") \/ Written(h) => tx[h].checkout \in 1 .. Latest
    /\ Written(h) /\ tx[h].committed # NoRevision =>
         /\ tx[h].committed \in tx[h].checkout + 1 .. Latest
         /\ repo[tx[h].committed].by = Target(h)

\* What a handler knows stays true while the others commit: nobody else stages
\* under its id, the contribution it handles was staged, the mails it goes on
\* from were sent and the revisions it works with are in the source.
HandlersKnow == /\ FreshIds
                /\ TargetsAllocated
                /\ StagingAlone
                /\ TargetsStaged
                /\ MailsSent
                /\ RevisionsExist
==============================================================================
