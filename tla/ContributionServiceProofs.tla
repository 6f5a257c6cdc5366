------------------------ MODULE ContributionServiceProofs ------------------------
(***************************************************************************)
(* Proofs about ContributionService, for any number of handlers,           *)
(* contributions, revisions, keys and labels.                              *)
(***************************************************************************)
EXTENDS ContributionService, TranslationSourceTheorems

USE MapsAssumption, SourceAssumption, ContributionAssumption

-----------------------------------------------------------------------------
(* What a step of a handler does, once for all invariants. *)

\* An idle handler has the type of a handler.
LEMMA IdleType == Idle \in Tx
  BY EmptyTypes DEF Idle, Tx, Step

\* A handler that begins an operation changes nothing but its own state, and takes
\* an id only to stage.
LEMMA BeginFacts ==
  ASSUME TypeOK, NEW h \in Handler, Begin(h)
  PROVE  /\ UNCHANGED <<repo, contributions, mails>>
         /\ At(h, "idle")
         /\ tx'[h] \in Tx
         /\ tx' = [tx EXCEPT ![h] = tx'[h]]
         /\ \/ /\ tx'[h].step = "staging" /\ tx'[h].id = nextId
               /\ nextId \in ContributionId /\ nextId' = nextId + 1
            \/ /\ tx'[h].step = "saving" /\ tx'[h].id = Direct
               /\ nextId' = nextId
            \/ /\ tx'[h].step \in {"saving", "rejecting"}
               /\ tx'[h].id \in ContributionId
               /\ contributions[tx'[h].id].status # "NONE"
               /\ nextId' = nextId
<1>1. tx \in [Handler -> Tx] /\ contributions \in [ContributionId -> Row]
  BY DEF TypeOK
<1>2. ASSUME NEW local \in Tx, Advance(h, local)
      PROVE  tx'[h] = local /\ tx' = [tx EXCEPT ![h] = tx'[h]]
  BY <1>1, <1>2 DEF Advance
<1>3. ASSUME NEW labels \in Proposals, BeginStage(h, labels)
      PROVE  /\ tx'[h] \in Tx /\ tx' = [tx EXCEPT ![h] = tx'[h]]
             /\ tx'[h].step = "staging" /\ tx'[h].id = nextId
  <2> DEFINE local == [Idle EXCEPT !.step = "staging", !.id = nextId, !.input = labels]
  <2>1. local \in Tx /\ local.step = "staging" /\ local.id = nextId
    BY <1>3, IdleType DEF BeginStage, Tx, Step
  <2> QED BY <1>2, <1>3, <2>1 DEF BeginStage
<1>4. ASSUME NEW labels \in Proposals, BeginDirect(h, labels)
      PROVE  /\ tx'[h] \in Tx /\ tx' = [tx EXCEPT ![h] = tx'[h]]
             /\ tx'[h].step = "saving" /\ tx'[h].id = Direct
  <2> DEFINE local == [Idle EXCEPT !.step = "saving", !.input = labels]
  <2>1. local \in Tx /\ local.step = "saving" /\ local.id = Direct
    <3>1. Idle.id = Direct
      BY DEF Idle
    <3> QED BY <3>1, IdleType DEF Tx, Step
  <2> QED BY <1>2, <1>4, <2>1 DEF BeginDirect
<1>5. ASSUME NEW c \in ContributionId, BeginReject(h, c)
      PROVE  /\ tx'[h] \in Tx /\ tx' = [tx EXCEPT ![h] = tx'[h]]
             /\ tx'[h].step = "rejecting" /\ tx'[h].id = c
  <2> DEFINE local == [Idle EXCEPT !.step = "rejecting", !.id = c]
  <2>1. local \in Tx /\ local.step = "rejecting" /\ local.id = c
    BY IdleType DEF Tx, Step
  <2> QED BY <1>2, <1>5, <2>1 DEF BeginReject
<1>6. ASSUME NEW c \in ContributionId,
             NEW labels \in Proposals \cup {contributions[c].labels},
             BeginReview(h, c, labels)
      PROVE  /\ tx'[h] \in Tx /\ tx' = [tx EXCEPT ![h] = tx'[h]]
             /\ tx'[h].step = "saving" /\ tx'[h].id = c
  <2> DEFINE local == [Idle EXCEPT !.step = "saving", !.id = c, !.input = labels]
  <2>1. labels \in Map
    BY <1>1 DEF Row
  <2>2. local \in Tx /\ local.step = "saving" /\ local.id = c
    BY <2>1, IdleType DEF Tx, Step
  <2> QED BY <1>2, <1>6, <2>2 DEF BeginReview
<1> QED BY <1>3, <1>4, <1>5, <1>6
        DEF Begin, BeginStage, BeginDirect, BeginReject, BeginReview, Staged

\* How a handler that goes on moves from step to step.
Moves == {<<"staging", "staged">>,
          <<"saving", "mapRead">>, <<"mapRead", "checkedOut">>,
          <<"checkedOut", "written">>, <<"written", "loaded">>,
          <<"loaded", "accepted">>, <<"rejecting", "rejected">>}

\* A handler that goes on takes no id and ends, or moves on with the same task.
LEMMA ContinueFacts ==
  ASSUME TypeOK, HandlersKnow, NEW h \in Handler, Continue(h)
  PROVE  /\ nextId' = nextId
         /\ ~At(h, "idle")
         /\ tx' = [tx EXCEPT ![h] = tx'[h]]
         /\ \/ tx'[h] = Idle
            \/ /\ tx'[h] \in Tx
               /\ tx'[h].id = tx[h].id
               /\ tx'[h].input = tx[h].input
               /\ <<tx[h].step, tx'[h].step>> \in Moves
<1>1. /\ tx \in [Handler -> Tx]
      /\ tx[h] \in Tx
      /\ Latest \in Nat
  BY LatestType DEF TypeOK
<1>2. ASSUME NEW local \in Tx, Advance(h, local)
      PROVE  tx'[h] = local /\ tx' = [tx EXCEPT ![h] = tx'[h]]
  BY <1>1, <1>2 DEF Advance
<1>3. ASSUME NEW s \in Step, Advance(h, [tx[h] EXCEPT !.step = s])
      PROVE  /\ tx' = [tx EXCEPT ![h] = tx'[h]]
             /\ tx'[h] \in Tx /\ tx'[h].id = tx[h].id
             /\ tx'[h].input = tx[h].input /\ tx'[h].step = s
  <2> DEFINE local == [tx[h] EXCEPT !.step = s]
  <2>1. local \in Tx /\ local.id = tx[h].id /\ local.input = tx[h].input
        /\ local.step = s
    BY <1>1 DEF Tx
  <2> QED BY <1>2, <1>3, <2>1
<1>4. CASE NotifyReviewers(h) \/ LoadReviewed(h) \/ NotifyAccepted(h) \/ NotifyRejected(h)
  BY <1>3, <1>4 DEF NotifyReviewers, LoadReviewed, NotifyAccepted, NotifyRejected,
                    At, Step, Moves
<1>5. CASE CommitStage(h) \/ EndDirect(h) \/ CommitSave(h) \/ CommitReject(h)
  BY <1>2, <1>5, IdleType
     DEF CommitStage, EndDirect, CommitSave, CommitReject, Remove, End, At
<1>6. CASE ReadMap(h)
  <2> DEFINE local == [tx[h] EXCEPT !.step = "mapRead", !.read = Latest]
  <2>1. local \in Tx /\ local.id = tx[h].id /\ local.input = tx[h].input
        /\ local.step = "mapRead"
    BY <1>1 DEF Tx, Step
  <2> QED BY <1>2, <1>6, <2>1 DEF ReadMap, At, Moves
<1>7. CASE Checkout(h)
  <2> DEFINE local == [tx[h] EXCEPT !.step = "checkedOut", !.checkout = Latest]
  <2>1. local \in Tx /\ local.id = tx[h].id /\ local.input = tx[h].input
        /\ local.step = "checkedOut"
    BY <1>1 DEF Tx, Step
  <2> QED BY <1>2, <1>7, <2>1 DEF Checkout, At, Moves
<1>8. CASE CommitSource(h)
  <2>1. ASSUME NEW v \in {NoRevision, Latest + 1},
               Advance(h, [tx[h] EXCEPT !.step = "written", !.committed = v])
        PROVE  /\ tx' = [tx EXCEPT ![h] = tx'[h]]
               /\ tx'[h] \in Tx /\ tx'[h].id = tx[h].id
               /\ tx'[h].input = tx[h].input /\ tx'[h].step = "written"
    <3> DEFINE local == [tx[h] EXCEPT !.step = "written", !.committed = v]
    <3>1. v \in {NoVersion, NoRevision} \cup Nat
      BY <1>1
    <3>2. local \in Tx /\ local.id = tx[h].id /\ local.input = tx[h].input
          /\ local.step = "written"
      BY <1>1, <3>1 DEF Tx, Step
    <3> QED BY <1>2, <2>1, <3>2
  <2> QED BY <1>8, <2>1 DEF CommitSource, At, Moves
<1>9. nextId' = nextId /\ ~At(h, "idle")
  BY DEF Continue, NotifyReviewers, CommitStage, ReadMap, Checkout, CommitSource,
         EndDirect, LoadReviewed, NotifyAccepted, CommitSave, NotifyRejected,
         CommitReject, Remove, At
<1> QED BY <1>4, <1>5, <1>6, <1>7, <1>8, <1>9 DEF Continue

\* Only the commit of a stage, of a save or of a rejection changes a row, that of
\* its own contribution.
LEMMA RowFacts ==
  ASSUME NEW h \in Handler, Continue(h)
  PROVE  \/ UNCHANGED contributions
         \/ /\ At(h, "staged")
            /\ contributions' = [contributions EXCEPT
                   ![Target(h)] = [status |-> "STAGED", labels |-> tx[h].input]]
            /\ UNCHANGED mails
         \/ /\ At(h, "accepted") \/ At(h, "rejected")
            /\ contributions' = [contributions EXCEPT ![Target(h)].status = "GONE"]
            /\ UNCHANGED mails
  BY DEF Continue, NotifyReviewers, CommitStage, ReadMap, Checkout, CommitSource,
         EndDirect, LoadReviewed, NotifyAccepted, CommitSave, NotifyRejected,
         CommitReject, Remove

\* Only the three notifications send a mail, about their own contribution.
LEMMA MailFacts ==
  ASSUME NEW h \in Handler, Continue(h)
  PROVE  \/ UNCHANGED mails
         \/ /\ UNCHANGED contributions
            /\ \/ At(h, "staging") /\ Send("STAGED", Target(h), NoVersion)
               \/ At(h, "loaded") /\ Send("ACCEPTED", Target(h), tx[h].committed)
               \/ At(h, "rejecting") /\ Send("REJECTED", Target(h), NoVersion)
  BY DEF Continue, NotifyReviewers, CommitStage, ReadMap, Checkout, CommitSource,
         EndDirect, LoadReviewed, NotifyAccepted, CommitSave, NotifyRejected,
         CommitReject, Remove

\* Only the commit of a save changes the source.
LEMMA RepoFacts ==
  ASSUME NEW h \in Handler, Continue(h)
  PROVE  UNCHANGED repo \/ CommitSource(h)
  BY DEF Continue, NotifyReviewers, CommitStage, ReadMap, Checkout,
         EndDirect, LoadReviewed, NotifyAccepted, CommitSave, NotifyRejected,
         CommitReject, Remove

\* A rollback changes nothing but the state of its handler.
LEMMA AbortFacts ==
  ASSUME TypeOK, NEW h \in Handler, Abort(h)
  PROVE  /\ UNCHANGED <<repo, contributions, nextId, mails>>
         /\ tx'[h] = Idle /\ tx' = [tx EXCEPT ![h] = tx'[h]]
  BY DEF TypeOK, Abort, End, Advance

-----------------------------------------------------------------------------
(* Types. *)

\* A handler that mails about a contribution, or changes its row, has one.
LEMMA TargetType ==
  ASSUME TypeOK, HandlersKnow, NEW h \in Handler,
         tx[h].step \in {"staging", "staged", "loaded", "accepted",
                         "rejecting", "rejected"}
  PROVE  Target(h) \in ContributionId
<1>1. Target(h) \in {Direct} \cup ContributionId
  BY DEF TypeOK, Tx, Target
<1> QED BY <1>1 DEF HandlersKnow, StagingAlone, Staging, TargetsStaged

\* What the commit of a save starts from, and what it leaves in its local state.
LEMMA CommitSourceFacts ==
  ASSUME TypeOK, HandlersKnow, NEW h \in Handler, CommitSource(h)
  PROVE  /\ At(h, "checkedOut")
         /\ tx[h].read \in 1 .. Latest
         /\ tx[h].checkout \in 1 .. Latest
         /\ InputDiff(tx[h].input) \in Diffs
         /\ SavedMap(h) \in Map
         /\ Target(h) \in Author
         /\ tx'[h].step = "written"
         /\ tx'[h].id = tx[h].id
         /\ tx'[h].input = tx[h].input
         /\ tx'[h].read = tx[h].read
         /\ tx'[h].checkout = tx[h].checkout
         /\ \/ /\ CommitRevision(SavedMap(h), tx[h].checkout, Target(h))
               /\ tx'[h].committed = Latest + 1
            \/ /\ CommitNothing(SavedMap(h), tx[h].checkout)
               /\ tx'[h].committed = NoRevision
<1>1. tx \in [Handler -> Tx] /\ tx[h] \in Tx /\ SourceTypeOK
  BY DEF TypeOK
<1>2. /\ At(h, "checkedOut")
      /\ tx[h].read \in 1 .. Latest
      /\ tx[h].checkout \in 1 .. Latest
  BY DEF CommitSource, At, HandlersKnow, RevisionsExist
<1>3. InputDiff(tx[h].input) \in Diffs
  <2> SUFFICES ASSUME NEW k \in Key
               PROVE  InputDiff(tx[h].input)[k] \in Entry
    BY DEF InputDiff, Diffs
  <2>1. tx[h].input[k] \in Labels /\ NoEntry \in Entry
    BY <1>1, EmptyTypes DEF Tx, Map
  <2>2. [NoEntry EXCEPT !.type = "UPDATED", !.new = tx[h].input[k],
                        !.rows = {l \in Locale : tx[h].input[k][l] # NoValue}] \in Entry
    BY <2>1 DEF Entry, ChangeType
  <2> QED BY <2>1, <2>2 DEF InputDiff
<1>4. SavedMap(h) \in Map
  BY <1>1, <1>2, <1>3, MapAtType, ApplyDiffType DEF SavedMap
<1>5. Target(h) \in Author
  BY <1>1 DEF Tx, Target
<1>6. ASSUME NEW v, Advance(h, [tx[h] EXCEPT !.step = "written", !.committed = v])
      PROVE  /\ tx'[h].step = "written"
             /\ tx'[h].id = tx[h].id
             /\ tx'[h].input = tx[h].input
             /\ tx'[h].read = tx[h].read
             /\ tx'[h].checkout = tx[h].checkout
             /\ tx'[h].committed = v
  BY <1>1, <1>6 DEF Advance, Tx
<1> QED BY <1>2, <1>3, <1>4, <1>5, <1>6 DEF CommitSource

\* The initial states have the right types.
LEMMA InitType == Init => TypeOK
<1> SUFFICES ASSUME Init PROVE TypeOK
  OBVIOUS
<1>1. SourceTypeOK
  <2>1. PICK m \in SourceMaps : repo = <<[map |-> m, by |-> Developers]>>
    BY DEF Init, SourceInit
  <2>2. [map |-> m, by |-> Developers] \in Revision
    BY DEF Revision, SourceMap
  <2> QED BY <2>1, <2>2 DEF SourceTypeOK
<1>2. contributions \in [ContributionId -> Row]
  BY EmptyTypes DEF Init, NoRow, Row
<1>3. nextId \in 1 .. MaxContribution + 1
  BY DEF Init
<1>4. tx \in [Handler -> Tx]
  BY IdleType DEF Init
<1> QED BY <1>1, <1>2, <1>3, <1>4 DEF TypeOK, Init

\* Every step keeps the types, and the history of the source.
LEMMA StepType ==
  ASSUME TypeOK, HandlersKnow, [Next]_vars
  PROVE  TypeOK' /\ HistoryKept
<1>1. /\ SourceTypeOK
      /\ contributions \in [ContributionId -> Row]
      /\ nextId \in 1 .. MaxContribution + 1
      /\ mails \subseteq Mail
      /\ tx \in [Handler -> Tx]
  BY DEF TypeOK
<1>2. CASE UNCHANGED vars
  BY <1>1, <1>2, KeepRevisions DEF vars, TypeOK
<1>3. CASE Developer
  BY <1>1, <1>3, DeveloperCommitType DEF Developer, TypeOK
<1>4. ASSUME NEW h \in Handler, Begin(h)
      PROVE  TypeOK' /\ HistoryKept
  <2>1. SourceTypeOK' /\ HistoryKept
    BY <1>1, <1>4, BeginFacts, KeepRevisions
  <2>2. nextId' \in 1 .. MaxContribution + 1
    BY <1>1, <1>4, BeginFacts DEF ContributionId
  <2>3. tx' \in [Handler -> Tx]
    BY <1>1, <1>4, BeginFacts
  <2> QED BY <1>1, <1>4, <2>1, <2>2, <2>3, BeginFacts DEF TypeOK
<1>5. ASSUME NEW h \in Handler, Continue(h)
      PROVE  TypeOK' /\ HistoryKept
  <2>1. SourceTypeOK' /\ HistoryKept
    <3>1. CASE UNCHANGED repo
      BY <1>1, <3>1, KeepRevisions
    <3>2. CASE CommitSource(h)
      BY <1>1, <3>1, <3>2, CommitSourceFacts, CommitRevisionType DEF CommitNothing
    <3> QED BY <1>5, <3>1, <3>2, RepoFacts
  <2>2. tx' \in [Handler -> Tx]
    BY <1>1, <1>5, ContinueFacts, IdleType
  <2>3. contributions' \in [ContributionId -> Row]
    <3>1. tx[h].input \in Map
      BY <1>1 DEF Tx
    <3>2. [status |-> "STAGED", labels |-> tx[h].input] \in Row
      BY <3>1 DEF Row
    <3>3. ASSUME contributions' = [contributions EXCEPT ![Target(h)].status = "GONE"]
          PROVE  contributions' \in [ContributionId -> Row]
      BY <1>1, <3>3 DEF Row
    <3> QED BY <1>1, <1>5, <3>2, <3>3, RowFacts
  <2>4. mails' \subseteq Mail
    <3>1. ASSUME NEW kind \in {"STAGED", "ACCEPTED", "REJECTED"},
                 NEW v \in {NoVersion, NoRevision} \cup Nat,
                 Target(h) \in ContributionId, Send(kind, Target(h), v)
          PROVE  mails' \subseteq Mail
      BY <1>1, <3>1 DEF Send, Mail
    <3>2. tx[h].committed \in {NoVersion, NoRevision} \cup Nat
      BY <1>1 DEF Tx
    <3>3. At(h, "staging") \/ At(h, "loaded") \/ At(h, "rejecting")
            => Target(h) \in ContributionId
      BY TargetType DEF At
    <3> QED BY <1>1, <1>5, <3>1, <3>2, <3>3, MailFacts
  <2>5. nextId' = nextId
    BY <1>5, ContinueFacts
  <2> QED BY <1>1, <2>1, <2>2, <2>3, <2>4, <2>5 DEF TypeOK
<1>6. ASSUME NEW h \in Handler, Abort(h)
      PROVE  TypeOK' /\ HistoryKept
  BY <1>1, <1>6, AbortFacts, IdleType, KeepRevisions DEF TypeOK
<1> QED BY <1>2, <1>3, <1>4, <1>5, <1>6 DEF Next

-----------------------------------------------------------------------------
(* What any step does to one handler, one row, one mail. *)

\* The state of a handler changes in its own steps only.
LEMMA HandlerSteps ==
  ASSUME TypeOK, HandlersKnow, [Next]_vars, NEW g \in Handler
  PROVE  tx'[g] = tx[g] \/ tx'[g] = Idle \/ Begin(g) \/ Continue(g)
<1>1. tx \in [Handler -> Tx]
  BY DEF TypeOK
<1>2. ASSUME NEW h \in Handler, Begin(h) \/ Continue(h) \/ Abort(h), h # g
      PROVE  tx'[g] = tx[g]
  <2>1. tx' = [tx EXCEPT ![h] = tx'[h]]
    BY <1>2, BeginFacts, ContinueFacts, AbortFacts
  <2> QED BY <1>1, <1>2, <2>1
<1> QED BY <1>2, AbortFacts DEF Next, Developer, vars

\* A row changes when a handler that works on it commits.
LEMMA RowSteps ==
  ASSUME TypeOK, HandlersKnow, [Next]_vars, NEW c \in ContributionId
  PROVE  \/ contributions'[c] = contributions[c]
         \/ \E h \in Handler :
              /\ Continue(h) /\ Target(h) = c /\ UNCHANGED mails
              /\ \/ At(h, "staged") /\ contributions'[c].status = "STAGED"
                 \/ /\ At(h, "accepted") \/ At(h, "rejected")
                    /\ contributions'[c].status = "GONE"
<1>1. contributions \in [ContributionId -> Row]
  BY DEF TypeOK
<1>2. ASSUME NEW h \in Handler, Continue(h), contributions'[c] # contributions[c]
      PROVE  /\ Target(h) = c /\ UNCHANGED mails
             /\ \/ At(h, "staged") /\ contributions'[c].status = "STAGED"
                \/ /\ At(h, "accepted") \/ At(h, "rejected")
                   /\ contributions'[c].status = "GONE"
  <2>1. CASE /\ At(h, "staged")
             /\ contributions' = [contributions EXCEPT
                   ![Target(h)] = [status |-> "STAGED", labels |-> tx[h].input]]
             /\ UNCHANGED mails
    BY <1>1, <1>2, <2>1
  <2>2. CASE /\ At(h, "accepted") \/ At(h, "rejected")
             /\ contributions' = [contributions EXCEPT ![Target(h)].status = "GONE"]
             /\ UNCHANGED mails
    <3>1. contributions[c] \in Row
      BY <1>1
    <3> QED BY <1>1, <1>2, <2>2, <3>1 DEF Row
  <2> QED BY <1>2, <2>1, <2>2, RowFacts
<1>3. ASSUME NEW h \in Handler, Begin(h) \/ Abort(h)
      PROVE  contributions' = contributions
  BY <1>3, BeginFacts, AbortFacts
<1> QED BY <1>2, <1>3 DEF Next, Developer, vars

\* A mail is sent by a handler that works on its contribution.
LEMMA MailSteps ==
  ASSUME TypeOK, HandlersKnow, [Next]_vars, NEW m \in mails'
  PROVE  \/ m \in mails
         \/ \E h \in Handler :
              /\ Continue(h) /\ Target(h) = m.id /\ UNCHANGED contributions
              /\ \/ At(h, "staging") /\ m.kind = "STAGED"
                 \/ /\ At(h, "loaded") /\ m.kind = "ACCEPTED"
                    /\ m.version = tx[h].committed
                 \/ At(h, "rejecting") /\ m.kind = "REJECTED"
<1>1. ASSUME NEW h \in Handler, Continue(h), m \notin mails
      PROVE  /\ Target(h) = m.id /\ UNCHANGED contributions
             /\ \/ At(h, "staging") /\ m.kind = "STAGED"
                \/ /\ At(h, "loaded") /\ m.kind = "ACCEPTED"
                   /\ m.version = tx[h].committed
                \/ At(h, "rejecting") /\ m.kind = "REJECTED"
  BY <1>1, MailFacts DEF Send
<1>2. ASSUME NEW h \in Handler, Begin(h) \/ Abort(h)
      PROVE  mails' = mails
  BY <1>2, BeginFacts, AbortFacts
<1> QED BY <1>1, <1>2 DEF Next, Developer, vars

\* Mails are never taken back, nor ids; a contribution that was staged stays so or
\* is deleted.
LEMMA Grows ==
  ASSUME TypeOK, HandlersKnow, [Next]_vars
  PROVE  /\ mails \subseteq mails'
         /\ nextId \in Nat /\ nextId' \in {nextId, nextId + 1}
         /\ \A c \in ContributionId :
              contributions[c].status # "NONE" => contributions'[c].status # "NONE"
<1>1. mails \subseteq mails'
  <2>1. ASSUME NEW h \in Handler, Continue(h) PROVE mails \subseteq mails'
    BY <2>1, MailFacts DEF Send
  <2> QED BY <2>1, BeginFacts, AbortFacts DEF Next, Developer, vars
<1>2. nextId \in Nat /\ nextId' \in {nextId, nextId + 1}
  <2>1. nextId \in Nat
    BY DEF TypeOK
  <2> QED BY <2>1, BeginFacts, ContinueFacts, AbortFacts DEF Next, Developer, vars
<1>3. ASSUME NEW c \in ContributionId, contributions[c].status # "NONE"
      PROVE  contributions'[c].status # "NONE"
  BY <1>3, RowSteps
<1> QED BY <1>1, <1>2, <1>3

-----------------------------------------------------------------------------
(* The conjuncts of HandlersKnow. *)

\* In the initial states no handler knows anything and no mail was sent.
LEMMA InitKnow == Init => HandlersKnow /\ MailsTellTheStatus
  BY DEF Init, HandlersKnow, FreshIds, TargetsAllocated, StagingAlone, Staging,
         TargetsStaged, MailsSent, RevisionsExist, Written, MailsTellTheStatus, Told,
         At, Target, Idle, NoRow, Direct, ContributionId

\* Ids that were not handed out yet have no row and no mail.
LEMMA FreshIdsStep ==
  ASSUME TypeOK, HandlersKnow, [Next]_vars
  PROVE  FreshIds'
<1> SUFFICES ASSUME NEW c \in ContributionId, c >= nextId'
             PROVE  /\ contributions'[c].status = "NONE"
                    /\ \A m \in mails' : m.id # c
  BY DEF FreshIds
<1>1. c \in Nat /\ c >= nextId
  BY Grows DEF ContributionId
<1>2. contributions[c].status = "NONE" /\ \A m \in mails : m.id # c
  BY <1>1 DEF HandlersKnow, FreshIds
<1>3. \A h \in Handler : Target(h) # c
  BY <1>1, Grows DEF HandlersKnow, TargetsAllocated
<1> QED BY <1>2, <1>3, RowSteps, MailSteps

\* The contribution a handler works on has got its id before.
LEMMA TargetsAllocatedStep ==
  ASSUME TypeOK, HandlersKnow, [Next]_vars
  PROVE  TargetsAllocated'
<1> SUFFICES ASSUME NEW g \in Handler PROVE tx'[g].id < nextId'
  BY DEF TargetsAllocated, Target
<1>1. /\ tx[g].id < nextId
      /\ tx[g].id \in Nat
      /\ nextId \in 1 .. MaxContribution + 1
  BY DEF HandlersKnow, TargetsAllocated, Target, TypeOK, Tx, ContributionId, Direct
<1>2. CASE tx'[g] = tx[g] \/ Continue(g) \/ tx'[g] = Idle
  <2>1. Idle.id = 0
    BY DEF Idle, Direct
  <2>2. tx'[g].id \in {tx[g].id, 0}
    BY <1>2, <2>1, ContinueFacts
  <2>3. nextId' \in {nextId, nextId + 1}
    BY Grows
  <2> QED BY <1>1, <2>2, <2>3
<1>3. CASE Begin(g)
  <2>1. ASSUME NEW c \in ContributionId, contributions[c].status # "NONE"
        PROVE  c < nextId
    BY <1>1, <2>1 DEF HandlersKnow, FreshIds, ContributionId
  <2> QED BY <1>1, <1>3, <2>1, BeginFacts DEF Direct
<1> QED BY <1>2, <1>3, HandlerSteps

\* No two handlers stage under one id, and nothing is staged under it before.
LEMMA StagingAloneStep ==
  ASSUME TypeOK, HandlersKnow, [Next]_vars
  PROVE  StagingAlone'
<1> DEFINE Stages(h) == tx'[h].step \in {"staging", "staged"}
<1>1. ASSUME NEW g \in Handler, Stages(g)
      PROVE  \/ Staging(g) /\ tx'[g].id = Target(g)
             \/ /\ tx'[g].id = nextId /\ nextId \in ContributionId
                /\ Begin(g) /\ UNCHANGED contributions
  <2>1. CASE tx'[g] = tx[g] \/ tx'[g] = Idle
    BY <1>1, <2>1 DEF Idle, Staging, Target
  <2>2. CASE Begin(g)
    BY <1>1, <2>2, BeginFacts
  <2>3. CASE Continue(g)
    BY <1>1, <2>3, ContinueFacts DEF Idle, Moves, Staging, Target
  <2> QED BY <2>1, <2>2, <2>3, HandlerSteps
<1>2. ASSUME NEW g \in Handler, NEW h \in Handler, g # h, Begin(g) PROVE tx'[h] = tx[h]
  BY <1>2, BeginFacts DEF TypeOK
<1>3. ASSUME NEW g \in Handler, Staging(g)
      PROVE  /\ Target(g) \in ContributionId /\ Target(g) # Direct
             /\ contributions[Target(g)].status = "NONE"
             /\ Target(g) # nextId
             /\ \A h \in Handler : Staging(h) /\ Target(h) = Target(g) => h = g
  <2>1. Target(g) \in ContributionId
    BY <1>3, TargetType DEF Staging
  <2>2. Target(g) < nextId
    BY DEF HandlersKnow, TargetsAllocated
  <2>3. nextId \in Nat /\ Target(g) \in Nat
    BY <2>1, Grows DEF ContributionId
  <2> QED BY <1>3, <2>1, <2>2, <2>3 DEF HandlersKnow, StagingAlone
<1>4. ASSUME NEW g \in Handler, Staging(g), Stages(g), tx'[g].id = Target(g)
      PROVE  contributions'[Target(g)].status = "NONE"
  <2>1. ASSUME NEW h \in Handler, Continue(h), Target(h) = Target(g),
               At(h, "staged") \/ At(h, "accepted") \/ At(h, "rejected"),
               UNCHANGED mails,
               contributions'[Target(g)].status # contributions[Target(g)].status
        PROVE  FALSE
    <3>1. CASE At(h, "staged")
      <4>1. h = g
        BY <1>3, <1>4, <2>1, <3>1 DEF Staging, At
      <4>2. tx'[g] = Idle
        BY <2>1, <3>1, <4>1, ContinueFacts DEF Moves, At, Stages
      <4> QED BY <1>4, <4>2 DEF Idle, Stages
    <3>2. CASE At(h, "accepted") \/ At(h, "rejected")
      BY <1>3, <1>4, <2>1, <3>2 DEF HandlersKnow, TargetsStaged, Staging, At
    <3> QED BY <2>1, <3>1, <3>2
  <2>2. contributions[Target(g)].status = "NONE" /\ Target(g) \in ContributionId
    BY <1>3, <1>4
  <2> QED BY <2>1, <2>2, RowSteps
<1> HIDE DEF Stages
<1>5. ASSUME NEW g \in Handler, Stages(g)
      PROVE  /\ tx'[g].id # Direct
             /\ contributions'[tx'[g].id].status = "NONE"
  <2>1. CASE Staging(g) /\ tx'[g].id = Target(g)
    BY <1>3, <1>4, <1>5, <2>1
  <2>2. CASE tx'[g].id = nextId /\ nextId \in ContributionId /\ UNCHANGED contributions
    <3>1. nextId # Direct /\ contributions[nextId].status = "NONE"
      BY <2>2 DEF HandlersKnow, FreshIds, ContributionId, Direct
    <3> QED BY <2>2, <3>1
  <2> QED BY <1>1, <1>5, <2>1, <2>2
<1>6. ASSUME NEW g \in Handler, NEW h \in Handler, Stages(g), Stages(h),
             tx'[g].id = tx'[h].id, g # h
      PROVE  FALSE
  <2>1. CASE Begin(g)
    <3>1. tx'[h] = tx[h] /\ Staging(h)
      BY <1>2, <1>6, <2>1 DEF Stages, Staging
    <3>2. tx'[g].id = nextId
      <4>1. ~Staging(g)
        BY <2>1, BeginFacts DEF At, Staging
      <4> QED BY <1>1, <1>6, <4>1
    <3> QED BY <1>3, <1>6, <3>1, <3>2 DEF Target
  <2>2. CASE Begin(h)
    <3>1. tx'[g] = tx[g] /\ Staging(g)
      BY <1>2, <1>6, <2>2 DEF Stages, Staging
    <3>2. tx'[h].id = nextId
      <4>1. ~Staging(h)
        BY <2>2, BeginFacts DEF At, Staging
      <4> QED BY <1>1, <1>6, <4>1
    <3> QED BY <1>3, <1>6, <3>1, <3>2 DEF Target
  <2>3. CASE ~Begin(g) /\ ~Begin(h)
    BY <1>1, <1>3, <1>6, <2>3
  <2> QED BY <2>1, <2>2, <2>3
<1> QED BY <1>5, <1>6 DEF StagingAlone, Staging, Target, Stages

\* The contribution that is reviewed or rejected was staged.
LEMMA TargetsStagedStep ==
  ASSUME TypeOK, HandlersKnow, [Next]_vars
  PROVE  TargetsStaged'
<1> SUFFICES ASSUME NEW g \in Handler
             PROVE  /\ /\ tx'[g].id # Direct
                       /\ tx'[g].step \notin {"staging", "staged"}
                       => contributions'[tx'[g].id].status # "NONE"
                    /\ tx'[g].step \in {"loaded", "accepted", "rejecting", "rejected"}
                         => tx'[g].id # Direct
  BY DEF TargetsStaged, Staging, Target
<1>1. /\ Target(g) # Direct /\ ~Staging(g) => contributions[Target(g)].status # "NONE"
      /\ tx[g].step \in {"loaded", "accepted", "rejecting", "rejected"} =>
           Target(g) # Direct
      /\ tx[g] \in Tx
  BY DEF HandlersKnow, TargetsStaged, TypeOK
<1>2. ASSUME NEW c \in ContributionId, contributions[c].status # "NONE"
      PROVE  contributions'[c].status # "NONE" /\ c # Direct
  BY <1>2, Grows DEF ContributionId, Direct
<1>3. CASE tx'[g] = tx[g]
  BY <1>1, <1>2, <1>3 DEF Tx, Target, Staging
<1>4. CASE tx'[g] = Idle
  BY <1>4 DEF Idle
<1>5. CASE Begin(g)
  BY <1>2, <1>5, BeginFacts
<1>6. CASE Continue(g)
  <2>1. CASE tx'[g] = Idle
    BY <1>4, <2>1
  <2>2. CASE /\ tx'[g].id = tx[g].id
             /\ <<tx[g].step, tx'[g].step>> \in Moves
    <3>1. CASE tx'[g].step = "loaded"
      <4>1. At(g, "written")
        BY <2>2, <3>1 DEF Moves, At
      <4>2. ~EndDirect(g)
        BY <3>1 DEF EndDirect, End, Advance, Idle, TypeOK
      <4>3. LoadReviewed(g)
        BY <1>6, <4>1, <4>2
           DEF Continue, At, NotifyReviewers, CommitStage, ReadMap, Checkout,
               CommitSource, NotifyAccepted, CommitSave, NotifyRejected, CommitReject
      <4> QED BY <1>1, <1>2, <2>2, <3>1, <4>3 DEF LoadReviewed, Tx, Target, Staging, At
    <3>2. CASE tx'[g].step # "loaded"
      BY <1>1, <1>2, <2>2, <3>2 DEF Tx, Target, Staging, Moves
    <3> QED BY <3>1, <3>2
  <2> QED BY <1>6, <2>1, <2>2, ContinueFacts
<1> QED BY <1>3, <1>4, <1>5, <1>6, HandlerSteps

\* The mail a handler goes on from was sent.
LEMMA MailsSentStep ==
  ASSUME TypeOK, HandlersKnow, [Next]_vars
  PROVE  MailsSent'
<1> DEFINE Notified(h) ==
      /\ At(h, "staged") => Told("STAGED", Target(h))
      /\ At(h, "accepted") => Told("ACCEPTED", Target(h))
      /\ At(h, "rejected") => Told("REJECTED", Target(h))
<1> SUFFICES ASSUME NEW g \in Handler PROVE Notified(g)'
  BY DEF MailsSent
<1>1. Notified(g) /\ mails \subseteq mails' /\ tx \in [Handler -> Tx]
  BY Grows DEF HandlersKnow, MailsSent, TypeOK
<1>2. CASE tx'[g] = tx[g]
  BY <1>1, <1>2 DEF At, Target, Told
<1>3. CASE tx'[g] = Idle
  BY <1>3 DEF At, Idle
<1>4. CASE Begin(g)
  BY <1>4, BeginFacts DEF At
<1>5. CASE Continue(g)
  <2>1. CASE tx'[g] = Idle
    BY <1>3, <2>1
  <2>2. CASE /\ tx'[g].id = tx[g].id
             /\ <<tx[g].step, tx'[g].step>> \in Moves
             /\ tx'[g] # Idle
    <3>1. ASSUME NEW kind, NEW v, Send(kind, Target(g), v)
          PROVE  Told(kind, Target(g))'
      <4>1. [kind |-> kind, id |-> Target(g), version |-> v] \in mails'
        BY <3>1 DEF Send
      <4> QED BY <2>2, <4>1 DEF Told, Target
    <3>2. ~CommitStage(g) /\ ~CommitSave(g) /\ ~CommitReject(g) /\ ~EndDirect(g)
      BY <1>1, <2>2 DEF CommitStage, CommitSave, CommitReject, EndDirect, Remove,
                        End, Advance
    <3>3. CASE NotifyReviewers(g)
      BY <2>2, <3>1, <3>3 DEF NotifyReviewers, At, Moves
    <3>4. CASE NotifyAccepted(g)
      BY <2>2, <3>1, <3>4 DEF NotifyAccepted, At, Moves
    <3>5. CASE NotifyRejected(g)
      BY <2>2, <3>1, <3>5 DEF NotifyRejected, At, Moves
    <3>6. CASE LoadReviewed(g) \/ ReadMap(g) \/ Checkout(g) \/ CommitSource(g)
      BY <2>2, <3>6 DEF LoadReviewed, ReadMap, Checkout, CommitSource, At, Moves
    <3> QED BY <1>5, <3>2, <3>3, <3>4, <3>5, <3>6 DEF Continue
  <2> QED BY <1>5, <2>1, <2>2, ContinueFacts
<1> QED BY <1>2, <1>3, <1>4, <1>5, HandlerSteps

\* The revisions a handler works with are in the source, and the one it committed
\* is its own.
LEMMA RevisionsExistStep ==
  ASSUME TypeOK, HandlersKnow, [Next]_vars
  PROVE  RevisionsExist'
<1> DEFINE Exist(h) ==
      /\ tx[h].step \in {"mapRead", "checkedOut"} \/ Written(h) =>
           tx[h].read \in 1 .. Latest
      /\ At(h, "checkedOut") \/ Written(h) => tx[h].checkout \in 1 .. Latest
      /\ Written(h) /\ tx[h].committed # NoRevision =>
           /\ tx[h].committed \in tx[h].checkout + 1 .. Latest
           /\ repo[tx[h].committed].by = Target(h)
<1> SUFFICES ASSUME NEW g \in Handler PROVE Exist(g)'
  BY DEF RevisionsExist
<1>1. /\ Exist(g)
      /\ tx \in [Handler -> Tx] /\ tx[g] \in Tx
      /\ SourceTypeOK
  BY DEF HandlersKnow, RevisionsExist, TypeOK
<1>2. HistoryKept /\ SourceTypeOK'
  BY StepType DEF TypeOK
<1>3. Latest \in Nat \ {0} /\ Latest' \in Nat \ {0} /\ Latest' >= Latest
  BY <1>1, <1>2, LatestType DEF HistoryKept, Latest, SourceTypeOK
<1>4. ASSUME /\ tx'[g].read = tx[g].read
             /\ tx'[g].checkout = tx[g].checkout
             /\ tx'[g].committed = tx[g].committed
             /\ tx'[g].id = tx[g].id
             /\ \/ tx'[g].step = tx[g].step
                \/ Written(g) /\ tx'[g].step \in {"loaded", "accepted"}
                \/ tx'[g].step \in {"staged", "rejected"}
      PROVE  Exist(g)'
  <2>1. ASSUME Written(g), tx[g].committed # NoRevision
        PROVE  /\ tx[g].committed \in tx[g].checkout + 1 .. Latest'
               /\ repo'[tx[g].committed].by = Target(g)
    <3>1. tx[g].committed \in 1 .. Latest
      BY <1>1, <1>3, <2>1
    <3> QED BY <1>1, <1>2, <1>3, <2>1, <3>1, HistoryFacts
  <2> QED BY <1>1, <1>3, <1>4, <2>1 DEF At, Written, Target
<1>5. CASE tx'[g] = tx[g]
  BY <1>4, <1>5
<1>6. CASE tx'[g] = Idle
  BY <1>6 DEF Idle, At, Written
<1>7. CASE Begin(g)
  BY <1>7, BeginFacts DEF At, Written
<1>8. CASE Continue(g)
  <2>1. CASE CommitStage(g) \/ EndDirect(g) \/ CommitSave(g) \/ CommitReject(g)
    BY <1>1, <1>6, <2>1
       DEF CommitStage, CommitSave, CommitReject, EndDirect, Remove, End, Advance
  <2>2. CASE NotifyReviewers(g) \/ LoadReviewed(g) \/ NotifyAccepted(g) \/ NotifyRejected(g)
    <3>1. ASSUME NEW s, Advance(g, [tx[g] EXCEPT !.step = s])
          PROVE  /\ tx'[g].read = tx[g].read
                 /\ tx'[g].checkout = tx[g].checkout
                 /\ tx'[g].committed = tx[g].committed
                 /\ tx'[g].id = tx[g].id
                 /\ tx'[g].step = s
      BY <1>1, <3>1 DEF Advance, Tx
    <3> QED BY <1>4, <2>2, <3>1
            DEF NotifyReviewers, LoadReviewed, NotifyAccepted, NotifyRejected,
                At, Written
  <2>3. CASE ReadMap(g)
    <3>1. tx'[g].read = Latest /\ tx'[g].step = "mapRead" /\ Latest' = Latest
      BY <1>1, <2>3 DEF ReadMap, Advance, Tx, Latest
    <3> QED BY <1>3, <3>1 DEF At, Written
  <2>4. CASE Checkout(g)
    <3>1. /\ tx'[g].read = tx[g].read /\ tx[g].step = "mapRead"
          /\ tx'[g].checkout = Latest
          /\ tx'[g].step = "checkedOut" /\ Latest' = Latest
      BY <1>1, <2>4 DEF Checkout, Advance, Tx, Latest, At
    <3> QED BY <1>1, <1>3, <3>1 DEF At, Written
  <2>5. CASE CommitSource(g)
    <3>1. /\ tx[g].read \in 1 .. Latest' /\ tx[g].checkout \in 1 .. Latest'
          /\ tx'[g].read = tx[g].read /\ tx'[g].checkout = tx[g].checkout
          /\ tx'[g].id = tx[g].id
      BY <1>3, <2>5, CommitSourceFacts
    <3>2. CASE tx'[g].committed = NoRevision
      BY <3>1, <3>2
    <3>3. CASE /\ CommitRevision(SavedMap(g), tx[g].checkout, Target(g))
               /\ tx'[g].committed = Latest + 1
      <4>1. Latest' = Latest + 1 /\ repo'[Latest + 1].by = Target(g)
        BY <1>1, <2>5, <3>3, CommitSourceFacts, CommitRevisionType
      <4>2. Latest + 1 \in tx[g].checkout + 1 .. Latest'
        BY <1>3, <2>5, <4>1, CommitSourceFacts
      <4> QED BY <3>1, <3>3, <4>1, <4>2 DEF Target
    <3> QED BY <2>5, <3>2, <3>3, CommitSourceFacts
  <2> QED BY <1>8, <2>1, <2>2, <2>3, <2>4, <2>5 DEF Continue
<1> QED BY <1>5, <1>6, <1>7, <1>8, HandlerSteps

-----------------------------------------------------------------------------
(* The mails tell the status: the inductive invariant. *)

\* Every step keeps MailsTellTheStatus: a row is staged or deleted after its mail,
\* and a verdict is mailed about a row that was staged.
LEMMA MailsStep ==
  ASSUME TypeOK, HandlersKnow, MailsTellTheStatus, [Next]_vars
  PROVE  MailsTellTheStatus'
<1> SUFFICES ASSUME NEW c \in ContributionId
             PROVE  /\ contributions'[c].status # "NONE" => Told("STAGED", c)'
                    /\ contributions'[c].status = "GONE" =>
                         Told("ACCEPTED", c)' \/ Told("REJECTED", c)'
                    /\ Told("ACCEPTED", c)' \/ Told("REJECTED", c)' =>
                         contributions'[c].status # "NONE"
  BY DEF MailsTellTheStatus
<1>1. /\ contributions[c].status # "NONE" => Told("STAGED", c)
      /\ contributions[c].status = "GONE" => Told("ACCEPTED", c) \/ Told("REJECTED", c)
      /\ Told("ACCEPTED", c) \/ Told("REJECTED", c) => contributions[c].status # "NONE"
  BY DEF MailsTellTheStatus
<1>2. ASSUME NEW kind, Told(kind, c) PROVE Told(kind, c)'
  BY <1>2, Grows DEF Told
<1>3. Told("ACCEPTED", c)' \/ Told("REJECTED", c)' => contributions'[c].status # "NONE"
  <2>1. ASSUME NEW m \in mails', m.kind \in {"ACCEPTED", "REJECTED"}, m.id = c
        PROVE  contributions[c].status # "NONE"
    <3>1. CASE m \in mails
      BY <1>1, <2>1, <3>1 DEF Told
    <3>2. ASSUME NEW h \in Handler, Target(h) = c, At(h, "loaded") \/ At(h, "rejecting")
          PROVE  contributions[c].status # "NONE"
      BY <3>2 DEF HandlersKnow, TargetsStaged, Staging, At
    <3> QED BY <2>1, <3>1, <3>2, MailSteps
  <2> QED BY <2>1, Grows DEF Told
<1>4. CASE contributions'[c] = contributions[c]
  BY <1>1, <1>2, <1>3, <1>4
<1>5. ASSUME NEW h \in Handler, Target(h) = c, At(h, "staged"),
             contributions'[c].status = "STAGED"
      PROVE  Told("STAGED", c)'
  BY <1>2, <1>5 DEF HandlersKnow, MailsSent
<1>6. ASSUME NEW h \in Handler, Target(h) = c, At(h, "accepted") \/ At(h, "rejected")
      PROVE  /\ Told("STAGED", c)'
             /\ Told("ACCEPTED", c)' \/ Told("REJECTED", c)'
  <2>1. contributions[c].status # "NONE"
    BY <1>6 DEF HandlersKnow, TargetsStaged, Staging, At
  <2>2. Told("ACCEPTED", c) \/ Told("REJECTED", c)
    BY <1>6 DEF HandlersKnow, MailsSent
  <2> QED BY <1>1, <1>2, <2>1, <2>2
<1> QED BY <1>3, <1>4, <1>5, <1>6, RowSteps

\* The inductive invariant: the mails tell the status because a handler mails and
\* commits only about a contribution of its own that HandlersKnow tells of.
Inv == TypeOK /\ HandlersKnow /\ MailsTellTheStatus

\* The inductive invariant holds in every reachable state.
THEOREM Invariance == Spec => []Inv
<1>1. Init => Inv
  BY InitType, InitKnow DEF Inv
<1>2. Inv /\ [Next]_vars => Inv'
  BY StepType, FreshIdsStep, TargetsAllocatedStep, StagingAloneStep,
     TargetsStagedStep, MailsSentStep, RevisionsExistStep, MailsStep
     DEF Inv, HandlersKnow
<1> QED BY <1>1, <1>2, PTL DEF Spec

\* Every reachable state has the declared types.
THEOREM TypeCorrect == Spec => []TypeOK
<1>1. Inv => TypeOK
  BY DEF Inv
<1> QED BY <1>1, Invariance, PTL

\* What a handler knows stays true while the others commit.
THEOREM HandlersKnowHolds == Spec => []HandlersKnow
<1>1. Inv => HandlersKnow
  BY DEF Inv
<1> QED BY <1>1, Invariance, PTL

\* The mails and the table of contributions tell the same story.
THEOREM MailsHold == Spec => []MailsTellTheStatus
<1>1. Inv => MailsTellTheStatus
  BY DEF Inv
<1> QED BY <1>1, Invariance, PTL

-----------------------------------------------------------------------------
(* What a post does to the source, and what its author is told of it. *)

\* Every step keeps AcceptedVersionIsOwnRevision: the mail carries what the commit
\* of the same handler returned, and revisions are immutable.
LEMMA AcceptedVersionStep ==
  ASSUME Inv, AcceptedVersionIsOwnRevision, [Next]_vars
  PROVE  AcceptedVersionIsOwnRevision'
<1>1. TypeOK /\ HandlersKnow /\ SourceTypeOK /\ HistoryKept
  BY StepType DEF Inv, TypeOK
<1> SUFFICES ASSUME NEW m \in mails', m.kind = "ACCEPTED", m.version # NoRevision
             PROVE  m.version \in 1 .. Latest' /\ repo'[m.version].by = m.id
  BY DEF AcceptedVersionIsOwnRevision
<1>2. m.version \in 1 .. Latest /\ repo[m.version].by = m.id
  <2>1. CASE m \in mails
    BY <2>1 DEF AcceptedVersionIsOwnRevision
  <2>2. ASSUME NEW h \in Handler, At(h, "loaded"), Target(h) = m.id,
               m.version = tx[h].committed
        PROVE  m.version \in 1 .. Latest /\ repo[m.version].by = m.id
    <3>1. Written(h) /\ Latest \in Nat
      BY <1>1, <2>2, LatestType DEF Written, At
    <3> QED BY <1>1, <2>2, <3>1 DEF HandlersKnow, RevisionsExist
  <2> QED BY <1>1, <2>1, <2>2, MailSteps
<1> QED BY <1>1, <1>2, HistoryFacts

\* The version mailed to the author of an accepted contribution is a revision that
\* wrote his contribution.
THEOREM AcceptedVersions == Spec => []AcceptedVersionIsOwnRevision
<1>1. Init => AcceptedVersionIsOwnRevision
  BY DEF Init, AcceptedVersionIsOwnRevision
<1>2. Inv /\ AcceptedVersionIsOwnRevision /\ [Next]_vars => AcceptedVersionIsOwnRevision'
  BY AcceptedVersionStep
<1> QED BY <1>1, <1>2, Invariance, PTL DEF Spec

\* A handler that has written the source has just done so, or had before.
LEMMA WrittenStep ==
  ASSUME TypeOK, HandlersKnow, [Next]_vars, NEW g \in Handler, Written(g)'
  PROVE  \/ CommitSource(g)
         \/ /\ Written(g)
            /\ tx'[g].input = tx[g].input
            /\ tx'[g].read = tx[g].read
            /\ tx'[g].checkout = tx[g].checkout
            /\ tx'[g].committed = tx[g].committed
<1>1. tx \in [Handler -> Tx] /\ tx[g] \in Tx /\ tx'[g] # Idle
  BY DEF TypeOK, Written, Idle
<1>2. CASE tx'[g] = tx[g]
  BY <1>2 DEF Written
<1>3. ~Begin(g)
  BY BeginFacts DEF Written
<1>4. CASE Continue(g)
  <2>1. <<tx[g].step, tx'[g].step>> \in Moves
    BY <1>1, <1>4, ContinueFacts
  <2>2. tx[g].step \in {"checkedOut", "written", "loaded"}
    BY <2>1 DEF Moves, Written
  <2>3. ~CommitStage(g) /\ ~CommitSave(g) /\ ~CommitReject(g) /\ ~EndDirect(g)
    BY <1>1 DEF CommitStage, CommitSave, CommitReject, EndDirect, Remove, End, Advance
  <2>4. CommitSource(g) \/ LoadReviewed(g) \/ NotifyAccepted(g)
    BY <1>4, <2>2, <2>3
       DEF Continue, NotifyReviewers, ReadMap, Checkout, NotifyRejected, At
  <2>5. ASSUME NEW s, Advance(g, [tx[g] EXCEPT !.step = s])
        PROVE  /\ tx'[g].input = tx[g].input
               /\ tx'[g].read = tx[g].read
               /\ tx'[g].checkout = tx[g].checkout
               /\ tx'[g].committed = tx[g].committed
    BY <1>1, <2>5 DEF Advance, Tx
  <2>6. CASE LoadReviewed(g) \/ NotifyAccepted(g)
    BY <2>5, <2>6 DEF LoadReviewed, NotifyAccepted, At, Written
  <2> QED BY <2>4, <2>6
<1> QED BY <1>1, <1>2, <1>3, <1>4, HandlerSteps

\* A label posted is a label of the map that is saved; a label not posted is the one
\* of the map read.
LEMMA SavedLabels ==
  ASSUME NEW m \in Map, NEW labels \in Map, InputDiff(labels) \in Diffs,
         NEW k \in Key, NEW l \in Locale
  PROVE  LET saved == ApplyDiff(m, InputDiff(labels))
         IN  /\ labels[k][l] \in Text => saved[k][l] = labels[k][l]
             /\ labels[k][l] = NoValue => saved[k][l] = m[k][l]
<1>1. labels[k] # NoLabels =>
        /\ InputDiff(labels)[k].type = "UPDATED"
        /\ InputDiff(labels)[k].new = labels[k]
  BY DEF InputDiff, NoEntry
<1>2. labels[k] = NoLabels =>
        /\ InputDiff(labels)[k].type = "NONE"
        /\ labels[k][l] = NoValue
  BY DEF InputDiff, NoEntry, NoLabels
<1> QED BY <1>1, <1>2 DEF ApplyDiff, Merge, Without, AsMap, Editable

\* Every step keeps PostedLabelsReachSource.
LEMMA PostedLabelsStep ==
  ASSUME Inv, PostedLabelsReachSource, [Next]_vars
  PROVE  PostedLabelsReachSource'
<1>1. TypeOK /\ HandlersKnow /\ SourceTypeOK /\ Latest \in Nat
  BY LatestType DEF Inv, TypeOK
<1>2. HistoryKept /\ SourceTypeOK'
  BY StepType DEF Inv, TypeOK
<1> SUFFICES ASSUME NEW g \in Handler, Written(g)',
                    NEW k \in Key, NEW l \in GroupLocales[BundleOf[k]],
                    tx'[g].input[k][l] \in Text
             PROVE  \E v \in tx'[g].checkout .. Latest' :
                      /\ v <= tx'[g].committed \/ v = tx'[g].checkout
                      /\ repo'[v].map[k][l] = tx'[g].input[k][l]
  BY DEF PostedLabelsReachSource, MapAt
<1>3. ASSUME NEW from \in 1 .. Latest, NEW v \in from .. Latest
      PROVE  v \in from .. Latest' /\ repo'[v].map = MapAt(v)
  <2>1. v \in 1 .. Latest
    BY <1>1
  <2>2. v \in 1 .. Latest' /\ repo'[v] = repo[v]
    BY <1>1, <1>2, <2>1, HistoryFacts
  <2> QED BY <2>2 DEF MapAt
<1>4. CASE /\ Written(g)
           /\ tx'[g].input = tx[g].input
           /\ tx'[g].checkout = tx[g].checkout
           /\ tx'[g].committed = tx[g].committed
  <2>1. tx[g].checkout \in 1 .. Latest
    BY <1>1, <1>4 DEF HandlersKnow, RevisionsExist
  <2>2. PICK v \in tx[g].checkout .. Latest :
               /\ v <= tx[g].committed \/ v = tx[g].checkout
               /\ MapAt(v)[k][l] = tx[g].input[k][l]
    BY <1>4 DEF PostedLabelsReachSource
  <2> QED BY <1>3, <1>4, <2>1, <2>2
<1>5. CASE CommitSource(g)
  <2> DEFINE m     == SavedMap(g)
             base  == tx[g].checkout
             label == tx[g].input[k][l]
  <2>1. /\ base \in 1 .. Latest
        /\ tx'[g].checkout = base
        /\ tx'[g].input = tx[g].input
        /\ m \in Map
        /\ Target(g) \in Author
        /\ \/ CommitRevision(m, base, Target(g)) /\ tx'[g].committed = Latest + 1
           \/ CommitNothing(m, base) /\ tx'[g].committed = NoRevision
    BY <1>1, <1>5, CommitSourceFacts
  <2>2. m[k][l] = label /\ label # NoValue
    <3>1. /\ l \in Locale
          /\ tx[g].input \in Map
          /\ MapAt(tx[g].read) \in Map
          /\ InputDiff(tx[g].input) \in Diffs
          /\ label \in Text
      BY <1>1, <1>5, <2>1, CommitSourceFacts, MapAtType DEF TypeOK, Tx
    <3> QED BY <3>1, SavedLabels DEF SavedMap
  <2> HIDE DEF m
  <2>3. CASE MapAt(base)[k][l] = label
    <3>1. base \in base .. Latest
      BY <1>1, <2>1
    <3> QED BY <1>3, <2>1, <2>3, <3>1
  <2>4. CASE /\ CommitRevision(m, base, Target(g))
             /\ Latest' = Latest + 1
             /\ repo'[Latest + 1].map[k][l] = label
    <3>1. Latest + 1 \in base .. Latest' /\ tx'[g].committed = Latest + 1
      BY <1>1, <2>1, <2>4 DEF CommitNothing, CommitRevision
    <3> QED BY <1>1, <2>1, <2>4, <3>1
  <2> QED BY <1>1, <2>1, <2>2, <2>3, <2>4, CommitBringsLabels
<1> QED BY <1>1, <1>4, <1>5, WrittenStep

\* Every label posted was the label of the source at a revision from the checkout of
\* the write to its commit.
THEOREM PostedLabels == Spec => []PostedLabelsReachSource
<1>1. Init => PostedLabelsReachSource
  BY DEF Init, PostedLabelsReachSource, Written, Idle
<1>2. Inv /\ PostedLabelsReachSource /\ [Next]_vars => PostedLabelsReachSource'
  BY PostedLabelsStep
<1> QED BY <1>1, <1>2, Invariance, PTL DEF Spec

\* The repository grows by one revision at most.
LEMMA OneRevision ==
  ASSUME Inv, [Next]_vars
  PROVE  Latest' \in {Latest, Latest + 1}
<1>1. TypeOK /\ HandlersKnow /\ SourceTypeOK
  BY DEF Inv, TypeOK
<1>2. CASE UNCHANGED repo
  BY <1>2 DEF Latest
<1>3. CASE Developer
  BY <1>1, <1>3, DeveloperCommitType DEF Developer
<1>4. ASSUME NEW h \in Handler, CommitSource(h)
      PROVE  Latest' \in {Latest, Latest + 1}
  BY <1>1, <1>2, <1>4, CommitSourceFacts, CommitRevisionType DEF CommitNothing
<1> QED BY <1>1, <1>2, <1>3, <1>4, RepoFacts, BeginFacts, AbortFacts DEF Next, vars

\* A file no revision touched between two of them is the same in both.
LEMMA UntouchedFiles == Spec => []UntouchedFilesAreKept
<1>1. Init => UntouchedFilesAreKept
  BY UntouchedFilesInit DEF Init
<1>2. Inv /\ UntouchedFilesAreKept /\ [Next]_vars => UntouchedFilesAreKept'
  BY OneRevision, StepType, UntouchedFilesStep DEF Inv, TypeOK
<1> QED BY <1>1, <1>2, Invariance, PTL DEF Spec

\* Every step keeps PostTouchesOnlyItsLabels.
LEMMA OtherLabelsStep ==
  ASSUME Inv, UntouchedFilesAreKept, PostTouchesOnlyItsLabels, [Next]_vars
  PROVE  PostTouchesOnlyItsLabels'
<1>1. TypeOK /\ HandlersKnow /\ SourceTypeOK /\ Latest \in Nat \ {0}
  BY LatestType DEF Inv, TypeOK
<1>2. HistoryKept
  BY StepType DEF Inv
<1> SUFFICES ASSUME NEW g \in Handler, Written(g)',
                    tx'[g].committed # NoRevision, tx'[g].read = tx'[g].checkout,
                    NEW k \in Key, NEW l \in Locale, tx'[g].input[k][l] = NoValue
             PROVE  repo'[tx'[g].committed].map[k][l]
                      = repo'[tx'[g].committed - 1].map[k][l]
  BY DEF PostTouchesOnlyItsLabels, MapAt
<1>3. CASE /\ Written(g)
           /\ tx'[g].input = tx[g].input
           /\ tx'[g].read = tx[g].read
           /\ tx'[g].checkout = tx[g].checkout
           /\ tx'[g].committed = tx[g].committed
  <2> DEFINE n == tx[g].committed
  <2>1. tx[g].checkout \in 1 .. Latest /\ n \in tx[g].checkout + 1 .. Latest
    BY <1>1, <1>3 DEF HandlersKnow, RevisionsExist
  <2>2. n \in 1 .. Latest /\ n - 1 \in 1 .. Latest
    BY <1>1, <2>1
  <2>3. MapAt(n)[k][l] = MapAt(n - 1)[k][l]
    BY <1>3 DEF PostTouchesOnlyItsLabels
  <2>4. repo'[n] = repo[n] /\ repo'[n - 1] = repo[n - 1]
    BY <1>1, <1>2, <2>2, HistoryFacts
  <2> QED BY <1>3, <2>3, <2>4 DEF MapAt
<1>4. CASE CommitSource(g)
  <2> DEFINE m    == SavedMap(g)
             base == tx[g].checkout
  <2>1. /\ base \in 1 .. Latest
        /\ MapAt(base) \in Map
        /\ InputDiff(tx[g].input) \in Diffs
        /\ tx[g].input \in Map
        /\ tx[g].input[k][l] = NoValue
        /\ tx[g].read = base
        /\ m \in Map
        /\ Target(g) \in Author
        /\ CommitRevision(m, base, Target(g))
        /\ tx'[g].committed = Latest + 1
    BY <1>1, <1>4, CommitSourceFacts, MapAtType DEF TypeOK, Tx
  <2>2. m[k][l] = MapAt(base)[k][l]
    BY <2>1, SavedLabels DEF SavedMap
  <2> HIDE DEF m
  <2>3. /\ repo'[Latest + 1].map[k][l] = LatestMap[k][l]
        /\ repo'[Latest].map = LatestMap
    BY <1>1, <2>1, <2>2, CommitKeepsOthers
  <2>4. tx'[g].committed - 1 = Latest
    BY <1>1, <2>1
  <2> QED BY <2>1, <2>3, <2>4
<1> QED BY <1>1, <1>3, <1>4, WrittenStep

\* A post that no commit overtook between its two checkouts changes the labels posted
\* and no other one.
THEOREM OtherLabelsKept == Spec => []PostTouchesOnlyItsLabels
<1>1. Init => PostTouchesOnlyItsLabels
  BY DEF Init, PostTouchesOnlyItsLabels, Written, Idle
<1>2. Inv /\ UntouchedFilesAreKept /\ PostTouchesOnlyItsLabels /\ [Next]_vars
        => PostTouchesOnlyItsLabels'
  BY OtherLabelsStep
<1> QED BY <1>1, <1>2, Invariance, UntouchedFiles, PTL DEF Spec
==============================================================================
