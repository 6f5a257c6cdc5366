-------------------------- MODULE TranslationSource --------------------------
(***************************************************************************)
(* The translation source of one branch: a Subversion repository of        *)
(* property files.  Reading is a checkout of one revision.  Writing is     *)
(* another checkout, of the head, into which the whole map is written, and *)
(* a commit of that working copy; Subversion rejects it when a file it     *)
(* changes was changed after the checkout.  Nothing ties the checkout of a *)
(* write to the checkout of the read the written map was computed from,    *)
(* and developers commit to the repository at any time.                    *)
(***************************************************************************)
EXTENDS TranslationMaps, Integers, Sequences

CONSTANTS
  Author,         \* requests or contributions that write to the source
  Developers,     \* author of the revisions that do not come from the console
  SourceMaps,     \* contents developers may commit
  MaxRevision     \* bound on the number of revisions

ASSUME SourceAssumption ==
  /\ SourceMaps \subseteq SourceMap
  /\ Developers \notin Author
  /\ MaxRevision \in Nat

VARIABLE repo     \* revisions of the repository, the last one is the head

Revision == [map : Map, by : Author \cup {Developers}]

Latest     == Len(repo)
MapAt(v) == repo[v].map
LatestMap  == MapAt(Latest)

\* What a commit that changes nothing returns instead of a revision.
NoRevision == -1

SourceTypeOK == /\ repo \in Seq(Revision)
                /\ Len(repo) > 0

SourceInit == \E m \in SourceMaps : repo = <<[map |-> m, by |-> Developers]>>

-----------------------------------------------------------------------------
\* The working copy of a checkout at revision base once map m is written in it.
WorkingCopy(m, base) == WriteTo(m, MapAt(base))

\* The files the commit of that working copy sends.
SentFiles(m, base) == ChangedFiles(WorkingCopy(m, base), MapAt(base))

\* Mutant: the working copy is sent whatever was committed since its checkout.
NeverOutOfDate(files, base) == FALSE

\* One of the files was changed in a revision that the checkout does not have.
OutOfDate(files, base) ==
  \E v \in base + 1 .. Latest : files \cap ChangedFiles(MapAt(v), MapAt(v - 1)) # {}

\* The commit succeeds with a new revision: the files sent replace those of the
\* head, the other files of the head stay.
CommitRevision(m, base, author) ==
  /\ SentFiles(m, base) # {}
  /\ ~OutOfDate(SentFiles(m, base), base)
  /\ Latest < MaxRevision
  /\ repo' = Append(repo, [map |-> Overlay(WorkingCopy(m, base),
                                           SentFiles(m, base), LatestMap),
                           by  |-> author])

\* The commit succeeds without a revision: there is nothing to send.
CommitNothing(m, base) ==
  /\ SentFiles(m, base) = {}
  /\ UNCHANGED repo

\* A developer commits.
DeveloperCommit(m) ==
  /\ Latest < MaxRevision
  /\ m # LatestMap
  /\ repo' = Append(repo, [map |-> m, by |-> Developers])

-----------------------------------------------------------------------------
\* Revisions are immutable.
HistoryKept ==
  /\ Len(repo') >= Len(repo)
  /\ \A v \in 1 .. Len(repo) : repo'[v] = repo[v]
==============================================================================
