------------------------------- MODULE DialogForms -------------------------------
(***************************************************************************)
(* The forms that pages show in dialogs (lib/dialog.js) and the prompts of *)
(* deletions: projects, branches and requests (app/component).  A page     *)
(* asks the server for what a form needs, and may be clicked again before  *)
(* the form is there.  The forms of a kind share the id of their template, *)
(* which is how a form is closed, and how some read their fields.          *)
(***************************************************************************)
EXTENDS Naturals, Sequences, FiniteSets, SequencesExt

CONSTANTS
  MaxOpenings,   \* bound on the clicks that open a form or a prompt
  MaxPosts,      \* bound on the calls in flight
  Name, NoName   \* what the user types in a form

ASSUME FormsAssumption ==
  /\ MaxOpenings \in Nat /\ MaxPosts \in Nat /\ NoName \notin Name

VARIABLES
  page,          \* the page that is shown
  openings,      \* each click, the data that came for it, and whether it was answered
  dom,           \* forms in the page, oldest first, open or hidden
  stack,         \* dialogs that are open; the last one is modal
  typed,         \* name typed in each form
  failing,       \* forms that show an error
  posts,         \* calls in flight: creations, deletions, uploads and merges
  created,       \* names, on the server
  alert,         \* the error dialog is open
  gone,          \* the user was sent to another page
  untidy         \* history: a form was left in the page, or two were opened together

formsVars == <<page, openings, dom, stack, typed, failing, posts, created, alert, gone, untidy>>

-----------------------------------------------------------------------------
(* The forms and the prompts: what a page asks the server for before it    *)
(* opens them, whether a form looks for its fields in the whole page,      *)
(* whether it holds the configuration of a choice (ConfigurableField), and *)
(* where its errors are shown.                                             *)

CreateProject == [needs |-> {}, readsPage |-> TRUE, configured |-> TRUE, errors |-> "form"]
CreateBranch  == [needs |-> {"project", "parameters"}, readsPage |-> TRUE, configured |-> FALSE,
                  errors |-> "form"]
CreateRequest == [needs |-> {"config"}, readsPage |-> FALSE, configured |-> TRUE, errors |-> "alert"]
UploadRequest == [needs |-> {}, readsPage |-> FALSE, configured |-> FALSE, errors |-> "page"]
MergeRequest  == [needs |-> {"view"}, readsPage |-> FALSE, configured |-> FALSE, errors |-> "alert"]
DeleteProject == [needs |-> {"project"}, readsPage |-> FALSE, configured |-> FALSE, errors |-> "alert"]
DeleteBranch  == [needs |-> {"branch"}, readsPage |-> FALSE, configured |-> FALSE, errors |-> "alert"]
DeleteRequest == [needs |-> {}, readsPage |-> FALSE, configured |-> FALSE, errors |-> "alert"]

Forms == [createProject |-> CreateProject, createBranch |-> CreateBranch,
          createRequest |-> CreateRequest, uploadRequest |-> UploadRequest,
          mergeRequest |-> MergeRequest]
Prompts == [deleteProject |-> DeleteProject, deleteBranch |-> DeleteBranch,
            deleteRequest |-> DeleteRequest]
Kinds == DOMAIN Forms \cup DOMAIN Prompts
About(kind) == IF kind \in DOMAIN Forms THEN Forms[kind] ELSE Prompts[kind]

\* The buttons of the pages.
HomeButtons    == {"createProject"}
ProjectButtons == {"createBranch", "deleteProject"}
BranchButtons  == {"createRequest", "deleteBranch"}
RequestButtons == {"mergeRequest", "uploadRequest", "deleteRequest"}
Pages == {HomeButtons, ProjectButtons, BranchButtons, RequestButtons}

-----------------------------------------------------------------------------
Opening == 1 .. MaxOpenings
Unused == [kind |-> "none", got |-> {}, shown |-> FALSE]
Datum == UNION {About(kind).needs : kind \in Kinds}

PostOf == [by : Opening, kind : Kinds, name : Name \cup {NoName}, seen : Name \cup {NoName},
           outcome : {"pending", "ok", "refused"}]

OpeningOf == [kind : Kinds \cup {"none", "over"}, got : SUBSET Datum, shown : BOOLEAN]

FormsTypeOK ==
  /\ page \in Pages
  /\ openings \in [Opening -> OpeningOf]
  /\ dom \in Seq(Opening) /\ stack \in Seq(Opening)
  /\ typed \in [Opening -> Name \cup {NoName}]
  /\ failing \subseteq Opening
  /\ posts \subseteq PostOf
  /\ created \subseteq Name
  /\ {alert, gone, untidy} \subseteq BOOLEAN

FormsInit ==
  /\ page \in Pages
  /\ openings = [o \in Opening |-> Unused]
  /\ dom = <<>> /\ stack = <<>>
  /\ typed = [o \in Opening |-> NoName]
  /\ failing = {} /\ posts = {} /\ created = {}
  /\ alert = FALSE /\ gone = FALSE /\ untidy = FALSE

Asking(o) == openings[o].kind \in Kinds /\ ~openings[o].shown
IsForm(o) == openings[o].kind \in DOMAIN Forms
Top == stack[Len(stack)]
OnTop(o) == ~gone /\ ~alert /\ stack # <<>> /\ o = Top
Popped == SubSeq(stack, 1, Len(stack) - 1)
Over(o) == openings' = [openings EXCEPT ![o] = [kind |-> "over", got |-> {}, shown |-> FALSE]]

-----------------------------------------------------------------------------
(* Opening a form.                                                           *)

Click(o, kind) ==
  /\ kind \in page
  /\ ~gone /\ ~alert /\ stack = <<>>
  /\ openings[o] = Unused /\ \A p \in 1 .. o - 1 : openings[p] # Unused
  /\ openings' = [openings EXCEPT ![o].kind = kind]
  /\ untidy' = (untidy \/ \E p \in Opening : Asking(p))
  /\ UNCHANGED <<page, dom, stack, typed, failing, posts, created, alert, gone>>

GetDatum(o, d) ==
  /\ ~gone /\ Asking(o) /\ d \in About(openings[o].kind).needs \ openings[o].got
  /\ openings' = [openings EXCEPT ![o].got = @ \cup {d}]
  /\ UNCHANGED <<page, dom, stack, typed, failing, posts, created, alert, gone, untidy>>

\* Nothing is opened when one of the calls fails, with or without a message.
NoDatum(o) ==
  /\ ~gone /\ Asking(o) /\ openings[o].got # About(openings[o].kind).needs
  /\ Over(o)
  /\ alert' \in {alert, TRUE}
  /\ UNCHANGED <<page, dom, stack, typed, failing, posts, created, gone, untidy>>

\* show: the template is there.
ShowForm(o) ==
  /\ ~gone /\ Asking(o) /\ openings[o].got = About(openings[o].kind).needs
  /\ openings' = [openings EXCEPT ![o].shown = TRUE]
  /\ stack' = Append(stack, o)
  /\ dom' = IF IsForm(o) THEN Append(dom, o) ELSE dom
  /\ UNCHANGED <<page, typed, failing, posts, created, alert, gone, untidy>>

-----------------------------------------------------------------------------
(* Using it.                                                                 *)

Form(o) == OnTop(o) /\ IsForm(o)

TypeName(o, n) ==
  /\ Form(o) /\ typed[o] # n
  /\ typed' = [typed EXCEPT ![o] = n]
  /\ UNCHANGED <<page, openings, dom, stack, failing, posts, created, alert, gone, untidy>>

\* The forms of a kind, which have one id; the page finds the oldest.
SameId(forms, o) == {i \in 1 .. Len(forms) : openings[forms[i]].kind = openings[o].kind}
OldestAt(forms, o) == CHOOSE i \in SameId(forms, o) : \A j \in SameId(forms, o) : i <= j
Oldest(o) == dom[OldestAt(dom, o)]

\* Mutant: every form looks for its field in the page.
NameInPage(o) == typed[Oldest(o)]

\* The field is looked for in the page, or in the form.
NameOf(o) == IF About(openings[o].kind).readsPage THEN typed[Oldest(o)] ELSE typed[o]

MayPost == Cardinality(posts) < MaxPosts
Post(o, name) == posts' = posts \cup {[by |-> o, kind |-> openings[o].kind, name |-> name,
                                      seen |-> typed[o], outcome |-> "pending"]}

\* The button is not disabled while the form is submitted.
SubmitForm(o) ==
  /\ Form(o) /\ openings[o].kind # "uploadRequest" /\ typed[o] # NoName /\ MayPost
  /\ Post(o, NameOf(o))
  /\ UNCHANGED <<page, openings, dom, stack, typed, failing, created, alert, gone, untidy>>

\* The configuration cannot be read: the exception is shown in the form.
SubmitThrows(o) ==
  /\ Form(o) /\ About(openings[o].kind).configured /\ typed[o] # NoName
  /\ failing' = failing \cup {o}
  /\ UNCHANGED <<page, openings, dom, stack, typed, posts, created, alert, gone, untidy>>

\* This button sends the form itself: nothing checks that the files were chosen.
ClickUpload(o) ==
  /\ Form(o) /\ openings[o].kind = "uploadRequest" /\ MayPost
  /\ Post(o, typed[o])
  /\ UNCHANGED <<page, openings, dom, stack, typed, failing, created, alert, gone, untidy>>

\* The prompt is closed, then the deletion is sent.
Confirm(o) ==
  /\ OnTop(o) /\ ~IsForm(o) /\ MayPost
  /\ Post(o, NoName)
  /\ stack' = Popped
  /\ Over(o)
  /\ UNCHANGED <<page, dom, typed, failing, created, alert, gone, untidy>>

Decline(o) ==
  /\ OnTop(o) /\ ~IsForm(o)
  /\ stack' = Popped
  /\ Over(o)
  /\ UNCHANGED <<page, dom, typed, failing, posts, created, alert, gone, untidy>>

\* closeFn: the form that is closed and removed is the oldest one with its id.
Closed(forms, o) == RemoveAt(forms, OldestAt(forms, o))

CancelForm(o) ==
  /\ Form(o)
  /\ dom' = Closed(dom, o)
  /\ stack' = RemoveFirst(stack, Oldest(o))
  /\ UNCHANGED <<page, openings, typed, failing, posts, created, alert, gone, untidy>>

\* The cross of the title and the escape key hide the dialog.
HideForm(o) ==
  /\ Form(o)
  /\ stack' = Popped
  /\ untidy' = TRUE
  /\ UNCHANGED <<page, openings, dom, typed, failing, posts, created, alert, gone>>

-----------------------------------------------------------------------------
(* The server.                                                               *)

ReplyTo(post, outcome) == posts' = (posts \ {post}) \cup {[post EXCEPT !.outcome = outcome]}

\* The names of projects are unique, and those of the branches of a project.
NamesWhatIsNew(post) == post.kind \in {"createProject", "createBranch"}

ServePost(post) ==
  /\ post \in posts /\ post.outcome = "pending"
  /\ \/ /\ NamesWhatIsNew(post) => post.name \in Name \ created
        /\ ReplyTo(post, "ok")
        /\ created' = created \cup IF NamesWhatIsNew(post) THEN {post.name} ELSE {}
     \/ /\ NamesWhatIsNew(post) => post.name \notin Name \ created
        /\ ReplyTo(post, "refused")
        /\ UNCHANGED created
  /\ UNCHANGED <<page, openings, dom, stack, typed, failing, alert, gone, untidy>>

\* The user goes to the page of what was created or changed, or to the page above what
\* was deleted.
Leave ==
  /\ gone' = TRUE
  /\ dom' = <<>> /\ stack' = <<>> /\ posts' = {} /\ failing' = {} /\ alert' = FALSE
  /\ UNCHANGED <<page, openings, typed, created, untidy>>

Done(post) == post \in posts /\ post.outcome = "ok" /\ Leave

\* The error is shown in the form, in a dialog of its own, or as a page.
NotDone(post) ==
  /\ post \in posts /\ post.outcome = "refused"
  /\ IF About(post.kind).errors = "page" THEN Leave
     ELSE /\ posts' = posts \ {post}
          /\ IF About(post.kind).errors = "form"
             THEN failing' = failing \cup {post.by} /\ UNCHANGED alert
             ELSE alert' = TRUE /\ UNCHANGED failing
          /\ UNCHANGED <<page, openings, dom, stack, typed, created, gone, untidy>>

\* Neither the page nor the user is told.
LosePost(post) ==
  /\ post \in posts
  /\ posts' = posts \ {post}
  /\ UNCHANGED <<page, openings, dom, stack, typed, failing, created, alert, gone, untidy>>

CloseAlert ==
  /\ alert
  /\ alert' = FALSE
  /\ UNCHANGED <<page, openings, dom, stack, typed, failing, posts, created, gone, untidy>>

FormsNext ==
  \/ CloseAlert
  \/ \E post \in posts : ServePost(post) \/ Done(post) \/ NotDone(post) \/ LosePost(post)
  \/ \E o \in Opening :
       \/ \E kind \in Kinds : Click(o, kind)
       \/ NoDatum(o) \/ ShowForm(o)
       \/ SubmitForm(o) \/ SubmitThrows(o) \/ ClickUpload(o) \/ Confirm(o) \/ Decline(o)
       \/ CancelForm(o) \/ HideForm(o)
       \/ \E d \in Datum : GetDatum(o, d)
       \/ \E n \in Name : TypeName(o, n)

FormsSpec == FormsInit /\ [][FormsNext]_formsVars

-----------------------------------------------------------------------------
PostedTidily ==
  ~untidy => \A post \in posts : post.name = post.seen

PostedByOwnFields ==
  \A post \in posts :
    post.kind \in DOMAIN Forms /\ ~About(post.kind).readsPage => post.name = post.seen

\* A form posts the name it shows: whatever was hidden by the cross before, or opened
\* twice, when it looks for its fields in itself, as those of requests do; when it looks
\* for them in the page, where a hidden form has fields of the same id, as long as
\* forms are opened one by one and left by their buttons.
PostsWhatIsShown == PostedTidily /\ PostedByOwnFields
================================================================================
