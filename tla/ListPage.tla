-------------------------------- MODULE ListPage --------------------------------
(***************************************************************************)
(* A dynamic section of a page (lib/dynamic.js, lib/render.js): a list     *)
(* that the page loads from the server and shows as a table.  The page     *)
(* asks for the lists of events and of requests page by page, newest       *)
(* first.  The server does so for requests only: the queries of the events *)
(* (SQL.java:38-39) have no limit and no offset, and each answer is the    *)
(* whole list.  The other lists are asked for as a whole, and the list of  *)
(* authorizations (controller/acl-project.js) is loaded again after each   *)
(* deletion.  Meanwhile other users change the list.                       *)
(***************************************************************************)
EXTENDS Ajax, Naturals, Sequences, FiniteSets, SequencesExt

CONSTANTS
  Item,
  PageSize,       \* config.count
  MaxPending,     \* bound on the pages that wait for their template
  MaxOffset       \* bound on the offset of the pages the user asks for

ASSUME ListAssumption == PageSize \in Nat \ {0}

VARIABLES
  more,           \* config.more: the page asks for the list page by page
  paged,          \* and the query of the server takes the offset and the count
  listing,        \* the list, on the server
  started,        \* the template of the section is in the page
  offset,         \* config.offset
  rendering,      \* pages that wait for the template of their rows
  rows,           \* rows of the table; without rows there is no table
  handlers,       \* number of click handlers on the button of each row
  moreShown,      \* the button for the next page is visible
  section,        \* the loading indicator
  error,          \* the message of the section is visible
  clean,          \* history: each load succeeded, page by page before the next one was
                  \* sent and from a list that had not changed, as a whole not after a
                  \* newer one and from a list that had not grown
  older,          \* history: reloads in flight after which another one was sent
  confirmed       \* history: items whose deletion was confirmed to the page

listVars == <<calls, more, paged, listing, started, offset, rendering, rows, handlers,
              moreShown, section, error, clean, older, confirmed>>

Listing == UNION {[1 .. n -> Item] : n \in 0 .. Cardinality(Item)}
Items(s) == {s[i] : i \in 1 .. Len(s)}

LoadAbout == [append : BOOLEAN, offset : Nat, items : Seq(Item)]
LoadCall == [method : {"GET"}, outcome : Outcome, about : LoadAbout]
DeleteCall == [method : {"DELETE"}, outcome : Outcome, about : [item : Item]]
PendingPage == [append : BOOLEAN, items : Seq(Item)]

ListTypeOK ==
  /\ calls \in [Connection -> {NoCall} \cup LoadCall \cup DeleteCall]
  /\ {more, paged, started, moreShown, error, clean} \subseteq BOOLEAN
  /\ paged => more
  /\ listing \in Seq(Item)
  /\ offset \in Nat
  /\ rendering \in Seq(PendingPage)
  /\ rows \in Seq(Item) /\ handlers \in Seq(Nat) /\ Len(handlers) = Len(rows)
  /\ section \in Element
  /\ older \subseteq Connection
  /\ confirmed \subseteq Item

ListInit ==
  /\ calls = [c \in Connection |-> NoCall]
  /\ more \in BOOLEAN /\ paged \in BOOLEAN /\ (paged => more)
  /\ listing \in {s \in Listing : Cardinality(Items(s)) = Len(s)}
  /\ started = FALSE
  /\ offset = 0
  /\ rendering = <<>> /\ rows = <<>> /\ handlers = <<>>
  /\ moreShown = FALSE
  /\ section = Plain
  /\ error = FALSE
  /\ clean = TRUE
  /\ older = {}
  /\ confirmed = {}

-----------------------------------------------------------------------------
Loading == {c \in Connection : Is(c, "GET")}

\* load: the offset is the one of the time the call is sent.
Load(append, from) == Get([append |-> append, offset |-> from, items |-> <<>>])
ShowLoad ==
  /\ error' = FALSE
  /\ section' = ShowLoading(section, "container", TRUE)

\* init: the section is in the page, and loads its first page.
Start ==
  /\ ~started
  /\ started' = TRUE
  /\ Send(Load(FALSE, 0))
  /\ ShowLoad
  /\ UNCHANGED <<more, paged, listing, offset, rendering, rows, handlers, moreShown,
                 clean, older, confirmed>>

\* The button stays active while a page is being loaded.
ClickMore ==
  /\ moreShown /\ offset <= MaxOffset
  /\ Send(Load(TRUE, offset))
  /\ ShowLoad
  /\ clean' = (clean /\ Loading = {})
  /\ UNCHANGED <<more, paged, listing, started, offset, rendering, rows, handlers, moreShown,
                 older, confirmed>>

\* Mutant: no query takes the offset and the count.
PageIgnored(from) == listing

\* The events come whole, at every offset.
Page(from) == IF paged THEN SubSeq(listing, from + 1, IF from + PageSize < Len(listing)
                                                     THEN from + PageSize ELSE Len(listing))
                       ELSE listing

ServeLoad(c) ==
  /\ Is(c, "GET") /\ Reached(c, "pending")
  /\ \/ calls' = [calls EXCEPT ![c].outcome = "ok", ![c].about.items = Page(About(c).offset)]
     \/ Serve(c, "refused")
  /\ UNCHANGED <<more, paged, listing, started, offset, rendering, rows, handlers, moreShown,
                 section, error, clean, older, confirmed>>

\* Mutant: the offset moves by whole pages.
NextOffsetByPages(items) == offset + PageSize

NextOffset(items) == offset + Len(items)

\* Mutant: a full page is taken for the last one.
HasMoreBeyond(items) == Len(items) > PageSize

HasMore(items) == Len(items) >= PageSize

\* A reload that was overtaken: the newest one has been answered.
Overtaken(c) == c \in older /\ Loading \subseteq older

\* display, then moreStatus: the rows wait for their template, the button does not.
Loaded(c) ==
  /\ Is(c, "GET") /\ Reached(c, "ok")
  /\ Len(rendering) < MaxPending
  /\ Return(c)
  /\ LET page == About(c) IN
     /\ rendering' = Append(rendering, [append |-> page.append, items |-> page.items])
     /\ IF more
        THEN offset' = NextOffset(page.items) /\ moreShown' = HasMore(page.items)
        ELSE UNCHANGED <<offset, moreShown>>
  /\ section' = ShowLoading(section, "container", FALSE)
  /\ clean' = (clean /\ ~Overtaken(c)) /\ older' = older \ {c}
  /\ UNCHANGED <<more, paged, listing, started, rows, handlers, error, confirmed>>

\* Mutant: the new rows go to the end of the table whenever there is one.
KeptAlways(page) == rows # <<>>

\* tableInto: rows are added to an existing table only.
Kept(page) == page.append /\ rows # <<>>

One(s) == [i \in 1 .. Len(s) |-> 1]

\* Mutant: the rows that were there are forgotten.
BoundNewOnly(page) == One(page.items)

\* The callback of a rendering adds a handler to every button of the list, those
\* of the rows that were there included.
Bound(page) ==
  IF Kept(page) THEN [i \in 1 .. Len(rows) |-> handlers[i] + 1] \o One(page.items)
                ELSE One(page.items)

Render ==
  /\ rendering # <<>>
  /\ LET page == Head(rendering)
     IN  /\ rows' = IF Kept(page) THEN rows \o page.items ELSE page.items
         /\ handlers' = Bound(page)
  /\ rendering' = Tail(rendering)
  /\ UNCHANGED <<calls, more, paged, listing, started, offset, moreShown, section, error,
                 clean, older, confirmed>>

\* acl-project: there is no confirmation, and the row stays in the page.
Delete(i) ==
  /\ ~more /\ i \in 1 .. Len(rows)
  /\ Send(Del([item |-> rows[i]]))
  /\ UNCHANGED <<more, paged, listing, started, offset, rendering, rows, handlers, moreShown,
                 section, error, clean, older, confirmed>>

Without(item) == RemoveFirst(listing, item)

\* Deleting what is no longer there is no error.
ServeDelete(c) ==
  /\ Is(c, "DELETE") /\ Reached(c, "pending")
  /\ listing' = Without(About(c).item)
  /\ Serve(c, "ok")
  /\ UNCHANGED <<more, paged, started, offset, rendering, rows, handlers, moreShown,
                 section, error, clean, older, confirmed>>

\* Mutant: nothing is sent while the list is being loaded.
ReloadOnce(c) ==
  /\ \/ Loading = {} /\ calls' = [calls EXCEPT ![c] = Load(FALSE, 0)]
     \/ Loading # {} /\ Return(c)
  /\ UNCHANGED older

Reload(c) ==
  /\ calls' = [calls EXCEPT ![c] = Load(FALSE, 0)]
  /\ older' = older \cup Loading

\* reloadSection: the call that reloads the list is sent at once.
Deleted(c) ==
  /\ Is(c, "DELETE") /\ Reached(c, "ok")
  /\ Reload(c)
  /\ offset' = 0
  /\ ShowLoad
  /\ confirmed' = confirmed \cup {About(c).item}
  /\ UNCHANGED <<more, paged, listing, started, rendering, rows, handlers, moreShown, clean>>

\* A load that fails shows its message in the section, when there is one.
Failed(c) ==
  /\ Reached(c, "refused") \/ Reached(c, "lost")
  /\ Return(c) /\ older' = older \ {c}
  /\ IF Is(c, "GET")
     THEN /\ section' = ShowLoading(section, "container", FALSE)
          /\ error' = (error \/ HasMessage(calls[c].outcome))
          /\ clean' = FALSE
     ELSE UNCHANGED <<section, error, clean>>
  /\ UNCHANGED <<more, paged, listing, started, offset, rendering, rows, handlers, moreShown,
                 confirmed>>

LoseCall(c) ==
  /\ Lose(c)
  /\ UNCHANGED <<more, paged, listing, started, offset, rendering, rows, handlers, moreShown,
                 section, error, clean, older, confirmed>>

\* Other users add an item at the top of the list, or delete one.
Change(changed) ==
  /\ listing' = changed
  /\ UNCHANGED <<calls, more, paged, started, offset, rendering, rows, handlers, moreShown,
                 section, error, older, confirmed>>

OtherAdds(item) ==
  /\ item \notin Items(listing) \cup Items(rows)
  /\ Change(<<item>> \o listing)
  /\ clean' = (clean /\ ~started)

OtherDeletes(item) ==
  /\ item \in Items(listing)
  /\ Change(Without(item))
  /\ clean' = (clean /\ ~(more /\ started))

ListNext ==
  \/ Start \/ ClickMore \/ Render
  \/ \E c \in Connection :
       \/ ServeLoad(c) \/ Loaded(c) \/ ServeDelete(c) \/ Deleted(c) \/ Failed(c) \/ LoseCall(c)
  \/ \E i \in 1 .. Len(rows) : Delete(i)
  \/ \E item \in Item : OtherAdds(item) \/ OtherDeletes(item)

\* Each call is answered or found lost, and the page shows what it got.
ListFairness ==
  /\ WF_listVars(Render)
  /\ \A c \in Connection :
       WF_listVars(ServeLoad(c) \/ Loaded(c) \/ ServeDelete(c) \/ Deleted(c) \/ Failed(c))

ListSpec == ListInit /\ [][ListNext]_listVars /\ ListFairness

-----------------------------------------------------------------------------
\* All the rows the page has received.
Received == rows \o FlattenSeq([i \in 1 .. Len(rendering) |-> rendering[i].items])

\* The offset of the next page counts the rows the page has received, however
\* often the user asks for it, and whatever changes on the server meanwhile.
OffsetCountsRows == more => offset = Len(Received)

\* The pages of a list of requests, asked for one at a time, follow one another: no
\* item of an unchanged list is lost or shown twice.  In a list of events each of
\* them comes again with every click.
PagesFollow == paged /\ clean => IsPrefix(Received, listing)

\* The button for the next page goes away only when the page has received the whole
\* list, page by page (requests) or at once (events).
NothingOutOfReach ==
  more /\ clean /\ Received # <<>> /\ Loading = {} /\ ~moreShown => Received = listing

\* In a list that is loaded as a whole, a click on the button of a row deletes it
\* once, however often the list was loaded again.
OneHandlerPerButton == ~more => \A i \in 1 .. Len(handlers) : handlers[i] = 1

\* An item whose deletion was confirmed leaves the page, whatever deletions and
\* reloads follow one another, unless an overtaken reload is shown last or one fails.
ConfirmedDisappear ==
  \A item \in Item : item \in confirmed \cap Items(rows) ~>
                      item \notin confirmed \cap Items(rows) \/ ~clean
================================================================================
