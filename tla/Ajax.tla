--------------------------------- MODULE Ajax ---------------------------------
(***************************************************************************)
(* The calls a page makes to the server (lib/ajax.js) and the indicators   *)
(* that show them.  A page uses a few connections at once; the server      *)
(* serves the calls in any order, their answers arrive in any order, and a *)
(* call may be lost before or after it was served.                         *)
(***************************************************************************)
CONSTANT Connection   \* bound on the calls in flight

VARIABLE calls        \* the call on each connection

Outcome == {"pending", "ok", "refused", "lost"}
NoCall == [method |-> "NONE"]

Free(c)     == calls[c] = NoCall
InFlight(c) == calls[c] # NoCall

\* A call with its arguments is a record of the page's own.
Call(method, about) == [method |-> method, outcome |-> "pending", about |-> about]
Get(about)    == Call("GET", about)
Put(about)    == Call("PUT", about)
Post(about)   == Call("POST", about)
Del(about)    == Call("DELETE", about)

Is(c, method) == InFlight(c) /\ calls[c].method = method
About(c)      == calls[c].about
Reached(c, outcome) == InFlight(c) /\ calls[c].outcome = outcome

\* The first free connection takes the call.
Send(call) ==
  LET c == CHOOSE d \in Connection : Free(d)
  IN  /\ \E d \in Connection : Free(d)
      /\ calls' = [calls EXCEPT ![c] = call]

Serve(c, outcome) == calls' = [calls EXCEPT ![c].outcome = outcome]
Return(c)         == calls' = [calls EXCEPT ![c] = NoCall]

\* The network or the server fails: the page never learns whether the call was
\* served.
Lose(c) ==
  /\ Reached(c, "pending") \/ Reached(c, "ok")
  /\ Serve(c, "lost")

-----------------------------------------------------------------------------
(* Loading indicators.  An element has the class disabled or not, holds loaders
   or not, and is visible or not.                                            *)

Mode == {"append", "appendText", "container", "toggle", "none"}

Element == [disabled : BOOLEAN, loading : BOOLEAN, visible : BOOLEAN]
Plain == [disabled |-> FALSE, loading |-> FALSE, visible |-> TRUE]

\* Every call adds a loader; the first answer removes them all.
ShowLoading(el, mode, show) ==
  CASE mode \in {"append", "appendText"} ->
         [el EXCEPT !.disabled = show, !.loading = show]
    [] mode = "container" -> [el EXCEPT !.loading = show]
    [] mode = "toggle"    -> [el EXCEPT !.visible = show]
    [] mode = "none"      -> el

-----------------------------------------------------------------------------
\* getAjaxError has a text for an answer of the server.  Without one (status 0)
\* it calls loc, which is no global function, and raises an exception.
HasMessage(outcome) == outcome = "refused"
===============================================================================
