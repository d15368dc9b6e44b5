----------------------------- MODULE StudioPage -----------------------------
(***************************************************************************)
(* The page (studio.js) with its run list, selection, order form and       *)
(* decision buttons, against the UI server's list of runs (server.py) and  *)
(* the gates of the orders.  init, startOrder and decide are coroutines:   *)
(* between a request and its answer the person may select another run,     *)
(* decide there, start an order, or reload the page; an order may even be  *)
(* started while init still awaits the list of runs.                       *)
(***************************************************************************)
EXTENDS Naturals, Sequences, SequencesExt

CONSTANTS
    Orders,      \* order ids, 1, 2, ... in the order in which they are drawn
    Gated,       \* the orders among them that come to a gate
    Clicks,      \* clicks on Approve or Reject, 1, 2, ... as they are made
    Keep,        \* 25: runs the server, the page and its storage keep
    MaxReloads,  \* bounds how often the page is loaded again
    MaxRestarts, \* bounds how often the UI server is restarted
    None         \* no order, no click

ASSUME StudioAssumption ==
    /\ Orders \subseteq Nat /\ Gated \subseteq Orders /\ Clicks \subseteq Nat
    /\ Keep \in Nat \ {0} /\ MaxReloads \in Nat /\ MaxRestarts \in Nat
    /\ None \notin Orders \cup Clicks

VARIABLES
    born,      \* the orders in the order in which the server started them
    gate,      \* gate[o]: "unborn", "before" its gate or without one, "open", "over"
    recorded,  \* recorded[o]: the click whose decision the gate took
    server,    \* app.state.runs
    store,     \* the run list in localStorage
    page,      \* what init has: "loading" nothing, "listing" its configuration,
               \* "listed" the server's answer, "ready" all of it; or it ended as
               \* "broken" without a configuration or "unlisted" without a list
    stored,    \* the list that init read from the storage
    listed,    \* the list that the server answered init with
    runs,      \* the page's run list, newest first
    selected,  \* selectedId
    shown,     \* the runs that were waiting at their gate when last loaded
    loading,   \* startOrder is under way
    disabled,  \* the button that starts an order is out of use
    starting,  \* the order that startOrder awaits the answer for
    early,     \* history: the last order was asked for before the list was there
    inbound,   \* start requests on their way to the server
    click,     \* click[c]: the run it is for, and where decide() is
    busy,      \* decisionBusy
    sent,      \* decisionSent
    feedback,  \* what #decision-feedback says, and of which run
    reloads, restarts

orderVars == <<gate, recorded>>
listVars  == <<runs, selected, store>>
loadVars  == <<page, stored, listed>>
formVars  == <<loading, disabled, starting, early>>
startVars == <<formVars, inbound>>
clickVars == <<click, busy, sent>>
counts    == <<reloads, restarts>>
vars == <<born, orderVars, server, loadVars, listVars, shown, startVars, clickVars, feedback, counts>>

Silent == [run |-> None, text |-> "none"]
Unused == [run |-> None, at |-> "unused"]
Done   == [run |-> None, at |-> "done"]

Init ==
    /\ born = <<>>
    /\ gate = [o \in Orders |-> "unborn"]
    /\ recorded = [o \in Orders |-> None]
    /\ server = <<>> /\ store = <<>>
    /\ page = "loading" /\ stored = <<>> /\ listed = <<>>
    /\ runs = <<>> /\ selected = None
    /\ shown = {}
    /\ loading = FALSE /\ disabled = FALSE /\ starting = None /\ early = FALSE
    /\ inbound = {}
    /\ click = [c \in Clicks |-> Unused]
    /\ busy = FALSE /\ sent = {}
    /\ feedback = Silent
    /\ reloads = 0 /\ restarts = 0

-----------------------------------------------------------------------------

FirstOf(list, n) == SubSeq(list, 1, IF Len(list) < n THEN Len(list) ELSE n)
Newest(list) == FirstOf(list, Keep)

\* A run is listed once, and only as far as there is room.
Listed(list, o) == IF o \in Range(list) \/ Len(list) = Keep THEN list ELSE Append(list, o)

\* init's loop over the runs that it was given, after those of the page.
Merged(list, entries) ==
    LET taken[i \in 0..Len(entries)] ==
            IF i = 0 THEN list ELSE Listed(taken[i - 1], entries[i])
    IN  taken[Len(entries)]

\* renderApproval: the panel of a run whose gate is shown open repeats that a
\* decision was sent; otherwise the feedback stays what the caller left.
Rendered(run, waiting, left) ==
    IF run \in sent \cap waiting THEN [run |-> run, text |-> "sent"]
    ELSE left

\* What the page has already, the server's runs, then the stored ones.
MergedRuns == Merged(runs, listed \o stored)

\* init's first answer: orders can be started from here on.  The storage is read
\* now, the list is asked for.
MetaArrives ==
    /\ page = "loading"
    /\ page' = "listing"
    /\ stored' = store
    /\ UNCHANGED <<born, orderVars, server, listed, listVars, shown, startVars, clickVars,
                   feedback, counts>>

\* The server answers with its list.
ServerLists ==
    /\ page = "listing"
    /\ page' = "listed"
    /\ listed' = server
    /\ UNCHANGED <<born, orderVars, server, stored, listVars, shown, startVars, clickVars,
                   feedback, counts>>

\* init goes on with the list: some run is selected, the first one or the one the
\* address names, whatever was selected meanwhile and whatever is said of it.
ListArrives ==
    /\ page = "listed"
    /\ page' = "ready"
    /\ runs' = MergedRuns
    /\ selected' \in IF runs' = <<>> THEN {None} ELSE Range(runs')
    /\ store' = runs'
    /\ feedback' = Rendered(selected', shown, feedback)
    /\ stored' = <<>> /\ listed' = <<>>
    /\ UNCHANGED <<born, orderVars, server, shown, startVars, clickVars, counts>>

\* init fails before its configuration: nothing can be started.
MetaFails ==
    /\ page = "loading"
    /\ page' = "broken"
    /\ disabled' = TRUE
    /\ UNCHANGED <<born, orderVars, server, stored, listed, listVars, shown, loading, starting,
                   early, inbound, clickVars, feedback, counts>>

\* init fails before its list.
NoList ==
    /\ page \in {"listing", "listed"}
    /\ page' = "unlisted"
    /\ disabled' = TRUE
    /\ feedback' = Rendered(selected, shown, feedback)
    /\ stored' = <<>> /\ listed' = <<>>
    /\ UNCHANGED <<born, orderVars, server, runs, selected, shown, loading, starting, early,
                   inbound, clickVars, counts>>

\* Fault: the list is saved whether or not it could be read.
ListFailsAndSaves == NoList /\ store' = runs
\* The button is out of use, what is stored stays.
ListFails == NoList /\ store' = store

\* The page no longer waits; a decision under way may still be taken.
Abandoned(c) ==
    IF click[c].at \in {"posted", "orphan"} THEN [click[c] EXCEPT !.at = "orphan"] ELSE Done

\* A reload ends every coroutine of the page; requests under way go on.
Reload ==
    /\ reloads < MaxReloads
    /\ reloads' = reloads + 1
    /\ page' = "loading" /\ stored' = <<>> /\ listed' = <<>>
    /\ runs' = <<>> /\ selected' = None
    /\ shown' = {}
    /\ loading' = FALSE /\ disabled' = FALSE /\ starting' = None /\ early' = FALSE
    /\ click' = [c \in Clicks |->
          IF click[c] = Unused THEN Unused ELSE Abandoned(c)]
    /\ busy' = FALSE /\ sent' = {}
    /\ feedback' = Silent
    /\ UNCHANGED <<born, orderVars, server, store, inbound, restarts>>

-----------------------------------------------------------------------------
(* Starting orders.                                                        *)

\* startOrder: one at a time, with a configuration; the server will draw a new id.
StartOrder(o) ==
    /\ page \notin {"loading", "broken"}
    /\ ~loading /\ ~disabled
    /\ gate[o] = "unborn" /\ o \notin inbound
    /\ \A p \in Orders : p < o => gate[p] # "unborn" \/ p \in inbound
    /\ loading' = TRUE
    /\ starting' = o
    /\ early' = (page # "ready")
    /\ inbound' = inbound \cup {o}
    /\ UNCHANGED <<born, orderVars, server, loadVars, listVars, shown, disabled, clickVars,
                   feedback, counts>>

\* start_order at the server.
ServerStarts(o) ==
    /\ o \in inbound
    /\ inbound' = inbound \ {o}
    /\ gate' = [gate EXCEPT ![o] = "before"]
    /\ born' = Append(born, o)
    /\ server' = Newest(<<o>> \o server)
    /\ UNCHANGED <<recorded, loadVars, listVars, shown, formVars, clickVars, feedback, counts>>

\* The order comes first, then the first 24 of the others, nothing twice.
Fronted(o, list) == Merged(<<o>>, FirstOf(list, Keep - 1))

\* The answer: the order is listed first, selected and saved, and poll is awaited.
Started(o) ==
    /\ starting = o /\ gate[o] # "unborn"
    /\ starting' = None
    /\ runs' = Fronted(o, runs)
    /\ selected' = o
    /\ shown' = shown \cap Range(runs')
    /\ store' = runs'
    /\ feedback' = Rendered(o, shown', Silent)
    /\ UNCHANGED <<born, orderVars, server, loadVars, loading, disabled, early, inbound,
                   clickVars, counts>>

\* startOrder's end puts the button back to use, also if init put it out of use.
StartOver ==
    /\ loading' = FALSE
    /\ disabled' = FALSE

\* The poll that startOrder awaits is over.
StartPolled ==
    /\ loading /\ starting = None
    /\ StartOver
    /\ UNCHANGED <<born, orderVars, server, loadVars, listVars, shown, starting, early, inbound,
                   clickVars, feedback, counts>>

\* An error or no answer in time; the server may start the order all the same,
\* now or later.
StartFails(o) ==
    /\ starting = o
    /\ starting' = None
    /\ StartOver
    /\ UNCHANGED <<born, orderVars, server, loadVars, listVars, shown, early, inbound,
                   clickVars, feedback, counts>>

ServerRestarts ==
    /\ restarts < MaxRestarts
    /\ restarts' = restarts + 1
    /\ server' = <<>>
    /\ UNCHANGED <<born, orderVars, loadVars, listVars, shown, startVars, clickVars, feedback, reloads>>

-----------------------------------------------------------------------------
(* Following orders and deciding.                                          *)

\* The order reaches its gate, or gets past it without this page; one without a
\* gate looks the same to the end.
OrderMoves(o) ==
    /\ o \in Gated
    /\ \/ gate[o] = "before" /\ gate' = [gate EXCEPT ![o] = "open"]
       \/ gate[o] = "open" /\ gate' = [gate EXCEPT ![o] = "over"]
    /\ UNCHANGED <<born, recorded, server, loadVars, listVars, shown, startVars, clickVars, feedback,
                   counts>>

\* The answer of poll for one of the runs listed.
Refresh(o) ==
    /\ o \in Range(runs)
    /\ shown' = IF gate[o] = "open" THEN shown \cup {o} ELSE shown \ {o}
    /\ feedback' = Rendered(selected, shown', feedback)
    /\ UNCHANGED <<born, orderVars, server, loadVars, listVars, startVars, clickVars, counts>>

\* selectRun, which also lets go of a decision under way.
Select(o) ==
    /\ o \in Range(runs)
    /\ selected' = o
    /\ busy' = FALSE
    /\ feedback' = Rendered(o, shown, Silent)
    /\ UNCHANGED <<born, orderVars, server, loadVars, runs, store, shown, startVars, click, sent,
                   counts>>

\* decide, up to its request.
Decide(c) ==
    /\ selected \in shown
    /\ ~busy /\ selected \notin sent
    /\ click[c] = Unused /\ \A d \in Clicks : d < c => click[d] # Unused
    /\ click' = [click EXCEPT ![c] = [run |-> selected, at |-> "posted"]]
    /\ busy' = TRUE
    /\ feedback' = Silent
    /\ UNCHANGED <<born, orderVars, server, loadVars, listVars, shown, startVars, sent, counts>>

Outcome(c, result) ==
    click' = [click EXCEPT ![c] = IF @.at = "posted" THEN [@ EXCEPT !.at = result] ELSE Done]

\* Fault: the update has no validator.
ServerTakesAny(c) ==
    /\ click[c].at \in {"posted", "orphan"}
    /\ recorded' = [recorded EXCEPT ![click[c].run] = c]
    /\ gate' = [gate EXCEPT ![click[c].run] = "over"]
    /\ Outcome(c, "ok")
    /\ UNCHANGED <<born, server, loadVars, listVars, shown, startVars, busy, sent, feedback, counts>>
\* The decision endpoint: the open gate takes it, otherwise it is an error.
ServerDecides(c) ==
    /\ click[c].at \in {"posted", "orphan"}
    /\ LET o == click[c].run IN
       \/ /\ gate[o] = "open"
          /\ recorded' = [recorded EXCEPT ![o] = c]
          /\ gate' = [gate EXCEPT ![o] = "over"]
          /\ Outcome(c, "ok")
       \/ /\ gate[o] # "open"
          /\ Outcome(c, "error")
          /\ UNCHANGED orderVars
    /\ UNCHANGED <<born, server, loadVars, listVars, shown, startVars, busy, sent, feedback, counts>>

\* Fault: the feedback is shown whatever run is selected by now.
SaysAnywhere(c, text) == [run |-> click[c].run, text |-> text]
\* decide speaks only of the run that is selected.
Says(c, text) ==
    IF selected = click[c].run THEN [run |-> selected, text |-> text] ELSE feedback

\* A good answer: the run counts as decided, and poll is awaited.
DecisionSent(c) ==
    /\ click[c].at = "ok"
    /\ click' = [click EXCEPT ![c].at = "polling"]
    /\ sent' = sent \cup {click[c].run}
    /\ feedback' = Says(c, "sent")
    /\ UNCHANGED <<born, orderVars, server, loadVars, listVars, shown, startVars, busy, counts>>

\* The poll that decide awaits is over, or another one was under way.
DecisionPolled(c) ==
    /\ click[c].at = "polling"
    /\ click' = [click EXCEPT ![c] = Done]
    /\ busy' = FALSE
    /\ feedback' = Rendered(selected, shown, feedback)
    /\ UNCHANGED <<born, orderVars, server, loadVars, listVars, shown, startVars, sent, counts>>

\* An error, or no answer in time: the decision may have been taken, or still be.
DecisionFails(c) ==
    /\ click[c].at \in {"posted", "ok", "error"}
    /\ click' = [click EXCEPT ![c] = Abandoned(c)]
    /\ busy' = FALSE
    /\ feedback' = Rendered(selected, shown, Says(c, "error"))
    /\ UNCHANGED <<born, orderVars, server, loadVars, listVars, shown, startVars, sent, counts>>

-----------------------------------------------------------------------------

Answered(c) == DecisionSent(c) \/ DecisionPolled(c) \/ DecisionFails(c)

Next ==
    \/ MetaArrives \/ ServerLists \/ ListArrives \/ MetaFails \/ ListFails
    \/ Reload \/ ServerRestarts \/ StartPolled
    \/ \E o \in Orders : \/ StartOrder(o) \/ ServerStarts(o) \/ Started(o) \/ StartFails(o)
                         \/ OrderMoves(o) \/ Refresh(o) \/ Select(o)
    \/ \E c \in Clicks : Decide(c) \/ ServerDecides(c) \/ Answered(c)

Spec == Init /\ [][Next]_vars

-----------------------------------------------------------------------------
(* Properties                                                              *)

Lists == BoundedSeq(Orders, Keep)
Gates == {"unborn", "before", "open", "over"}

\* The types of the variables; the lists are bounded and repeat nothing.
TypeOK ==
    /\ born \in Seq(Orders) /\ IsInjective(born)
    /\ gate \in [Orders -> Gates]
    /\ recorded \in [Orders -> Clicks \cup {None}]
    /\ server \in Lists /\ store \in Lists /\ runs \in Lists
    /\ IsInjective(server) /\ IsInjective(store) /\ IsInjective(runs)
    /\ page \in {"loading", "listing", "listed", "ready", "broken", "unlisted"}
    /\ stored \in Lists /\ listed \in Lists
    /\ IsInjective(stored) /\ IsInjective(listed)
    /\ selected \in Orders \cup {None}
    /\ shown \subseteq Orders
    /\ loading \in BOOLEAN /\ disabled \in BOOLEAN /\ early \in BOOLEAN
    /\ starting \in Orders \cup {None} /\ inbound \subseteq Orders
    /\ click \in [Clicks -> [run : Orders \cup {None},
                             at : {"unused", "posted", "orphan", "ok", "error", "polling", "done"}]]
    /\ busy \in BOOLEAN /\ sent \subseteq Orders
    /\ feedback \in [run : Orders \cup {None}, text : {"none", "sent", "error"}]
    /\ reloads \in 0..MaxReloads /\ restarts \in 0..MaxRestarts

\* What the page says was sent, and what it remembers as sent, was recorded by
\* the gate of that order.
SaidIsTrue ==
    /\ feedback.text = "sent" => recorded[feedback.run] # None
    /\ \A o \in sent : recorded[o] # None

\* What is said next to the buttons is about the run that is shown.
SaidOfTheShown == feedback.run \in {None, selected}

\* The list comes to a page on which an order was started meanwhile.
ListComesLate == page = "listed" /\ page' = "ready" /\ runs # <<>>

\* The feedback is true of the run it was given for; and it is about the run that
\* the page shows, whatever was selected since the click, unless init's list came
\* late and has moved the selection: no other step leaves it beside another run.
FeedbackIsTrue ==
    /\ []SaidIsTrue
    /\ [][SaidOfTheShown => SaidOfTheShown' \/ ListComesLate]_vars

\* Letting go of a decision under way lets a second one out for the same run;
\* still the gate keeps the first it took, and only that click is told so.
OneDecisionCounts ==
    /\ \A c \in Clicks : click[c].at \in {"ok", "polling"} => recorded[click[c].run] = c
    /\ \A c, d \in Clicks :
          click[c].at = "ok" /\ click[d].at \in {"ok", "polling"} /\ c # d =>
              click[c].run # click[d].run

\* The server started p after o.
Younger(p, o) == \E i, j \in DOMAIN born : i < j /\ born[i] = o /\ born[j] = p

NewestFirst(list) == \A i, j \in DOMAIN list : i < j => Younger(list[i], list[j])

\* Unless the page asked for its last order before its list was there, a run
\* leaves the browser's storage only for want of room, and then only the kept ones
\* are newer, across reloads, failed loads and restarts of the server that forget
\* its own list.  And even a list that comes late loses nothing that init had read
\* from the storage but for want of room.
StoreKeepsNewest ==
    [][LET gone == Range(store) \ Range(store') IN
       /\ ~early =>
             /\ gone # {} => Len(store') = Keep
             /\ NewestFirst(store) =>
                   /\ NewestFirst(store')
                   /\ \A o \in gone, p \in Range(store') : Younger(p, o)
       /\ ListArrives /\ ~(Range(stored) \subseteq Range(store')) => Len(store') = Keep
      ]_store
=============================================================================
