--------------------------- MODULE AttentionStream ---------------------------
(***************************************************************************)
(* The attention inbox of one open page, kept live. A write lands in the   *)
(* store and is published afterwards, if the publish gets through; events  *)
(* reach the org's hub in any order, the hub sends each to the page's      *)
(* subscription if there is one, and the page sets what it hears beside    *)
(* what it fetches, by the stamp of each row. A lost subscription ends the *)
(* stream, and the page reconnects and fetches again.                      *)
(*                                                                         *)
(* An event that goes astray, or a queue that another refresh took away,   *)
(* is gone for good until the next fetch. Three history variables keep the *)
(* asks it may concern, and nothing the page does reads them.              *)
(***************************************************************************)
EXTENDS Naturals, Sequences, FiniteSetsExt

CONSTANTS
  Asks,       \* the asks that concern the person looking
  Writers,    \* handlers that may write at one time
  Fetches,    \* fetches that may be in flight at one time
  Stamps,     \* times a handler may read
  MaxWrites,  \* bound on the writes
  MaxFaults   \* bound on lost connections, failed fetches, reloads and evictions

None == "none"

ASSUME FetchesAssumption == Fetches # {} /\ None \notin Fetches
ASSUME StampsAssumption == Stamps \subseteq Nat \ {0}

VARIABLES
  row,       \* each ask in the store
  job,       \* what each writing handler is doing
  writes, faults,
  wire,      \* events published and not yet at the hub
  sub,       \* the page's subscription at the hub
  pipe,      \* events on their way from the hub to the page
  conn,      \* the page's event source
  attached,  \* whether it has been open before
  listed,    \* the asks on the page
  seen,      \* the newest version of each ask the page has applied
  fetch,     \* its fetches in flight
  raced,     \* the fetch whose queue takes the events that arrive, or None
  failed,    \* whether the last fetch failed
  missed,    \* history: the newest version of each ask whose event went astray
  doubt,     \* history: asks of which an event went astray, and no fetch since made up for it
  unordered  \* history: asks stamped out of turn, or that the ledger forgot

store == <<row, job, writes, wire>>
stream == <<sub, pipe, conn, attached>>
page == <<listed, seen, fetch, raced, failed>>
history == <<missed, doubt, unordered>>
vars == <<store, stream, page, history, faults>>

Statuses == {"unraised", "raised", "answered", "declined", "over"}
Rows == [ask : Asks, status : Statuses, at : {0} \cup Stamps, ver : 0 .. MaxWrites]
Unraised(a) == [ask |-> a, status |-> "unraised", at |-> 0, ver |-> 0]
IdleJob == [at |-> "idle"]
NoFetch == [at |-> "none"]
\* `lost' is history: asks with an event since the answer that the queue does not hold.
Sent == [at |-> "sent", answer |-> {}, queue |-> <<>>, lost |-> {}]
AnyOf(fetches) == CHOOSE f \in fetches : TRUE
Unseen == [at |-> 0, closed |-> FALSE]

\* An ask belongs on the list while it is open and its reader has not declined.
ListedFor(r) == r.status \in {"raised", "answered"}
StoreList == {a \in Asks : ListedFor(row[a])}

-----------------------------------------------------------------------------
\* The ledger of attentionOrder.ts: what is older than the newest seen. Of two
\* rows with one stamp, only the open one after a closed one is.

\* MUTANT: rows of one stamp are all the same.
StaleByStamp(ledger, r) == ledger[r.ask].at > r.at
Stale(ledger, r) ==
  LET last == ledger[r.ask]
  IN  \/ r.at < last.at
      \/ r.at = last.at /\ r.status # "over" /\ last.closed
Remember(ledger, r) ==
  IF Stale(ledger, r) THEN ledger
  ELSE [ledger EXCEPT ![r.ask] = [at |-> r.at, closed |-> r.status = "over"]]

\* A page's list and ledger once an event, or each of some events, has been applied.
Apply(view, r) ==
  IF Stale(view.seen, r) THEN view
  ELSE [seen |-> Remember(view.seen, r),
        list |-> IF ListedFor(r) THEN view.list \cup {r.ask} ELSE view.list \ {r.ask}]
ApplyAll(view, events) ==
  LET after[n \in 0 .. Len(events)] ==
        IF n = 0 THEN view ELSE Apply(after[n - 1], events[n])
  IN  after[Len(events)]

\* MUTANT: what arrived during the fetch is not applied again.
MergedAlone(ledger, answer, queue) ==
  [list |-> {r.ask : r \in {q \in answer : ListedFor(q) /\ ~Stale(ledger, q)}},
   seen |-> [a \in Asks |->
               IF \E r \in answer : r.ask = a
               THEN Remember(ledger, CHOOSE r \in answer : r.ask = a)[a] ELSE ledger[a]]]

\* The answer of a fetch set over the page, less what the page is ahead of, and
\* the events that arrived meanwhile on top.
Merged(ledger, answer, queue) ==
  LET fetched == {q \in answer : ListedFor(q) /\ ~Stale(ledger, q)}
      known == [a \in Asks |->
                  IF \E r \in answer : r.ask = a
                  THEN Remember(ledger, CHOOSE r \in answer : r.ask = a)[a] ELSE ledger[a]]
  IN  ApplyAll([list |-> {r.ask : r \in fetched}, seen |-> known], queue)

-----------------------------------------------------------------------------
\* The page comes up, opening its source and asking for the list.
Init ==
  /\ row = [a \in Asks |-> Unraised(a)]
  /\ job = [w \in Writers |-> IdleJob]
  /\ writes = 0 /\ faults = 0
  /\ wire = {}
  /\ sub = "none" /\ pipe = <<>>
  /\ conn = "connecting" /\ attached = FALSE
  /\ listed = {}
  /\ seen = [a \in Asks |-> Unseen]
  /\ raced = AnyOf(Fetches)
  /\ fetch = [f \in Fetches |-> IF f = raced THEN Sent ELSE NoFetch]
  /\ failed = FALSE
  /\ missed = [a \in Asks |-> 0] /\ doubt = {} /\ unordered = {}

\* What may become of an ask: raised, answered and still open, turned down by
\* the person looking or taken up by them after all, resolved or withdrawn.
Follows(s, next) ==
  \/ s = "unraised" /\ next = "raised"
  \/ s \in {"raised", "answered", "declined"} /\ next \in {"answered", "declined", "over"}

\* A handler takes its time, and so its stamp, before it writes.
TakeStamp(w, a, next) ==
  /\ job[w] = IdleJob /\ writes < MaxWrites
  /\ Follows(row[a].status, next)
  /\ writes' = writes + 1
  /\ \E at \in Stamps :
       job' = [job EXCEPT ![w] = [at |-> "stamped", row |->
                 [ask |-> a, status |-> next, at |-> at, ver |-> 0]]]
  /\ UNCHANGED <<row, wire, stream, page, history, faults>>

\* The ledger can tell r from the row it replaces.
InTurn(r) ==
  \/ r.at > row[r.ask].at
  \/ r.at = row[r.ask].at /\ r.status = "over"

\* The change, worked out on the row as stored; it may come to nothing by then.
Write(w) ==
  LET r == job[w].row
  IN  /\ job[w].at = "stamped"
      /\ IF Follows(row[r.ask].status, r.status)
         THEN /\ row' = [row EXCEPT ![r.ask] = [r EXCEPT !.ver = row[r.ask].ver + 1]]
              /\ job' = [job EXCEPT ![w] = [at |-> "written", row |-> row'[r.ask]]]
              /\ unordered' = IF InTurn(r) THEN unordered ELSE unordered \cup {r.ask}
         ELSE job' = [job EXCEPT ![w] = IdleJob] /\ UNCHANGED <<row, unordered>>
      /\ UNCHANGED <<writes, wire, stream, page, missed, doubt, faults>>

-----------------------------------------------------------------------------
\* History: some events the page will not get, or that not all its queues get.
AsksOf(events) == {r.ask : r \in events}
Unqueued(fetches, events) ==
  [f \in Fetches |-> IF f \in fetches /\ fetch[f].at = "answered"
                     THEN [fetch[f] EXCEPT !.lost = @ \cup AsksOf(events)] ELSE fetch[f]]
GoAstray(events) ==
  /\ missed' = [a \in Asks |-> Max({missed[a]} \cup {r.ver : r \in {e \in events : e.ask = a}})]
  /\ doubt' = doubt \cup AsksOf({r \in events : ~Stale(seen, r)})
  /\ fetch' = Unqueued(Fetches, events)
  /\ UNCHANGED unordered

\* Publishing is the last thing a handler does, and nobody waits for it: a hub
\* that cannot be reached, or one in another process, never hears of it.
Publish(w) ==
  /\ job[w].at = "written"
  /\ \/ wire' = wire \cup {job[w].row} /\ UNCHANGED <<fetch, history>>
     \/ GoAstray({job[w].row}) /\ UNCHANGED wire
  /\ job' = [job EXCEPT ![w] = IdleJob]
  /\ UNCHANGED <<row, writes, stream, listed, seen, raced, failed, faults>>

\* The hub sends an event to the subscriptions it holds, and keeps nothing.
Broadcast(r) ==
  /\ r \in wire
  /\ wire' = wire \ {r}
  /\ \/ sub = "attached" /\ pipe' = Append(pipe, r) /\ UNCHANGED <<fetch, history>>
     \/ sub # "attached" /\ GoAstray({r}) /\ UNCHANGED pipe
  /\ UNCHANGED <<row, job, writes, sub, conn, attached, listed, seen, raced, failed, faults>>

-----------------------------------------------------------------------------
\* A stream the page has asked for is subscribed: at once in one process, and
\* over a socket that opens behind the response on the Worker.
Subscribe ==
  /\ conn \in {"connecting", "open"} /\ sub = "none"
  /\ sub' = "attached"
  /\ UNCHANGED <<store, pipe, conn, attached, page, history, faults>>

\* The subscription dies under the reader: the hub is evicted, a socket closes.
LoseSubscription ==
  /\ sub = "attached" /\ faults < MaxFaults
  /\ sub' = "lost"
  /\ faults' = faults + 1
  /\ UNCHANGED <<store, pipe, conn, attached, page, history>>

\* MUTANT: a subscription that dies does not end the response.
DropByNetwork ==
  /\ conn # "closed" /\ faults < MaxFaults
  /\ faults' = faults + 1
  /\ conn' = "closed" /\ sub' = "none" /\ pipe' = <<>>
  /\ GoAstray({pipe[i] : i \in DOMAIN pipe})
  /\ UNCHANGED <<store, attached, listed, seen, raced, failed>>

\* What ends on its own closes the response; so may the network at any time. The
\* page closes its source and comes back later.
Drop ==
  /\ conn # "closed"
  /\ \/ sub = "lost" /\ pipe = <<>> /\ UNCHANGED faults
     \/ faults < MaxFaults /\ faults' = faults + 1
  /\ conn' = "closed" /\ sub' = "none" /\ pipe' = <<>>
  /\ GoAstray({pipe[i] : i \in DOMAIN pipe})
  /\ UNCHANGED <<store, attached, listed, seen, raced, failed>>

Reconnect ==
  /\ conn = "closed"
  /\ conn' = "connecting"
  /\ UNCHANGED <<store, sub, pipe, attached, page, history, faults>>

\* The list is fetched, and the fetch takes the events that arrive from here on,
\* whatever fetch is in flight already.
Refresh ==
  LET free == {f \in Fetches : fetch[f] = NoFetch}
  IN  /\ free # {}
      /\ raced' = AnyOf(free)
      /\ fetch' = [fetch EXCEPT ![raced'] = Sent]

\* The source is open. On a reconnect the list is fetched again, and what the
\* page missed until then is no excuse from here on.
Opened ==
  /\ conn = "connecting"
  /\ conn' = "open" /\ attached' = TRUE
  /\ IF attached
     THEN /\ Refresh
          /\ doubt' = {}
     ELSE UNCHANGED <<fetch, raced, doubt>>
  /\ UNCHANGED <<store, sub, pipe, listed, seen, failed, missed, unordered, faults>>

\* The reader reloads the list, as each of their own answers on the page does.
Reload ==
  /\ faults < MaxFaults
  /\ faults' = faults + 1
  /\ Refresh
  /\ UNCHANGED <<store, stream, listed, seen, failed, history>>

\* The store answers with what is open then.
Answer(f) ==
  /\ fetch[f].at = "sent"
  /\ fetch' = [fetch EXCEPT ![f].at = "answered", ![f].answer = {row[a] : a \in StoreList}]
  /\ UNCHANGED <<store, stream, listed, seen, raced, failed, history, faults>>

\* History: the answer and its queue leave nothing out that the page may still miss.
Covers(f, a) ==
  /\ a \notin fetch[f].lost
  /\ \A i \in DOMAIN fetch[f].queue :
       fetch[f].queue[i].ask = a => fetch[f].queue[i].ver >= missed[a]

\* The answer reaches the page. Whichever fetch ends, no queue is kept after it.
Fetched(f) ==
  LET view == Merged(seen, fetch[f].answer, fetch[f].queue)
  IN  /\ fetch[f].at = "answered"
      /\ listed' = view.list /\ seen' = view.seen
      /\ fetch' = [fetch EXCEPT ![f] = NoFetch]
      /\ raced' = None
      /\ failed' = FALSE
      /\ doubt' = {a \in Asks : ~Covers(f, a)}
      /\ UNCHANGED <<store, stream, missed, unordered, faults>>
FetchFails(f) ==
  /\ fetch[f] # NoFetch /\ faults < MaxFaults
  /\ faults' = faults + 1
  /\ listed' = {} /\ failed' = TRUE
  /\ fetch' = [fetch EXCEPT ![f] = NoFetch]
  /\ raced' = None
  /\ UNCHANGED <<store, stream, seen, history>>

\* An event reaches the page, and the queue of the fetch that takes them. One
\* that comes after a newer one went astray may be wrong to apply.
Receive ==
  LET r == Head(pipe)
      view == Apply([list |-> listed, seen |-> seen], r)
      others == Unqueued(Fetches \ {raced}, {r})
  IN  /\ pipe # <<>>
      /\ pipe' = Tail(pipe)
      /\ listed' = view.list /\ seen' = view.seen
      /\ fetch' = IF raced = None THEN others
                  ELSE [others EXCEPT ![raced].queue = Append(@, r)]
      /\ doubt' = IF r.ver < missed[r.ask] /\ ~Stale(seen, r)
                  THEN doubt \cup {r.ask} ELSE doubt
      /\ UNCHANGED <<store, sub, conn, attached, raced, failed, missed, unordered, faults>>

\* The ledger holds so many asks: those of the rest of the org push one out.
Forget(a) ==
  /\ seen[a] # Unseen /\ faults < MaxFaults
  /\ faults' = faults + 1
  /\ seen' = [seen EXCEPT ![a] = Unseen]
  /\ unordered' = unordered \cup {a}
  /\ UNCHANGED <<store, stream, listed, fetch, raced, failed, missed, doubt>>

-----------------------------------------------------------------------------
Writing == \E w \in Writers : Write(w) \/ Publish(w)
Fanning == \E r \in wire : Broadcast(r)
Paging == \/ Subscribe \/ Reconnect \/ Opened \/ Receive
          \/ \E f \in Fetches : Answer(f) \/ Fetched(f)
Ending == sub = "lost" /\ Drop
Faults == \/ LoseSubscription \/ Drop \/ Reload
          \/ \E f \in Fetches : FetchFails(f)
          \/ \E a \in Asks : Forget(a)

Next ==
  \/ \E w \in Writers, a \in Asks, s \in Statuses : TakeStamp(w, a, s)
  \/ Writing \/ Fanning \/ Paging \/ Faults

Spec == Init /\ [][Next]_vars

\* Handlers end, whether their publish gets through or not; the hub sends what it
\* is handed, and a page that stays open goes on reading, reconnecting and
\* fetching. Nobody has to write, and no connection has to be lost.
FairSpec == Spec /\ WF_vars(Writing) /\ WF_vars(Fanning) /\ WF_vars(Paging) /\ WF_vars(Ending)

-----------------------------------------------------------------------------
\* The variables keep their types.
TypeOK ==
  /\ row \in [Asks -> Rows]
  /\ wire \subseteq Rows
  /\ sub \in {"none", "attached", "lost"} /\ conn \in {"closed", "connecting", "open"}
  /\ conn = "closed" => sub = "none"
  /\ sub = "none" => pipe = <<>>
  /\ listed \subseteq Asks
  /\ \A a \in Asks : seen[a].at \in {0} \cup Stamps /\ seen[a].closed \in BOOLEAN
  /\ missed \in [Asks -> 0 .. MaxWrites] /\ doubt \subseteq Asks /\ unordered \subseteq Asks
  /\ raced \in Fetches \cup {None}
  /\ raced # None => fetch[raced] # NoFetch
  /\ <<attached, failed>> \in BOOLEAN \X BOOLEAN

\* Nothing is on its way: no write, no event, no fetch, and the page is live.
Settled ==
  /\ \A w \in Writers : job[w] = IdleJob
  /\ wire = {} /\ pipe = <<>> /\ \A f \in Fetches : fetch[f] = NoFetch
  /\ conn = "open" /\ sub = "attached" /\ ~failed

\* What the page may be held to: not an ask of which an event went astray with no
\* fetch to make up for it, nor one that its stamps do not order.
Sure == Asks \ (doubt \cup unordered)
ShowsStore == \A a \in Sure : a \in listed <=> ListedFor(row[a])

\* A live page with nothing on its way to it shows what the store holds of every
\* ask it may be held to, however the events and the fetches overtook each other;
\* what it missed while it was away, a reconnect makes up for
\* (useAttentionStream.ts).
SettledShowsStore == Settled => ShowsStore

\* An ask the page has seen closed, and can order, stays closed and off its list,
\* whatever arrives late (attentionOrder.ts: "an ask already seen closed is never
\* reopened").
ClosedStaysOff ==
  [][\A a \in Asks \ unordered' :
       seen[a].closed => seen'[a].closed /\ a \notin listed']_vars

\* A page that stays open ends up attached, showing what the store holds of the
\* asks it may be held to, or says that its last fetch failed: no stream goes on
\* looking live and delivering nothing (sse.ts, `end').
PageConverges ==
  <>[](conn = "open" /\ sub = "attached" /\ (failed \/ ShowsStore))
=============================================================================
