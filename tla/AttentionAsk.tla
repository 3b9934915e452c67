---------------------------- MODULE AttentionAsk ----------------------------
(***************************************************************************)
(* One ask for attention on a pull request: raised by a requester, taken   *)
(* or turned down by the people it reaches, widened by further asking,     *)
(* withdrawn, and followed by the chat messages it went out as.            *)
(*                                                                         *)
(* Every answer is a handler of its own (a click in the inbox or on a      *)
(* message), so what it read of the ask is old by the time it writes. The  *)
(* store runs the change again on the row as it is then                    *)
(* (kernel/src/domain/revisions.ts:35): a change is one atomic step here,  *)
(* and what was read before it is kept apart.                              *)
(***************************************************************************)
EXTENDS Integers, FiniteSets, Sequences

CONSTANTS
  People,         \* the directory, without the requester
  Ranked,         \* the people who may be asked, best match first
  Tabs,           \* handlers that may run at one time
  MaxRecipients,  \* MAX_ATTENTION_RECIPIENTS
  Needs,          \* critical masses an ask may be raised with
  ChatFails,      \* whether a message, or an update of one, may be refused
  StoreFails,     \* whether a change may lose its race too often
  MaxClicks       \* bound on the handlers started

ASSUME RankedAssumption ==
  /\ Ranked \in Seq(People)
  /\ \A i, j \in 1 .. Len(Ranked) : i # j => Ranked[i] # Ranked[j]
ASSUME PeopleAssumption == IsFiniteSet(People)
ASSUME NeedsAssumption == Needs \subseteq Nat \ {0}
ASSUME MaxRecipientsAssumption == MaxRecipients \in Nat \ {0}
ASSUME MaxClicksAssumption == MaxClicks \in Nat

VARIABLES
  ask,       \* the stored row
  promised,  \* people with a commitment row of their own, once made
  job,       \* what each handler is doing
  dm,        \* what each person's message shows
  posts,     \* messages posted to each person
  told,      \* messages telling the requester that the ask is short
  missed,    \* history: people whose message an update did not reach, the last one due
  clicks     \* handlers started

vars == <<ask, promised, job, dm, posts, told, missed, clicks>>

Statuses == {"unraised", "open", "resolved", "cancelled"}
Asks == [status : Statuses, needed : Nat, keepAsking : BOOLEAN,
         recipients : SUBSET People, commitments : SUBSET People,
         declines : SUBSET People, deliveries : SUBSET People]
NoAsk == [status |-> "unraised", needed |-> 1, keepAsking |-> FALSE,
          recipients |-> {}, commitments |-> {}, declines |-> {},
          deliveries |-> {}]

\* A handler: where it stands, for whom, how short the ask it read was, the
\* people it may ask and how they were chosen; then the ask its own change left,
\* the messages it still has to update, whether it tells the requester, and the
\* messages to post and to record.
Nobody == "nobody"
Steps == {"idle", "promise", "commit", "decline", "askMore", "cancel", "tell"}
Idle == [at |-> "idle", who |-> Nobody, before |-> 0, candidates |-> <<>>,
         byName |-> FALSE,
         left |-> NoAsk, due |-> {}, short |-> FALSE, asked |-> {}, landed |-> {}]
Running(t) == job[t].at # "idle"
Quiet == \A t \in Tabs : ~Running(t)

-----------------------------------------------------------------------------
\* reviewers/src/attention.ts, attentionChanges.ts and contracts/src/attention.ts:
\* functions of one ask.
Outstanding(a) ==
  IF Cardinality(a.commitments) >= a.needed THEN 0
  ELSE a.needed - Cardinality(a.commitments)
Pending(a) == a.recipients \ (a.commitments \cup a.declines)
Shortfall(a) ==
  IF a.recipients = {} \/ Outstanding(a) <= Cardinality(Pending(a)) THEN 0
  ELSE Outstanding(a) - Cardinality(Pending(a))
Taken(a) == a.recipients \cup a.commitments \cup a.declines

\* An ask sent by fit reaches everybody here; a named one those it names.
Reached(a, p) == a.recipients = {} \/ p \in a.recipients \cup a.declines

\* The candidates the ask has not been to, by rank, and how many more it may name.
Fresh(a, candidates) == {i \in DOMAIN candidates : candidates[i] \notin Taken(a)}
Room(a, count) ==
  IF count < MaxRecipients - Cardinality(a.recipients)
  THEN count ELSE MaxRecipients - Cardinality(a.recipients)

\* MUTANT: whoever the ask has been to is not passed over.
NextToAskAgain(a, candidates, count) ==
  IF a.status # "open" THEN {}
  ELSE {candidates[i] : i \in {j \in DOMAIN candidates : j <= Room(a, count)}}

\* The first `count' candidates the ask has not been to, as far as it has room.
NextToAsk(a, candidates, count) ==
  LET fresh == Fresh(a, candidates)
  IN  IF a.status # "open" THEN {}
      ELSE {candidates[i] :
              i \in {j \in fresh : Cardinality({k \in fresh : k < j}) < Room(a, count)}}

\* MUTANT: the critical mass is counted before the answer that completes it.
CommitmentChangeBefore(a, p) ==
  [a EXCEPT !.commitments = @ \cup {p}, !.declines = @ \ {p},
            !.status = IF @ = "open" /\ Outstanding(a) = 0 THEN "resolved" ELSE @]

\* One more commitment; the one that completes an open ask resolves it.
CommitmentChange(a, p) ==
  LET with == [a EXCEPT !.commitments = @ \cup {p}, !.declines = @ \ {p}]
  IN  [with EXCEPT !.status =
         IF @ = "open" /\ Outstanding(with) = 0 THEN "resolved" ELSE @]

\* A decline, and whom an ask that keeps asking goes on to.
DeclineAsks(a, p, candidates) ==
  LET declined == [a EXCEPT !.declines = @ \cup {p}]
  IN  IF a.keepAsking THEN NextToAsk(declined, candidates, Shortfall(declined)) ELSE {}
DeclineChange(a, p, candidates) ==
  [a EXCEPT !.declines = @ \cup {p},
            !.recipients = @ \cup DeclineAsks(a, p, candidates)]

\* How many more to ask: those named, or as many as the ask is short.
AskCount(a, named, candidates) ==
  IF named THEN Len(candidates) ELSE IF Shortfall(a) > 1 THEN Shortfall(a) ELSE 1

\* What a message about `a' shows person p; only the first has buttons.
Message(a, p) ==
  CASE a.status # "open" -> "closed"
    [] a.status = "open" /\ p \in a.commitments \cup a.declines -> "answered"
    [] OTHER -> "asking"

-----------------------------------------------------------------------------
\* The variables keep their types.
TypeOK ==
  /\ ask \in Asks
  /\ promised \subseteq People
  /\ \A t \in Tabs :
       /\ job[t].at \in Steps /\ job[t].who \in People \cup {Nobody}
       /\ job[t].before \in Nat /\ job[t].left \in Asks
       /\ {job[t].candidates[i] : i \in DOMAIN job[t].candidates} \subseteq People
       /\ UNION {job[t].due, job[t].asked, job[t].landed} \subseteq People
       /\ job[t].byName \in BOOLEAN /\ job[t].short \in BOOLEAN
  /\ dm \in [People -> {"none", "asking", "answered", "closed"}]
  /\ posts \in [People -> Nat]
  /\ told \in Nat
  /\ missed \subseteq People
  /\ clicks \in 0 .. MaxClicks

Init ==
  /\ ask = NoAsk
  /\ promised = {}
  /\ job = [t \in Tabs |-> Idle]
  /\ dm = [p \in People |-> "none"]
  /\ posts = [p \in People |-> 0]
  /\ told = 0
  /\ missed = {}
  /\ clicks = 0

\* A handler that has read the ask, and the click that starts it.
Starting(at, who, candidates) ==
  [Idle EXCEPT !.at = at, !.who = who, !.before = Shortfall(ask), !.candidates = candidates]
Start(t, next) ==
  /\ ~Running(t) /\ clicks < MaxClicks
  /\ clicks' = clicks + 1
  /\ job' = [job EXCEPT ![t] = next]

\* The handler ends when nothing is left for it to send.
Continue(j) == IF {} = UNION {j.due, j.asked, j.landed} /\ ~j.short THEN Idle ELSE j
Telling(j, due, short, asked) ==
  Continue([Idle EXCEPT !.at = "tell", !.left = ask', !.due = due,
                        !.short = short, !.asked = asked])

-----------------------------------------------------------------------------
\* A set of people in some order.
InOrder(S) == CHOOSE s \in [1 .. Cardinality(S) -> S] : S = {s[i] : i \in DOMAIN s}

\* Raising it: a broadcast, or a named ask with at least as many names as it
\* needs. Its own messages are the first to go out.
Raise(t, named, needed, keeps) ==
  /\ ask.status = "unraised"
  /\ Cardinality(named) <= MaxRecipients
  /\ named = {} \/ Cardinality(named) >= needed
  /\ ask' = [NoAsk EXCEPT !.status = "open", !.needed = needed, !.recipients = named,
                           !.keepAsking = keeps /\ named # {}]
  /\ Start(t, Telling(Idle, {}, FALSE, named))
  /\ UNCHANGED <<promised, dm, posts, told, missed>>

\* Asking on: those named whom the ask has not been to, or whoever ranks next
\* when nobody is named. Naming more than fit, or nobody new, ends it here.
AskMoreRead(t, named) ==
  LET fresh == named \ Taken(ask)
      candidates == IF named = {} THEN Ranked ELSE InOrder(fresh)
  IN  /\ ask.status = "open" /\ ask.recipients # {}
      /\ Cardinality(ask.recipients \cup fresh) <= MaxRecipients
      /\ NextToAsk(ask, candidates, AskCount(ask, named # {}, candidates)) # {}
      /\ Start(t, [Starting("askMore", Nobody, candidates) EXCEPT !.byName = named # {}])
      /\ UNCHANGED <<ask, promised, dm, posts, told, missed>>

\* The requester's one ask on the pull request: raised, or asked on when theirs
\* is open already, even one that landed a moment ago.
RaiseOrAdd(t) ==
  \E named \in SUBSET People :
    \/ \E needed \in Needs, keeps \in BOOLEAN : Raise(t, named, needed, keeps)
    \/ AskMoreRead(t, named)

\* "I will review it": nothing for somebody on it already.
CommitRead(t, p) ==
  /\ ask.status = "open" /\ p \notin ask.commitments
  /\ Start(t, Starting("promise", p, <<>>))
  /\ UNCHANGED <<ask, promised, dm, posts, told, missed>>

\* MUTANT: the promise is left for after the ask.
PromiseLater(t) ==
  /\ job[t].at = "promise"
  /\ job' = [job EXCEPT ![t].at = "commit"]
  /\ UNCHANGED <<ask, promised, dm, posts, told, missed, clicks>>

\* The commitment row of their own comes first.
Promise(t) ==
  /\ job[t].at = "promise"
  /\ promised' = promised \cup {job[t].who}
  /\ job' = [job EXCEPT ![t].at = "commit"]
  /\ UNCHANGED <<ask, dm, posts, told, missed, clicks>>

\* Then the ask, as stored by now. Everybody's message changes when this one
\* resolves it, and theirs alone when it does not.
Commit(t) ==
  LET p == job[t].who
  IN  /\ job[t].at = "commit"
      /\ IF p \in ask.commitments
         THEN job' = [job EXCEPT ![t] = Idle] /\ UNCHANGED ask
         ELSE /\ ask' = CommitmentChange(ask, p)
              /\ job' = [job EXCEPT ![t] =
                   Telling(@, IF ask'.status = "resolved" /\ ask.status = "open"
                              THEN ask'.deliveries ELSE ask'.deliveries \cap {p},
                           FALSE, {})]
      /\ UNCHANGED <<promised, dm, posts, told, missed, clicks>>

\* "Not me", from anybody the ask reached who has not taken it. The next best
\* are ranked whenever the ask keeps asking, short or not.
MayDecline(p) == ask.status = "open" /\ p \notin ask.commitments /\ Reached(ask, p)
\* MUTANT: ranked only when the ask as read is left short.
DeclineReadShort(t, p) ==
  /\ MayDecline(p)
  /\ Start(t, Starting("decline", p,
       IF ask.keepAsking /\ Shortfall(DeclineChange(ask, p, <<>>)) > 0 THEN Ranked ELSE <<>>))
  /\ UNCHANGED <<ask, promised, dm, posts, told, missed>>

DeclineRead(t, p) ==
  /\ MayDecline(p)
  /\ Start(t, Starting("decline", p, IF ask.keepAsking THEN Ranked ELSE <<>>))
  /\ UNCHANGED <<ask, promised, dm, posts, told, missed>>

\* The decline, refused again on the ask as stored. The requester is told when
\* it is shorter than the ask this handler read.
Decline(t) ==
  LET p == job[t].who
      candidates == job[t].candidates
  IN  /\ job[t].at = "decline"
      /\ IF ~MayDecline(p)
         THEN job' = [job EXCEPT ![t] = Idle] /\ UNCHANGED ask
         ELSE /\ ask' = DeclineChange(ask, p, candidates)
              /\ job' = [job EXCEPT ![t] =
                   Telling(@, ask'.deliveries \cap {p},
                           Shortfall(ask') > job[t].before,
                           DeclineAsks(ask, p, candidates))]
      /\ UNCHANGED <<promised, dm, posts, told, missed, clicks>>

\* The people asked on, worked out from the ask as stored.
AskMore(t) ==
  LET candidates == job[t].candidates
      asked == NextToAsk(ask, candidates, AskCount(ask, job[t].byName, candidates))
  IN  /\ job[t].at = "askMore"
      /\ IF ask.status # "open"
         THEN job' = [job EXCEPT ![t] = Idle] /\ UNCHANGED ask
         ELSE /\ ask' = [ask EXCEPT !.recipients = @ \cup asked]
              /\ job' = [job EXCEPT ![t] = Telling(@, {}, FALSE, asked)]
      /\ UNCHANGED <<promised, dm, posts, told, missed, clicks>>

\* The requester withdrawing.
CancelRead(t) ==
  /\ ask.status = "open"
  /\ Start(t, Starting("cancel", Nobody, <<>>))
  /\ UNCHANGED <<ask, promised, dm, posts, told, missed>>
Cancel(t) ==
  /\ job[t].at = "cancel"
  /\ IF ask.status # "open"
     THEN job' = [job EXCEPT ![t] = Idle] /\ UNCHANGED ask
     ELSE /\ ask' = [ask EXCEPT !.status = "cancelled"]
          /\ job' = [job EXCEPT ![t] = Telling(@, ask'.deliveries, FALSE, {})]
  /\ UNCHANGED <<promised, dm, posts, told, missed, clicks>>

\* A change that lost every one of its races: the answer is refused.
GiveUp(t) ==
  /\ StoreFails
  /\ job[t].at \in {"commit", "decline", "askMore", "cancel"}
  /\ job' = [job EXCEPT ![t] = Idle]
  /\ UNCHANGED <<ask, promised, dm, posts, told, missed, clicks>>

-----------------------------------------------------------------------------
\* The messages, after the write and in this order: those that changed, the
\* requester's, the ones to people just asked, and where those landed.
UpdateDm(t, p) ==
  /\ job[t].at = "tell" /\ p \in job[t].due
  /\ \/ /\ dm' = [dm EXCEPT ![p] = Message(job[t].left, p)]
        /\ missed' = missed \ {p}
     \/ /\ ChatFails
        /\ missed' = missed \cup {p}
        /\ UNCHANGED dm
  /\ job' = [job EXCEPT ![t] = Continue([job[t] EXCEPT !.due = @ \ {p}])]
  /\ UNCHANGED <<ask, promised, posts, told, clicks>>

TellShort(t) ==
  /\ job[t].at = "tell" /\ job[t].due = {} /\ job[t].short
  /\ told' = told + 1
  /\ job' = [job EXCEPT ![t] = Continue([job[t] EXCEPT !.short = FALSE])]
  /\ UNCHANGED <<ask, promised, dm, posts, missed, clicks>>

PostDm(t, p) ==
  /\ job[t].at = "tell" /\ job[t].due = {} /\ ~job[t].short /\ p \in job[t].asked
  /\ \/ /\ dm' = [dm EXCEPT ![p] = Message(job[t].left, p)]
        /\ posts' = [posts EXCEPT ![p] = @ + 1]
        /\ job' = [job EXCEPT ![t].asked = @ \ {p}, ![t].landed = @ \cup {p}]
     \/ /\ ChatFails
        /\ job' = [job EXCEPT ![t] = Continue([job[t] EXCEPT !.asked = @ \ {p}])]
        /\ UNCHANGED <<dm, posts>>
  /\ UNCHANGED <<ask, promised, told, missed, clicks>>

\* MUTANT: recorded, and taken to be up to date.
RecordOnly(t) ==
  /\ job[t].at = "tell" /\ job[t].due = {} /\ ~job[t].short
  /\ job[t].asked = {} /\ job[t].landed # {}
  /\ ask' = [ask EXCEPT !.deliveries = @ \cup job[t].landed]
  /\ job' = [job EXCEPT ![t] = Idle]
  /\ UNCHANGED <<promised, dm, posts, told, missed, clicks>>

\* Recorded beside the ones already there; the ones an answer overtook while
\* they were on their way are brought up to date.
Record(t) ==
  /\ job[t].at = "tell" /\ job[t].due = {} /\ ~job[t].short
  /\ job[t].asked = {} /\ job[t].landed # {}
  /\ \/ /\ ask' = [ask EXCEPT !.deliveries = @ \cup job[t].landed]
        /\ job' = [job EXCEPT ![t] =
             Telling(@, {p \in job[t].landed : Message(ask', p) # "asking"}, FALSE, {})]
     \/ /\ StoreFails
        /\ job' = [job EXCEPT ![t] = Idle]
        /\ UNCHANGED ask
  /\ UNCHANGED <<promised, dm, posts, told, missed, clicks>>

\* The process of a handler dies: what it had still to send is never sent.
Die(t) ==
  /\ Running(t)
  /\ job' = [job EXCEPT ![t] = Idle]
  /\ missed' = missed \cup job[t].due
  /\ UNCHANGED <<ask, promised, dm, posts, told, clicks>>

Answer(t) ==
  \/ \E p \in People : CommitRead(t, p) \/ DeclineRead(t, p)
  \/ CancelRead(t)
Change(t) ==
  Promise(t) \/ Commit(t) \/ Decline(t) \/ AskMore(t) \/ Cancel(t) \/ GiveUp(t)
Send(t) ==
  \/ \E p \in People : UpdateDm(t, p) \/ PostDm(t, p)
  \/ TellShort(t) \/ Record(t)

Next == \E t \in Tabs : RaiseOrAdd(t) \/ Answer(t) \/ Change(t) \/ Send(t) \/ Die(t)

Spec == Init /\ [][Next]_vars

-----------------------------------------------------------------------------
\* An open ask is never one that has its reviewers: of the commitments that
\* land together the one that completes it resolves it, whatever each handler
\* read (attentionChanges.ts, `commitmentChange').
SatisfiedIsClosed == ask.status = "open" => Outstanding(ask) > 0

\* Nobody is sent the ask twice, by declines that ask on and by a requester who
\* does at the same time (attention.ts, `askedOrAnsweredIds': "so nobody is
\* asked twice").
AskedOnce == \A p \in People : posts[p] <= 1

\* Once nothing is under way, a recorded message offers its buttons only while
\* the ask is open and its person has not answered, unless the last update it was
\* due did not reach it: an answer that lands while the message is on its way is
\* caught by the one handler or by the other (askDeliveries.ts, `sendAskDms').
NoButtonsWhenOver ==
  Quiet => \A p \in ask.deliveries \ missed :
             dm[p] = "asking" => Message(ask, p) = "asking"

\* An open ask that keeps asking is short only when there is nobody left to ask
\* or no room to name them, whichever declines landed together
\* (AttentionService.ts, `decline').
KeepsAsking ==
  ask.status = "open" /\ ask.keepAsking /\ Shortfall(ask) > 0 =>
    \/ Cardinality(ask.recipients) = MaxRecipients
    \/ \A i \in DOMAIN Ranked : Ranked[i] \in Taken(ask)

\* An ask that is over stays as it ended, nobody's commitment is lost to another
\* answer, and everybody on the ask has a commitment row of their own before
\* they are (AttentionService.ts, `commit').
AnswersStand ==
  [][/\ ask.status \in {"resolved", "cancelled"} => ask'.status = ask.status
     /\ ask.commitments \subseteq ask'.commitments
     /\ ask'.commitments \subseteq promised]_vars

\* What askDeliveries.ts says of the message to the requester: "each person they
\* lose is one message and a repeated decline is none".
ToldOncePerDecline == told <= Cardinality(ask.declines \cup ask.commitments)
=============================================================================
