----------------------- MODULE AiReviewAdmissionProofs -----------------------
(***************************************************************************)
(* One run in flight and a few an hour, for every number of requests and   *)
(* every limit, as long as a request ends within the filing timeout.       *)
(***************************************************************************)
EXTENDS AiReviewAdmission, FiniteSetTheorems, TLAPS

USE DEF Goto

\* Any set of requests can be counted.
LEMMA CountIsNat ==
  ASSUME NEW rs \in SUBSET Requests
  PROVE  IsFiniteSet(rs) /\ Cardinality(rs) \in Nat
BY RequestsFinite, FS_Subset, FS_CardinalityType

\* Every variable keeps its type.
LEMMA TypeStep == TypeOK /\ [Next]_vars => TypeOK'
<1> SUFFICES ASSUME TypeOK, [Next]_vars PROVE TypeOK'
  OBVIOUS
<1> USE LimitsAreNat DEF TypeOK, Owning, Filing, InFlightStatuses, SettledStatuses
<1>1. CASE \E r \in Requests : Serve(r)
  <2>1. PICK r \in Requests : Serve(r)
    BY <1>1
  <2>2. CASE Admit(r) \/ Refuse(r) \/ Insert(r) \/ GiveWay(r) \/ Record(r) \/ FailFiling(r)
    BY <2>2 DEF Admit, Refuse, Insert, GiveWay, Record, FailFiling
  <2>3. CASE Confirm(r)
    BY <2>3 DEF Confirm
  <2>4. CASE CreateTask(r) \/ StartTask(r) \/ CallRefused(r) \/ AnswerLost(r)
    BY <2>4 DEF CreateTask, StartTask, CallRefused, AnswerLost
  <2> QED
    BY <2>1, <2>2, <2>3, <2>4 DEF Serve
<1>2. CASE \E r \in Requests :
             Crash(r) \/ SweepRead(r) \/ SweepWrite(r) \/ Poll(r) \/ Finish(r)
  BY <1>2 DEF Crash, SweepRead, StillUnacknowledged, SweepWrite, Poll, Finish
<1>3. CASE Tick
  BY <1>3 DEF Tick, Older
<1>4. CASE UNCHANGED vars
  BY <1>4 DEF vars
<1> QED
  BY <1>1, <1>2, <1>3, <1>4 DEF Next

-----------------------------------------------------------------------------
\* What a request's place says of its row and its task stays true: the tick
\* leaves an open request inside the filing timeout, and the sweep reads only
\* rows outside it.
LEMMA SoundStep ==
  ASSUME PromptFiling, TypeOK, \A r \in Requests : Sound(r), [Next]_vars
  PROVE  \A r \in Requests : Sound(r)'
<1> SUFFICES ASSUME NEW q \in Requests PROVE Sound(q)'
  OBVIOUS
<1> USE LimitsAreNat DEF TypeOK, Sound, Owning, Filing
<1>1. ASSUME NEW r \in Requests, Serve(r) PROVE Sound(q)'
  <2>1. CASE Admit(r) \/ Refuse(r) \/ Insert(r) \/ GiveWay(r) \/ Record(r) \/ FailFiling(r)
    BY <2>1 DEF Admit, Refuse, Insert, GiveWay, Record, FailFiling
  <2>2. CASE Confirm(r)
    BY <2>2 DEF Confirm
  <2>3. CASE CreateTask(r) \/ StartTask(r) \/ CallRefused(r) \/ AnswerLost(r)
    BY <2>3 DEF CreateTask, StartTask, CallRefused, AnswerLost
  <2> QED
    BY <1>1, <2>1, <2>2, <2>3 DEF Serve
<1>2. ASSUME NEW r \in Requests, Crash(r) \/ Finish(r) PROVE Sound(q)'
  BY <1>2 DEF Crash, Finish
<1>3. ASSUME NEW r \in Requests, SweepRead(r) \/ SweepWrite(r) PROVE Sound(q)'
  BY <1>3 DEF SweepRead, StillUnacknowledged, SweepWrite
<1>4. ASSUME NEW r \in Requests, Poll(r) PROVE Sound(q)'
  BY <1>4 DEF Poll, InFlightStatuses
<1>5. CASE Tick
  BY <1>5 DEF Tick, Older
<1>6. CASE UNCHANGED vars
  BY <1>6 DEF vars
<1> QED
  BY <1>1, <1>2, <1>3, <1>4, <1>5, <1>6 DEF Next

\* A row comes into flight behind Insert alone.
LEMMA FlightStep ==
  ASSUME PromptFiling, TypeOK, \A r \in Requests : Sound(r), [Next]_vars,
         NEW q \in Requests, InFlight(q)', ~InFlight(q)
  PROVE  Insert(q)
<1> USE LimitsAreNat DEF TypeOK, Sound, InFlight
<1>1. ASSUME NEW r \in Requests, Serve(r), ~Insert(q) PROVE FALSE
  <2>1. CASE Admit(r) \/ Refuse(r) \/ Insert(r) \/ GiveWay(r) \/ FailFiling(r)
    BY <1>1, <2>1 DEF Admit, Refuse, Insert, GiveWay, FailFiling, InFlightStatuses
  <2>2. CASE Confirm(r) \/ CreateTask(r) \/ StartTask(r) \/ CallRefused(r) \/ AnswerLost(r)
    BY <2>2 DEF Confirm, CreateTask, StartTask, CallRefused, AnswerLost
  <2>3. CASE Record(r)
    BY <2>3 DEF Record, Owning, Filing, InFlightStatuses
  <2> QED
    BY <1>1, <2>1, <2>2, <2>3 DEF Serve
<1>2. ASSUME NEW r \in Requests, Crash(r) \/ Finish(r) \/ SweepRead(r) PROVE FALSE
  BY <1>2 DEF Crash, Finish, SweepRead
<1>3. ASSUME NEW r \in Requests, SweepWrite(r) \/ Poll(r) PROVE FALSE
  BY <1>3 DEF SweepWrite, Poll, InFlightStatuses
<1>4. CASE Tick
  BY <1>4 DEF Tick, Older
<1>5. CASE UNCHANGED vars
  BY <1>5 DEF vars
<1> QED
  BY <1>1, <1>2, <1>3, <1>4, <1>5 DEF Next

\* A request starts calling cat-factory behind Confirm alone.
LEMMA EnterFiling ==
  ASSUME TypeOK, [Next]_vars, NEW q \in Requests, pc'[q] \in Filing, pc[q] \notin Filing
  PROVE  Confirm(q) /\ Admissible(Requests \ {q})
<1> USE DEF TypeOK, Filing
<1>1. ASSUME NEW r \in Requests, Serve(r)
      PROVE  Confirm(q) /\ Admissible(Requests \ {q})
  <2>1. CASE Admit(r) \/ Refuse(r) \/ Insert(r) \/ GiveWay(r) \/ FailFiling(r) \/ Record(r)
    BY <2>1 DEF Admit, Refuse, Insert, GiveWay, FailFiling, Record
  <2>2. CASE CreateTask(r) \/ StartTask(r) \/ CallRefused(r) \/ AnswerLost(r)
    BY <2>2 DEF CreateTask, StartTask, CallRefused, AnswerLost
  <2>3. CASE Confirm(r)
    BY <2>3 DEF Confirm
  <2> QED
    BY <1>1, <2>1, <2>2, <2>3 DEF Serve
<1>2. ASSUME NEW r \in Requests,
             Crash(r) \/ Finish(r) \/ SweepRead(r) \/ SweepWrite(r) \/ Poll(r)
      PROVE  FALSE
  BY <1>2 DEF Crash, Finish, SweepRead, SweepWrite, Poll
<1>3. CASE Tick \/ UNCHANGED vars
  BY <1>3 DEF Tick, vars
<1> QED
  BY <1>1, <1>2, <1>3 DEF Next

\* A request comes to count as having reached cat-factory behind Confirm alone.
LEMMA ReachedStep ==
  ASSUME TypeOK, \A r \in Requests : Sound(r), [Next]_vars,
         NEW q \in Requests, Reached(q)', ~Reached(q)
  PROVE  Confirm(q) /\ Admissible(Requests \ {q})
<1>1. CASE pc'[q] \in Filing
  BY <1>1, EnterFiling DEF Reached
<1>2. CASE pc'[q] \notin Filing
  <2>1. upstream'[q] # "none" /\ upstream[q] = "none" /\ pc[q] \notin Filing
    BY <1>2 DEF Reached
  <2>2. ASSUME NEW r \in Requests, Serve(r) PROVE FALSE
    BY <2>1, <2>2 DEF Serve, Admit, Refuse, Insert, GiveWay, FailFiling, Record, Confirm,
       CreateTask, StartTask, CallRefused, AnswerLost, TypeOK, Filing
  <2>3. ASSUME NEW r \in Requests,
               Crash(r) \/ Finish(r) \/ SweepRead(r) \/ SweepWrite(r) \/ Poll(r)
        PROVE  FALSE
    BY <2>1, <2>3 DEF Crash, Finish, SweepRead, SweepWrite, Poll, TypeOK
  <2>4. CASE Tick \/ UNCHANGED vars
    BY <2>1, <2>4 DEF Tick, vars
  <2> QED
    BY <2>2, <2>3, <2>4 DEF Next
<1> QED
  BY <1>1, <1>2

\* The step that lets a second request through sees no row of the first one in
\* flight, and a row that has left flight does not come back.
LEMMA OneInFlightStep ==
  ASSUME PromptFiling, TypeOK, \A r \in Requests : Sound(r), OneInFlight, [Next]_vars
  PROVE  OneInFlight'
<1> SUFFICES ASSUME NEW q \in Requests, NEW s \in Requests, q # s,
                    Reached(q)', Reached(s)', InFlight(q)', InFlight(s)'
             PROVE  FALSE
  BY DEF OneInFlight
<1>1. ASSUME NEW r \in Requests, Insert(r) PROVE ~Reached(r)'
  BY <1>1 DEF Insert, Reached, Sound, TypeOK, Filing
<1>2. InFlight(q) /\ InFlight(s)
  BY <1>1, FlightStep
<1>3. ASSUME NEW r \in Requests, NEW t \in Requests, r # t, Reached(r)', ~Reached(r), InFlight(t)
      PROVE  FALSE
  <2>1. Admissible(Requests \ {r})
    BY <1>3, ReachedStep
  <2> QED
    BY <1>3, <2>1 DEF Admissible
<1>4. Reached(q) /\ Reached(s)
  BY <1>2, <1>3
<1> QED
  BY <1>2, <1>4 DEF OneInFlight

-----------------------------------------------------------------------------
\* A run joins the hour's filed ones behind Record alone.
LEMMA FiledStep ==
  ASSUME TypeOK, [Next]_vars, NEW q \in Requests,
         q \in FiledThisHour(Requests)', q \notin FiledThisHour(Requests)
  PROVE  Record(q)
<1> USE LimitsAreNat DEF TypeOK, FiledThisHour
<1>1. ASSUME NEW r \in Requests, Serve(r) PROVE Record(q)
  <2>1. CASE Admit(r) \/ Refuse(r) \/ Insert(r) \/ Confirm(r) \/ GiveWay(r) \/ FailFiling(r)
    BY <2>1 DEF Admit, Refuse, Insert, Confirm, GiveWay, FailFiling
  <2>2. CASE CreateTask(r) \/ StartTask(r) \/ CallRefused(r) \/ AnswerLost(r)
    BY <2>2 DEF CreateTask, StartTask, CallRefused, AnswerLost
  <2>3. CASE Record(r)
    BY <2>3 DEF Record
  <2> QED
    BY <1>1, <2>1, <2>2, <2>3 DEF Serve
<1>2. ASSUME NEW r \in Requests,
             Crash(r) \/ Finish(r) \/ SweepRead(r) \/ SweepWrite(r) \/ Poll(r)
      PROVE  FALSE
  BY <1>2 DEF Crash, Finish, SweepRead, SweepWrite, Poll
<1>3. CASE Tick
  BY <1>3 DEF Tick, Older
<1>4. CASE UNCHANGED vars
  BY <1>4 DEF vars
<1> QED
  BY <1>1, <1>2, <1>3, <1>4 DEF Next

\* Record takes the room its request was let through with, and there is no
\* second request to take it too.
LEMMA LimitStep ==
  ASSUME PromptFiling, IInv, [Next]_vars
  PROVE  RoomForFiling' /\ FiledWithinLimit'
<1> DEFINE F == FiledThisHour(Requests)
           G == FiledThisHour(Requests)'
<1>1. TypeOK /\ (\A r \in Requests : Sound(r)) /\ OneInFlight
  BY DEF IInv
<1>2. TypeOK' /\ \A r \in Requests : Sound(r)'
  BY <1>1, TypeStep, SoundStep
<1>3. F \in SUBSET Requests /\ G \in SUBSET Requests
  BY DEF FiledThisHour
<1>4. Cardinality(F) \in Nat /\ Cardinality(G) \in Nat /\ IsFiniteSet(F) /\ HourlyLimit \in Nat
  BY <1>3, CountIsNat, LimitsAreNat
<1>5. CASE \E r \in Requests : Record(r)
  <2>1. PICK r \in Requests : Record(r)
    BY <1>5
  <2>2. G \subseteq F \cup {r}
    <3>1. \A q \in Requests : Record(q) => q = r
      BY <1>1, <2>1 DEF Record, TypeOK
    <3> QED
      BY <1>1, <1>3, <3>1, FiledStep
  <2>3. Cardinality(G) <= Cardinality(F) + 1
    <3> HIDE DEF F, G
    <3>1. /\ IsFiniteSet(F \cup {r})
          /\ Cardinality(F \cup {r}) = IF r \in F THEN Cardinality(F) ELSE Cardinality(F) + 1
      BY <1>4, FS_AddElement
    <3>2. Cardinality(G) <= Cardinality(F \cup {r}) /\ Cardinality(F \cup {r}) \in Nat
      BY <2>2, <3>1, FS_Subset, FS_CardinalityType
    <3> QED
      BY <1>4, <3>1, <3>2
  <2>4. Cardinality(F) < HourlyLimit
    BY <2>1 DEF IInv, RoomForFiling, Record, Filing
  <2>5. ASSUME NEW q \in Requests, pc'[q] \in Filing PROVE FALSE
    <3>1. q # r /\ pc[q] \in Filing
      BY <1>1, <2>1, <2>5 DEF Record, TypeOK, Filing
    <3>2. pc[r] \in Filing
      BY <2>1 DEF Record, Filing
    <3>3. \A t \in {q, r} : Reached(t) /\ InFlight(t)
      BY <1>1, <3>1, <3>2 DEF Reached, InFlight, Sound, Owning, InFlightStatuses
    <3> QED
      BY <1>1, <3>1, <3>3 DEF OneInFlight
  <2>6. Cardinality(G) <= HourlyLimit
    BY <1>4, <2>3, <2>4
  <2> QED
    BY <2>5, <2>6 DEF RoomForFiling, FiledWithinLimit
<1>6. CASE ~\E r \in Requests : Record(r)
  <2>1. G \subseteq F
    BY <1>1, <1>3, <1>6, FiledStep
  <2>2. Cardinality(G) <= Cardinality(F)
    BY <1>4, <2>1, FS_Subset
  <2>3. ASSUME NEW q \in Requests, pc'[q] \in Filing PROVE Cardinality(F) < HourlyLimit
    <3>1. CASE pc[q] \in Filing
      BY <3>1 DEF IInv, RoomForFiling
    <3>2. CASE pc[q] \notin Filing
      <4>1. Confirm(q) /\ Admissible(Requests \ {q})
        BY <1>1, <2>3, <3>2, EnterFiling
      <4>2. F = FiledThisHour(Requests \ {q})
        BY <1>1, <4>1 DEF FiledThisHour, Confirm, Sound
      <4> QED
        BY <4>1, <4>2 DEF Admissible
    <3> QED
      BY <3>1, <3>2
  <2>4. Cardinality(G) <= HourlyLimit
    BY <1>4, <2>2 DEF IInv, FiledWithinLimit
  <2> QED
    BY <1>4, <2>2, <2>3, <2>4 DEF RoomForFiling, FiledWithinLimit
<1> QED
  BY <1>5, <1>6

-----------------------------------------------------------------------------
\* Nobody has asked yet.
LEMMA InitIInv == Init => IInv
<1> SUFFICES ASSUME Init PROVE IInv
  OBVIOUS
<1> USE LimitsAreNat DEF Init
<1>1. TypeOK
  BY DEF TypeOK, InFlightStatuses, SettledStatuses, Owning, Filing
<1>2. \A r \in Requests : Sound(r)
  BY DEF Sound, Owning, Filing
<1>3. OneInFlight
  BY DEF OneInFlight, InFlight, InFlightStatuses
<1>4. RoomForFiling
  BY DEF RoomForFiling, Filing
<1>5. FiledWithinLimit
  <2>1. FiledThisHour(Requests) = {}
    BY DEF FiledThisHour
  <2> QED
    BY <2>1, FS_EmptySet DEF FiledWithinLimit
<1> QED
  BY <1>1, <1>2, <1>3, <1>4, <1>5 DEF IInv

\* Every step keeps every part of the invariant.
LEMMA StepIInv == ASSUME PromptFiling PROVE IInv /\ [Next]_vars => IInv'
<1> SUFFICES ASSUME IInv, [Next]_vars PROVE IInv'
  OBVIOUS
<1>1. TypeOK /\ (\A r \in Requests : Sound(r)) /\ OneInFlight
  BY DEF IInv
<1>2. TypeOK' /\ (\A r \in Requests : Sound(r)')
  BY <1>1, TypeStep, SoundStep
<1>3. OneInFlight'
  BY <1>1, OneInFlightStep
<1>4. RoomForFiling' /\ FiledWithinLimit'
  BY LimitStep
<1> QED
  BY <1>2, <1>3, <1>4 DEF IInv

\* The variables keep their types, however long a request takes.
THEOREM TypeCorrect == Spec => []TypeOK
<1>1. Init => TypeOK
  BY InitIInv DEF IInv
<1>2. TypeOK /\ [Next]_vars => TypeOK'
  BY TypeStep
<1> QED
  BY <1>1, <1>2, PTL DEF Spec

\* The invariant holds throughout: what each step of the two above says at once.
LEMMA Invariance == ASSUME PromptFiling PROVE Spec => []IInv
<1>1. Init => IInv
  BY InitIInv
<1>2. IInv /\ [Next]_vars => IInv'
  BY StepIInv
<1> QED
  BY <1>1, <1>2, PTL DEF Spec

\* admission.ts:26-29: of the requests that got past the second read, at most
\* one has a row in flight, for any number of requests.
THEOREM AtMostOneInFlight == ASSUME PromptFiling PROVE Spec => []OneInFlight
<1>1. IInv => OneInFlight
  BY DEF IInv
<1> QED
  BY <1>1, Invariance, PTL

\* aiAdmission.ts:15-17: no more than the limit are filed in any hour, though
\* the count is read before the row that raises it is filed.
THEOREM AtMostLimitFiled == ASSUME PromptFiling PROVE Spec => []FiledWithinLimit
<1>1. IInv => FiledWithinLimit
  BY DEF IInv
<1> QED
  BY <1>1, Invariance, PTL

\* orphans.ts:29-32: a filed run is settled by a report alone, as long as a
\* request ends within the timeout the sweep waits.
THEOREM NoFiledRunWrittenOff == ASSUME PromptFiling PROVE Spec => FiledNotWrittenOff
<1> DEFINE A == \A r \in Requests :
             taskId'[r] /\ status[r] \in InFlightStatuses /\ status'[r] \in SettledStatuses
               => upstream[r] = "over"
<1>1. IInv /\ [Next]_vars => [A]_vars
  <2> SUFFICES ASSUME IInv, [Next]_vars, NEW q \in Requests, taskId'[q],
                      status[q] \in InFlightStatuses, status'[q] \in SettledStatuses
               PROVE  upstream[q] = "over"
    OBVIOUS
  <2> USE DEF IInv, TypeOK, Sound, InFlightStatuses, SettledStatuses
  <2>1. ASSUME NEW r \in Requests, Serve(r) PROVE FALSE
    <3>1. CASE Admit(r) \/ Refuse(r) \/ Insert(r) \/ Confirm(r) \/ GiveWay(r) \/ FailFiling(r)
      BY <3>1 DEF Admit, Refuse, Insert, Confirm, GiveWay, FailFiling, Owning, Filing
    <3>2. CASE CreateTask(r) \/ StartTask(r) \/ CallRefused(r) \/ AnswerLost(r) \/ Record(r)
      BY <3>2 DEF CreateTask, StartTask, CallRefused, AnswerLost, Record
    <3> QED
      BY <2>1, <3>1, <3>2 DEF Serve
  <2>2. ASSUME NEW r \in Requests, Crash(r) \/ Finish(r) \/ SweepRead(r) \/ SweepWrite(r)
        PROVE  FALSE
    BY <2>2 DEF Crash, Finish, SweepRead, SweepWrite
  <2>3. ASSUME NEW r \in Requests, Poll(r) PROVE upstream[q] = "over"
    BY <2>3 DEF Poll
  <2>4. CASE Tick \/ UNCHANGED vars
    BY <2>4 DEF Tick, vars
  <2> QED
    BY <2>1, <2>2, <2>3, <2>4 DEF Next
<1> QED
  BY <1>1, Invariance, PTL DEF Spec, FiledNotWrittenOff

=============================================================================
