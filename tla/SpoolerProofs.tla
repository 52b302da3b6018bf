--------------------------- MODULE SpoolerProofs ---------------------------
(***************************************************************************)
(* Spooler for any sizes, capacities and bounds, reloads and shutdown      *)
(* included: spools leave in order and no event leaves twice.              *)
(***************************************************************************)
EXTENDS Spooler, TLAPS

\* Run is in its select with nothing left to do after sendSpool, and the spool
\* being filled is an interval.
RunInv ==
    /\ pc = "select" => after = "continue"
    /\ spool.from <= spool.to

IndInv == TypeOK /\ RunInv /\ SpoolsInOrder

LEMMA InitInd == Init => IndInv
  BY SpoolerAssumption
     DEF Init, IndInv, TypeOK, RunInv, SpoolsInOrder, SentUpTo, SpoolRec

\* One more event moves the end of a spool and nothing else of the interval.
LEMMA AddedSpool ==
    ASSUME NEW sp \in SpoolRec, NEW size \in Nat, NEW max
    PROVE  /\ max \in Nat => Added(sp, size, max) \in SpoolRec
           /\ Added(sp, size, max).from = sp.from
           /\ Added(sp, size, max).to = sp.to + 1
  BY DEF Added, SpoolRec

\* A new spool is the empty interval at the end of the old one.
LEMMA EmptiedSpool ==
    ASSUME NEW sp \in SpoolRec
    PROVE  /\ Emptied(sp) \in SpoolRec
           /\ Emptied(sp).from = sp.to
           /\ Emptied(sp).to = sp.to
  BY DEF Emptied, SpoolRec

\* The queue without its oldest spool.
LEMMA TailOfOutput ==
    ASSUME NEW out \in Seq(SpoolRec), out # <<>>
    PROVE  /\ Head(out) = out[1] /\ out[1] \in SpoolRec
           /\ Tail(out) \in Seq(SpoolRec)
           /\ Len(Tail(out)) = Len(out) - 1
           /\ \A i \in 1 .. Len(out) - 1 : Tail(out)[i] = out[i + 1]
  OBVIOUS

\* Every step keeps the types.
LEMMA TypeStep == TypeOK /\ [Next]_vars => TypeOK'
  <1> SUFFICES ASSUME TypeOK, [Next]_vars PROVE TypeOK'
    OBVIOUS
  <1> USE SpoolerAssumption DEF TypeOK, spoolVars, config
  <1>1. ASSUME NEW size \in EventSizes, Harvest(size) PROVE TypeOK'
    BY <1>1 DEF Harvest
  <1>2. CASE CallFlush
    BY <1>2 DEF CallFlush, Flush
  <1>3. CASE PublisherTakes
    <2>1. output' \in Seq(SpoolRec)
      BY <1>3, TailOfOutput DEF PublisherTakes
    <2>2. delivered' \in Nat
      BY <1>3, TailOfOutput DEF PublisherTakes, SpoolRec
    <2> QED  BY <1>3, <2>1, <2>2 DEF PublisherTakes
  <1>4. CASE TimerFires
    BY <1>4 DEF TimerFires
  <1>5. CASE TakeFlush
    BY <1>5 DEF TakeFlush, Send
  <1>6. CASE TakeEvent
    <2>1. Head(input) \in EventSizes
      BY <1>6 DEF TakeEvent, Flush
    <2>2. spool' \in SpoolRec
      <3>1. Head(input) \in Nat /\ spoolMaxBytes \in Nat
        BY <2>1
      <3> QED  BY <1>6, <3>1, AddedSpool DEF TakeEvent
    <2>3. pc' \in {"select", "send"} /\ after' \in {"continue", "append", "restart", "reset"}
      BY <1>6 DEF TakeEvent, Send
    <2>4. held' \in EventSizes \cup {0} /\ taken' \in Nat /\ input' \in Seq(EventSizes \cup {Flush})
      BY <1>6, <2>1 DEF TakeEvent
    <2> QED  BY <1>6, <2>2, <2>3, <2>4 DEF TakeEvent
  <1>7. CASE TakeTimer
    BY <1>7 DEF TakeTimer, Send
  <1>8. ASSUME SendReturns, spoolSize' \in SpoolSizes, spoolMaxBytes' \in MaxByteLimits
        PROVE  /\ pc' = "select" /\ after' = "continue" /\ held' = 0
               /\ spool' \in SpoolRec /\ spoolCap' \in SpoolSizes
    <2>1. Emptied(spool) \in SpoolRec /\ Added(Emptied(spool), held, spoolMaxBytes') \in SpoolRec
      <3>1. held \in Nat /\ spoolMaxBytes' \in Nat
        BY <1>8
      <3> QED  BY <3>1, AddedSpool, EmptiedSpool
    <2> QED  BY <1>8, <2>1 DEF SendReturns
  <1>9. CASE SendSpool
    <2>1. timer' \in {"running", "fired", "stopped"}
      BY <1>9 DEF SendSpool, TimerReset
    <2> QED  BY <1>8, <1>9, <2>1 DEF SendSpool
  <1>10. ASSUME NEW size \in SpoolSizes, NEW max \in MaxByteLimits, NEW late \in BOOLEAN, Reload(size, max, late) PROVE TypeOK'
    BY <1>10 DEF Reload, Send, TimerReset
  <1>11. ASSUME NEW size \in SpoolSizes, NEW max \in MaxByteLimits, NEW late \in BOOLEAN, ReloadInSend(size, max, late) PROVE TypeOK'
    BY <1>8, <1>11 DEF ReloadInSend, TimerReset
  <1>12. CASE Shutdown
    BY <1>12 DEF Shutdown
  <1>13. CASE UNCHANGED vars
    BY <1>13 DEF vars
  <1> QED
    BY <1>1, <1>2, <1>3, <1>4, <1>5, <1>6, <1>7, <1>9, <1>10, <1>11, <1>12, <1>13
    DEF Next, Run, ConfigStep

\* What SpoolsInOrder says of the spools on their way, and of the one being filled.
LEMMA OrderStep == IndInv /\ [Next]_vars => RunInv' /\ SpoolsInOrder'
  <1> SUFFICES ASSUME IndInv, [Next]_vars PROVE RunInv' /\ SpoolsInOrder'
    OBVIOUS
  <1> USE SpoolerAssumption DEF spoolVars, config
  <1>t. /\ TypeOK /\ RunInv /\ SpoolsInOrder
        /\ output \in Seq(SpoolRec) /\ spool \in SpoolRec
        /\ taken \in Nat /\ delivered \in Nat
    BY DEF IndInv, TypeOK
  <1>n. /\ \A i \in 1 .. Len(output) : output[i].from \in Nat /\ output[i].to \in Nat
        /\ spool.from \in Nat /\ spool.to \in Nat /\ Len(output) \in Nat
    <2>1. Len(output) \in Nat /\ \A i \in 1 .. Len(output) : output[i] \in SpoolRec
      BY <1>t
    <2>2. \A sp \in SpoolRec : sp.from \in Nat /\ sp.to \in Nat
      BY DEF SpoolRec
    <2> QED  BY <1>t, <2>1, <2>2
  \* Steps that touch neither the spools nor what sendSpool returns to.
  <1>u. ASSUME UNCHANGED <<pc, after, spool, taken, output, delivered>>
        PROVE  RunInv' /\ SpoolsInOrder'
    BY <1>t, <1>u DEF RunInv, SpoolsInOrder, SentUpTo
  \* Steps that begin to send.
  <1>s. ASSUME UNCHANGED <<spool, taken, output, delivered>>, after # "append", after' # "append",
               pc' = "select" => after' = "continue"
        PROVE  RunInv' /\ SpoolsInOrder'
    BY <1>t, <1>s DEF RunInv, SpoolsInOrder, SentUpTo
  <1>1. ASSUME NEW size \in EventSizes, Harvest(size) PROVE RunInv' /\ SpoolsInOrder'
    BY <1>1, <1>u DEF Harvest
  <1>2. CASE CallFlush
    BY <1>2, <1>u DEF CallFlush
  <1>3. CASE PublisherTakes
    <2>1. /\ output' = Tail(output) /\ delivered' = output[1].to /\ output # <<>>
          /\ UNCHANGED <<pc, after, spool, taken>>
      BY <1>3, <1>t, TailOfOutput DEF PublisherTakes
    <2>2. /\ Len(output') = Len(output) - 1 /\ Len(output) \in Nat \ {0}
          /\ \A i \in 1 .. Len(output) - 1 : output'[i] = output[i + 1]
      BY <1>t, <1>n, <2>1, TailOfOutput
    <2>a. output' = <<>> <=> Len(output) = 1
      <3>1. output' \in Seq(SpoolRec)
        BY <1>t, <2>1, TailOfOutput
      <3> QED  BY <2>2, <3>1
    <2>3. \A i \in 1 .. Len(output') : output'[i].from <= output'[i].to
      <3> TAKE i \in 1 .. Len(output')
      <3>1. i + 1 \in 1 .. Len(output) /\ output'[i] = output[i + 1]
        BY <2>2
      <3>2. output[i + 1].from <= output[i + 1].to
        BY <1>t, <3>1 DEF SpoolsInOrder
      <3> QED  BY <3>1, <3>2
    <2>4. output' # <<>> => delivered' <= output'[1].from
      BY <1>t, <1>n, <2>1, <2>2, <2>a DEF SpoolsInOrder
    <2>5. \A i \in 1 .. Len(output') - 1 : output'[i].to <= output'[i + 1].from
      <3> TAKE i \in 1 .. Len(output') - 1
      <3>1. i + 1 \in 1 .. Len(output) - 1 /\ i \in 1 .. Len(output) - 1
        BY <2>2
      <3>2. output'[i] = output[i + 1] /\ output'[i + 1] = output[(i + 1) + 1]
        BY <2>2, <3>1
      <3>3. output[i + 1].to <= output[(i + 1) + 1].from
        BY <1>t, <3>1 DEF SpoolsInOrder
      <3> QED  BY <3>2, <3>3
    <2>6. SentUpTo' = SentUpTo
      BY <2>1, <2>2, <2>a DEF SentUpTo
    <2> QED  BY <1>t, <2>1, <2>3, <2>4, <2>5, <2>6 DEF RunInv, SpoolsInOrder
  <1>4. CASE TimerFires
    BY <1>4, <1>u DEF TimerFires
  <1>5. CASE TakeFlush
    BY <1>5, <1>s, <1>t DEF TakeFlush, Send, RunInv
  <1>6. CASE TakeEvent
    <2>1. Head(input) \in Nat
      <3>1. input \in Seq(EventSizes \cup {Flush}) /\ input # <<>>
        BY <1>6, <1>t DEF TakeEvent, TypeOK
      <3>2. Head(input) \in EventSizes \cup {Flush}
        BY <3>1
      <3>3. EventSizes \cup {Flush} \subseteq Nat
        BY DEF Flush
      <3> QED  BY <3>2, <3>3
    <2>2. CASE TooLarge(Head(input))
      <3>1. /\ UNCHANGED <<spool, output, delivered>>
            /\ pc' = "send" /\ after = "continue" /\ after' = "append" /\ taken' = taken + 1
        BY <1>6, <2>2, <1>t DEF TakeEvent, Send, RunInv
      <3> QED  BY <1>n, <1>t, <3>1 DEF RunInv, SpoolsInOrder, SentUpTo
    <2>3. CASE ~TooLarge(Head(input))
      <3>1. spool'.from = spool.from /\ spool'.to = spool.to + 1
        BY <1>6, <1>t, <2>1, <2>3, AddedSpool DEF TakeEvent
      <3>2. /\ after = "continue" /\ after' # "append" /\ (pc' = "select" => after' = "continue")
            /\ taken' = taken + 1 /\ UNCHANGED <<output, delivered>>
        BY <1>6, <1>t, <2>3 DEF TakeEvent, Send, RunInv
      <3> QED  BY <1>n, <1>t, <3>1, <3>2 DEF RunInv, SpoolsInOrder, SentUpTo
    <2> QED  BY <2>2, <2>3
  <1>7. CASE TakeTimer
    BY <1>7, <1>s, <1>t DEF TakeTimer, Send, RunInv
  \* The new spool begins where the old one ends.
  <1>8. ASSUME SendReturns, taken' = taken
        PROVE  /\ RunInv'
               /\ spool'.from = spool.to
               /\ spool'.to = taken'
               /\ after' = "continue"
    <2>1. held \in Nat
      BY <1>t DEF TypeOK
    <2>2. /\ Emptied(spool).from = spool.to /\ Emptied(spool).to = spool.to
          /\ Added(Emptied(spool), held, spoolMaxBytes').from = spool.to
          /\ Added(Emptied(spool), held, spoolMaxBytes').to = spool.to + 1
      BY <1>t, <2>1, AddedSpool, EmptiedSpool
    <2> QED  BY <1>8, <1>n, <1>t, <2>2 DEF SendReturns, RunInv, SpoolsInOrder
  <1>9. CASE SendSpool
    <2>1. /\ output' = Append(output, spool) /\ UNCHANGED <<taken, delivered>>
          /\ spool'.from = spool.to /\ spool'.to = taken' /\ after' = "continue" /\ RunInv'
      BY <1>8, <1>9 DEF SendSpool
    <2>2. /\ Len(output') = Len(output) + 1 /\ output' # <<>>
          /\ output'[Len(output) + 1] = spool
          /\ \A i \in 1 .. Len(output) : output'[i] = output[i]
      BY <1>t, <2>1
    <2>3. output = <<>> <=> Len(output) = 0
      BY <1>t
    <2>4. \A i \in 1 .. Len(output') : output'[i].from <= output'[i].to
      BY <1>n, <1>t, <2>2 DEF RunInv, SpoolsInOrder
    <2>5. delivered' <= output'[1].from
      BY <1>n, <1>t, <2>1, <2>2, <2>3 DEF SpoolsInOrder, SentUpTo
    <2>6. \A i \in 1 .. Len(output') - 1 : output'[i].to <= output'[i + 1].from
      <3> TAKE i \in 1 .. Len(output') - 1
      <3>1. CASE i < Len(output)
        <4>1. i \in 1 .. Len(output) - 1 /\ output'[i] = output[i] /\ output'[i + 1] = output[i + 1]
          BY <1>n, <2>2, <3>1
        <4>2. output[i].to <= output[i + 1].from
          BY <1>t, <4>1 DEF SpoolsInOrder
        <4> QED  BY <4>1, <4>2
      <3>2. CASE i = Len(output)
        BY <1>n, <1>t, <2>2, <2>3, <3>2 DEF SpoolsInOrder, SentUpTo
      <3> QED  BY <1>n, <2>2, <3>1, <3>2
    <2>7. SentUpTo' = spool.to
      BY <2>1, <2>2 DEF SentUpTo
    <2> QED  BY <1>n, <1>t, <2>1, <2>4, <2>5, <2>6, <2>7 DEF SpoolsInOrder
  <1>10. ASSUME NEW size \in SpoolSizes, NEW max \in MaxByteLimits, NEW late \in BOOLEAN, Reload(size, max, late)
         PROVE RunInv' /\ SpoolsInOrder'
    BY <1>10, <1>s, <1>t DEF Reload, Send, RunInv
  <1>11. ASSUME NEW size \in SpoolSizes, NEW max \in MaxByteLimits, NEW late \in BOOLEAN, ReloadInSend(size, max, late)
         PROVE RunInv' /\ SpoolsInOrder'
    <2>1. CASE MustFlush(size, late)
      <3>1. /\ UNCHANGED <<spool, taken, output, delivered>> /\ pc = "send" /\ pc' = "send"
            /\ after' = "append" <=> after = "append"
        BY <1>11, <2>1 DEF ReloadInSend
      <3> QED  BY <1>t, <3>1 DEF RunInv, SpoolsInOrder, SentUpTo
    <2>2. CASE ~MustFlush(size, late)
      <3>1. /\ UNCHANGED <<taken, output, delivered>>
            /\ spool'.from = spool.to /\ spool'.to = taken' /\ after' = "continue" /\ RunInv'
        BY <1>8, <1>11, <2>2 DEF ReloadInSend
      <3>2. SentUpTo' = SentUpTo /\ SentUpTo \in Nat
        BY <1>n, <1>t, <3>1 DEF SentUpTo
      <3>3. SentUpTo <= spool.to
        BY <1>n, <1>t, <3>2 DEF RunInv, SpoolsInOrder
      <3> QED  BY <1>n, <1>t, <3>1, <3>2, <3>3 DEF SpoolsInOrder
    <2> QED  BY <2>1, <2>2
  <1>12. CASE Shutdown
    BY <1>12, <1>t DEF Shutdown, RunInv, SpoolsInOrder, SentUpTo
  <1>13. CASE UNCHANGED vars
    BY <1>13, <1>u DEF vars
  <1> QED
    BY <1>1, <1>2, <1>3, <1>4, <1>5, <1>6, <1>7, <1>9, <1>10, <1>11, <1>12, <1>13
    DEF Next, Run, ConfigStep

\* spooler.go: whatever makes Run flush, and however reloads, flushes, timeouts and
\* a slow publisher interleave, spools leave in the order of their events and no
\* event leaves twice.
THEOREM SpoolsOrdered == Spec => []SpoolsInOrder
  <1>1. IndInv => SpoolsInOrder
    BY DEF IndInv
  <1>2. IndInv /\ [Next]_vars => IndInv'
    BY TypeStep, OrderStep DEF IndInv
  <1> QED  BY InitInd, <1>1, <1>2, PTL DEF Spec

-----------------------------------------------------------------------------
(* The limit on bytes. *)

\* A spool reaches the limit under which it was filled only with a single event.
Limited(sp) == SpoolLen(sp) > 1 => sp.bytes < sp.limit

BytesInv == Limited(spool) /\ BytesLimited

LEMMA BytesStep == IndInv /\ BytesInv /\ [Next]_vars => BytesInv'
  <1> SUFFICES ASSUME IndInv, BytesInv, [Next]_vars PROVE BytesInv'
    OBVIOUS
  <1> USE SpoolerAssumption DEF spoolVars, config
  <1>t. /\ TypeOK /\ RunInv
        /\ output \in Seq(SpoolRec) /\ spool \in SpoolRec /\ held \in Nat
        /\ spool.from \in Nat /\ spool.to \in Nat /\ spool.bytes \in Nat
    BY DEF IndInv, TypeOK, SpoolRec
  <1>u. ASSUME UNCHANGED <<spool, output>> PROVE BytesInv'
    BY <1>u DEF BytesInv, Limited, BytesLimited
  \* One event alone is within the limit, and so is what TooLarge lets through.
  <1>a. ASSUME NEW size \in Nat, NEW max
        PROVE  /\ Limited(Emptied(spool)) /\ Limited(Added(Emptied(spool), size, max))
               /\ ~TooLarge(size) => Limited(Added(spool, size, spoolMaxBytes))
    <2>1. SpoolLen(Emptied(spool)) = 0
      BY <1>t DEF Emptied, SpoolLen
    <2>2. SpoolLen(Added(Emptied(spool), size, max)) = 1
      BY <1>t DEF Emptied, Added, SpoolLen
    <2>3. SpoolLen(Added(spool, size, spoolMaxBytes)) = SpoolLen(spool) + 1 /\ SpoolLen(spool) \in Nat
      BY <1>t DEF Added, SpoolLen, RunInv
    <2>4. /\ Added(spool, size, spoolMaxBytes).bytes = spool.bytes + size
          /\ Added(spool, size, spoolMaxBytes).limit = spoolMaxBytes
      BY DEF Added
    <2>5. spoolMaxBytes \in Nat
      BY <1>t DEF TypeOK
    <2> QED  BY <1>t, <2>1, <2>2, <2>3, <2>4, <2>5 DEF Limited, TooLarge
  <1>1. ASSUME NEW size \in EventSizes, Harvest(size) PROVE BytesInv'
    BY <1>1, <1>u DEF Harvest
  <1>2. CASE CallFlush
    BY <1>2, <1>u DEF CallFlush
  <1>3. CASE PublisherTakes
    <2>1. /\ output # <<>> /\ output' = Tail(output) /\ UNCHANGED spool
          /\ Len(output') = Len(output) - 1
          /\ \A i \in 1 .. Len(output) - 1 : output'[i] = output[i + 1]
      BY <1>3, <1>t, TailOfOutput DEF PublisherTakes
    <2>2. Len(output) \in Nat
      BY <1>t
    <2> QED  BY <2>1, <2>2 DEF BytesInv, Limited, BytesLimited
  <1>4. CASE TimerFires
    BY <1>4, <1>u DEF TimerFires
  <1>5. CASE TakeFlush
    BY <1>5, <1>u DEF TakeFlush
  <1>6. CASE TakeEvent
    <2>1. Head(input) \in Nat /\ UNCHANGED output
      <3>1. input \in Seq(EventSizes \cup {Flush}) /\ input # <<>>
        BY <1>6, <1>t DEF TakeEvent, TypeOK
      <3>2. Head(input) \in EventSizes \cup {Flush}
        BY <3>1
      <3> QED  BY <1>6, <3>2 DEF Flush, TakeEvent
    <2>2. Limited(spool')
      BY <1>6, <1>a, <2>1 DEF TakeEvent, BytesInv
    <2> QED  BY <2>1, <2>2 DEF BytesInv, Limited, BytesLimited
  <1>7. CASE TakeTimer
    BY <1>7, <1>u DEF TakeTimer
  <1>8. ASSUME SendReturns PROVE Limited(spool')
    BY <1>8, <1>a, <1>t DEF SendReturns
  <1>9. CASE SendSpool
    <2>1. output' = Append(output, spool) /\ Limited(spool')
      BY <1>8, <1>9 DEF SendSpool
    <2>2. \A i \in 1 .. Len(output') : Limited(output'[i])
      BY <1>t, <2>1 DEF BytesInv, Limited, BytesLimited
    <2> QED  BY <2>1, <2>2 DEF BytesInv, Limited, BytesLimited
  <1>10. ASSUME NEW size \in SpoolSizes, NEW max \in MaxByteLimits, NEW late \in BOOLEAN, Reload(size, max, late) PROVE BytesInv'
    BY <1>10, <1>u DEF Reload
  <1>11. ASSUME NEW size \in SpoolSizes, NEW max \in MaxByteLimits, NEW late \in BOOLEAN, ReloadInSend(size, max, late) PROVE BytesInv'
    <2>1. UNCHANGED output /\ (spool' = spool \/ Limited(spool'))
      BY <1>8, <1>11 DEF ReloadInSend
    <2> QED  BY <2>1 DEF BytesInv, Limited, BytesLimited
  <1>12. CASE Shutdown
    BY <1>12, <1>u DEF Shutdown
  <1>13. CASE UNCHANGED vars
    BY <1>13, <1>u DEF vars
  <1> QED
    BY <1>1, <1>2, <1>3, <1>4, <1>5, <1>6, <1>7, <1>9, <1>10, <1>11, <1>12, <1>13
    DEF Next, Run, ConfigStep

\* spooler.go, Run: no spool with more than one event reaches the "spool max bytes"
\* that was in force when its last event was added, whatever the sizes of events,
\* over any number of reloads that raise or lower it, and although the event that
\* did not fit is added to the next spool without a test.
THEOREM BytesAreLimited == Spec => []BytesLimited
  <1>1. Init => BytesInv
    BY DEF Init, BytesInv, Limited, BytesLimited, SpoolLen
  <1>2. BytesInv => BytesLimited
    BY DEF BytesInv
  <1>3. IndInv /\ [Next]_vars => IndInv'
    BY TypeStep, OrderStep DEF IndInv
  <1> QED  BY InitInd, BytesStep, <1>1, <1>2, <1>3, PTL DEF Spec

-----------------------------------------------------------------------------
(* Without a reload nothing is skipped, and no spool is empty or too long. *)

\* While Run selects there is room in the spool, and an event is held only with
\* another in a spool that had room: so the spool it starts has room again.
RoomInv ==
    reloads = 0 =>
      /\ spoolCap = spoolSize
      /\ pc = "select" \/ after = "append" => SpoolLen(spool) < spoolSize
      /\ pc = "send" => SpoolLen(spool) \in 1 .. spoolSize
      /\ NothingSkipped
      /\ \A i \in 1 .. Len(output) : SpoolLen(output[i]) \in 1 .. spoolSize

LEMMA RoomStep == IndInv /\ RoomInv /\ [Next]_vars => RoomInv'
  <1> SUFFICES ASSUME IndInv, RoomInv, [Next]_vars, reloads' = 0 PROVE RoomInv'
    BY DEF RoomInv
  <1> USE SpoolerAssumption DEF spoolVars, config
  <1>t. /\ TypeOK /\ RunInv
        /\ output \in Seq(SpoolRec) /\ Len(output) \in Nat /\ spool \in SpoolRec /\ held \in Nat
        /\ spool.from \in Nat /\ spool.to \in Nat /\ spool.from <= spool.to
        /\ spoolSize \in Nat \ {0}
    BY DEF IndInv, TypeOK, SpoolRec, RunInv
  <1>o. output \in Seq(SpoolRec) /\ spool \in SpoolRec /\ held \in Nat
    BY <1>t
  \* A configuration cannot have come.
  <1>r. reloads = 0 /\ (Next => ~ConfigStep) /\ UNCHANGED spoolSize
    <2>1. ASSUME NEW size \in SpoolSizes, NEW max \in MaxByteLimits, NEW late \in BOOLEAN,
                 Reload(size, max, late) \/ ReloadInSend(size, max, late)
          PROVE  FALSE
      BY <1>t, <2>1 DEF Reload, ReloadInSend, TypeOK
    <2>2. ~ConfigStep
      BY <2>1 DEF ConfigStep
    <2> QED
      BY <2>2 DEF Next, vars, Harvest, CallFlush, PublisherTakes, TimerFires, Run, TakeFlush,
                  TakeEvent, TakeTimer, SendSpool, Shutdown
  <1>i. /\ spoolCap = spoolSize
        /\ pc = "select" \/ after = "append" => SpoolLen(spool) < spoolSize
        /\ pc = "send" => SpoolLen(spool) \in 1 .. spoolSize
        /\ NothingSkipped
        /\ \A i \in 1 .. Len(output) : SpoolLen(output[i]) \in 1 .. spoolSize
    BY <1>r DEF RoomInv
  <1>l. SpoolLen(spool) \in Nat /\ SpoolLen(spool) = spool.to - spool.from
    BY <1>t DEF SpoolLen
  <1>u. ASSUME UNCHANGED <<pc, after, spool, spoolCap, output, delivered>> PROVE RoomInv'
    BY <1>i, <1>r, <1>u DEF RoomInv, NothingSkipped, SentUpTo, SpoolLen
  \* Steps that begin to send something.
  <1>s. ASSUME UNCHANGED <<spool, spoolCap, output, delivered>>, pc = "select", pc' = "send",
               SpoolLen(spool) > 0
        PROVE  RoomInv'
    BY <1>i, <1>l, <1>r, <1>s, <1>t DEF RoomInv, NothingSkipped, SentUpTo, SpoolLen
  <1>1. ASSUME NEW size \in EventSizes, Harvest(size) PROVE RoomInv'
    BY <1>1, <1>u DEF Harvest
  <1>2. CASE CallFlush
    BY <1>2, <1>u DEF CallFlush
  <1>3. CASE PublisherTakes
    <2>1. /\ output # <<>> /\ output' = Tail(output) /\ delivered' = output[1].to
          /\ UNCHANGED <<pc, after, spool, spoolCap>>
          /\ Len(output') = Len(output) - 1 /\ Len(output) > 0
          /\ \A i \in 1 .. Len(output) - 1 : output'[i] = output[i + 1]
      BY <1>3, <1>t, TailOfOutput DEF PublisherTakes
    <2>2. output' = <<>> <=> Len(output) = 1
      <3>1. output' \in Seq(SpoolRec)
        BY <1>t, <2>1, TailOfOutput
      <3>2. Len(output') = Len(output) - 1 /\ Len(output) \in Nat \ {0}
        BY <1>t, <2>1
      <3>3. output' = <<>> <=> Len(output') = 0
        BY <3>1
      <3> QED  BY <3>2, <3>3
    <2>3. \A i \in 1 .. Len(output') : SpoolLen(output'[i]) \in 1 .. spoolSize
      BY <1>i, <1>t, <2>1
    <2>4. SentUpTo' = SentUpTo
      BY <1>t, <2>1, <2>2 DEF SentUpTo
    <2>5. output' # <<>> => delivered' = output'[1].from
      BY <1>i, <1>t, <2>1, <2>2 DEF NothingSkipped
    <2>6. \A i \in 1 .. Len(output') - 1 : output'[i].to = output'[i + 1].from
      <3> TAKE i \in 1 .. Len(output') - 1
      <3>1. i + 1 \in 1 .. Len(output) - 1 /\ i \in 1 .. Len(output) - 1
        BY <1>t, <2>1
      <3> QED  BY <1>i, <2>1, <3>1 DEF NothingSkipped
    <2> QED  BY <1>i, <1>r, <2>1, <2>3, <2>4, <2>5, <2>6 DEF RoomInv, NothingSkipped, SpoolLen
  <1>4. CASE TimerFires
    BY <1>4, <1>u DEF TimerFires
  <1>5. CASE TakeFlush
    BY <1>5, <1>s, <1>u DEF TakeFlush, Send
  <1>6. CASE TakeEvent
    <2>1. Head(input) \in Nat
      <3>1. input \in Seq(EventSizes \cup {Flush}) /\ input # <<>>
        BY <1>6, <1>t DEF TakeEvent, TypeOK
      <3>2. Head(input) \in EventSizes \cup {Flush}
        BY <3>1
      <3>3. EventSizes \cup {Flush} \subseteq Nat
        BY DEF Flush
      <3> QED  BY <3>2, <3>3
    <2>2. CASE TooLarge(Head(input))
      BY <1>6, <1>s, <2>2 DEF TakeEvent, Send, TooLarge
    <2>3. CASE ~TooLarge(Head(input))
      <3>1. spool'.from = spool.from /\ spool'.to = spool.to + 1
        <4>1. spool' = Added(spool, Head(input), spoolMaxBytes)
          BY <1>6, <2>3 DEF TakeEvent
        <4> QED  BY <1>t, <2>1, <4>1, AddedSpool
      <3>2. SpoolLen(spool') = SpoolLen(spool) + 1
        BY <1>t, <3>1 DEF SpoolLen
      <3>3. /\ UNCHANGED <<spoolCap, output, delivered>> /\ pc = "select" /\ after = "continue"
            /\ IF Full(spool') THEN pc' = "send" /\ after' = "restart" ELSE UNCHANGED <<pc, after>>
        BY <1>6, <1>t, <2>3 DEF TakeEvent, Send, RunInv
      <3>4. Full(spool') <=> SpoolLen(spool) + 1 >= spoolSize
        BY <1>i, <3>2, <3>3 DEF Full
      <3>5. NothingSkipped'
        BY <1>i, <3>1, <3>3 DEF NothingSkipped, SentUpTo
      <3> QED  BY <1>i, <1>l, <1>r, <1>t, <3>2, <3>3, <3>4, <3>5 DEF RoomInv, SpoolLen
    <2> QED  BY <2>2, <2>3
  <1>7. CASE TakeTimer
    BY <1>7, <1>s, <1>u DEF TakeTimer, Send
  <1>9. CASE SendSpool
    <2>1. /\ output' = Append(output, spool) /\ UNCHANGED delivered /\ pc = "send"
          /\ pc' = "select" /\ after' = "continue" /\ spoolCap' = spoolSize'
      BY <1>9 DEF SendSpool, SendReturns
    <2>2. /\ spool'.from = spool.to
          /\ spool'.to = IF after = "append" THEN spool.to + 1 ELSE spool.to
      <3>1. /\ Emptied(spool).from = spool.to /\ Emptied(spool).to = spool.to
            /\ Added(Emptied(spool), held, spoolMaxBytes').from = spool.to
            /\ Added(Emptied(spool), held, spoolMaxBytes').to = spool.to + 1
        BY <1>o, AddedSpool, EmptiedSpool
      <3> QED  BY <1>9, <3>1 DEF SendSpool, SendReturns
    <2>3. /\ Len(output') = Len(output) + 1 /\ output' # <<>>
          /\ output'[Len(output) + 1] = spool
          /\ \A i \in 1 .. Len(output) : output'[i] = output[i]
      BY <1>t, <2>1
    <2>4. output = <<>> <=> Len(output) = 0
      BY <1>t
    <2>5. \A i \in 1 .. Len(output') : SpoolLen(output'[i]) \in 1 .. spoolSize
      BY <1>i, <1>t, <2>1, <2>3
    <2>6. delivered' = output'[1].from
      BY <1>i, <1>t, <2>1, <2>3, <2>4 DEF NothingSkipped, SentUpTo
    <2>7. \A i \in 1 .. Len(output') - 1 : output'[i].to = output'[i + 1].from
      <3> TAKE i \in 1 .. Len(output') - 1
      <3>1. CASE i < Len(output)
        <4>1. i \in 1 .. Len(output) - 1 /\ i \in 1 .. Len(output) /\ i + 1 \in 1 .. Len(output)
          BY <1>t, <2>3, <3>1
        <4> QED  BY <1>i, <2>3, <4>1 DEF NothingSkipped
      <3>2. CASE i = Len(output)
        <4>1. output'[i] = output[Len(output)] /\ output'[i + 1] = spool /\ output # <<>>
          BY <1>t, <2>3, <2>4, <3>2
        <4> QED  BY <1>i, <4>1 DEF NothingSkipped, SentUpTo
      <3> QED  BY <1>t, <2>3, <3>1, <3>2
    <2>8. SentUpTo' = spool'.from
      BY <1>t, <2>2, <2>3 DEF SentUpTo
    <2>9. SpoolLen(spool') < spoolSize
      BY <1>i, <1>l, <1>t, <2>1, <2>2 DEF SpoolLen
    <2> QED  BY <1>i, <1>r, <2>1, <2>3, <2>5, <2>6, <2>7, <2>8, <2>9 DEF RoomInv, NothingSkipped, SpoolLen
  <1>12. CASE Shutdown
    BY <1>12, <1>i, <1>r DEF Shutdown, RoomInv, NothingSkipped, SentUpTo, SpoolLen
  <1>13. CASE UNCHANGED vars
    BY <1>13, <1>u DEF vars
  <1> QED
    BY <1>1, <1>2, <1>3, <1>4, <1>5, <1>6, <1>7, <1>9, <1>12, <1>13, <1>r DEF Next, Run

\* spooler.go: as long as no configuration arrives, every event that was taken is in
\* a spool that was sent, in the one being filled, or in hand, and no spool is empty
\* or has more events than "spool size", also where the event that did not fit is
\* added to the next spool without a test.
THEOREM EverythingSent == Spec => []SendsAll
  <1>1. Init => RoomInv
    BY SpoolerAssumption DEF Init, RoomInv, NothingSkipped, SentUpTo, SpoolLen
  <1>2. RoomInv => SendsAll
    BY DEF RoomInv, SendsAll
  <1>3. IndInv /\ [Next]_vars => IndInv'
    BY TypeStep, OrderStep DEF IndInv
  <1> QED  BY InitInd, RoomStep, <1>1, <1>2, <1>3, PTL DEF Spec
=============================================================================
