------------------------ MODULE SendPipelineProofs ------------------------
(***************************************************************************)
(* Proofs about the send path, for every set of threads and every number   *)
(* of sends: the ownership of _sendEvent, and the refinement of the lossy  *)
(* FIFO of SendChannel.                                                    *)
(***************************************************************************)
EXTENDS SendPipeline, SequenceTheorems, TLAPS

\* The properties checked one by one are consequences of Ownership.
LEMMA OwnershipImplies ==
  ASSUME Ownership
  PROVE  SingleFlight /\ BuffersPinned /\ NoEmptySend
BY DEF Ownership, NoEmptySend

\* A thread that has the duty is alone, and the kernel has nothing.
LEMMA HolderIsAlone ==
  ASSUME Ownership, NEW t \in Threads, pc[t] \in Holding
  PROVE  /\ inflight = <<>>
         /\ \A u \in Threads : u # t => pc[u] = "idle"
BY DEF Ownership, SingleFlight, TypeOK, Labels

LEMMA InitOwnership == Init => Ownership
<1> SUFFICES ASSUME Init PROVE Ownership
  OBVIOUS
<1> USE SendAssumption
<1>1. <<>> \in Seq(Buffers) /\ <<>> \in Seq(Seq(Buffers) \ {<<>>})
  BY EmptySeq
<1>2. TypeOK
  <2>1. pc \in [Threads -> Labels]
    BY DEF Init, Labels
  <2>2. lost \subseteq Buffers /\ accepted \in 0..MaxSends
    BY DEF Init
  <2> HIDE DEF Buffers
  <2>3. QED
    BY <1>1, <2>1, <2>2 DEF Init, TypeOK
<1>3. \A t \in Threads : pc[t] \notin Holding
  BY DEF Init, Holding
<1>4. SingleFlight
  BY <1>1, <1>3, LenProperties DEF Init, SingleFlight
<1>5. QED
  BY <1>2, <1>3, <1>4 DEF Ownership, Init, BuffersPinned, Holding

\* Everything a thread with the duty does before it hands the duty on, by its
\* own statements or through the kernel.
LEMMA HolderStep ==
  ASSUME Ownership, NEW t \in Threads, TypeOK',
         pc[t] \in Holding, NEW l \in Labels, pc' = [pc EXCEPT ![t] = l],
         inflight' = inflight,
         stalled' => ~sendRegistered',
         l \in Holding => sendRegistered',
         l \in {"register", "prepare", "drain"} => sendQueue' # <<>>,
         l \in {"issue", "error", "release"} => evBuffers' # <<>>,
         l \in {"drain", "issue", "error", "release"} => evOwner',
         l \in {"register", "prepare", "drain", "unregister", "settle", "idle"}
            => evBuffers' = <<>>
  PROVE  Ownership'
<1>1. inflight' = <<>> /\ \A u \in Threads : u # t => pc[u] = "idle"
  BY HolderIsAlone
<1>2. \A u \in Threads : pc'[u] = IF u = t THEN l ELSE "idle"
  BY <1>1 DEF Ownership, TypeOK
<1>3. SingleFlight'
  BY <1>1, <1>2, LenProperties, EmptySeq DEF SingleFlight, Holding
<1>4. BuffersPinned'
  BY <1>1 DEF BuffersPinned
<1>5. QED
  BY <1>1, <1>2, <1>3, <1>4 DEF Ownership, Holding

LEMMA SendOwnership ==
  ASSUME Ownership, NEW t \in Threads, Send(t)
  PROVE  Ownership'
<1> USE SendAssumption DEF Send, Goto, link
<1>1. accepted' \in Buffers /\ accepted' \in 0..MaxSends
  BY DEF Ownership, TypeOK, Buffers
<1>2. sendQueue' \in Seq(Buffers) /\ sendQueue' # <<>>
  BY <1>1, AppendProperties DEF Ownership, TypeOK
<1>3. TypeOK'
  BY <1>1, <1>2 DEF Ownership, TypeOK, Labels, Holding
<1>4. CASE sendRegistered
  <2>1. pc' = pc
    BY <1>4 DEF Ownership, TypeOK
  <2>2. SingleFlight' /\ BuffersPinned'
    BY <2>1 DEF Ownership, SingleFlight, BuffersPinned
  <2>3. QED
    BY <1>2, <1>3, <2>1, <2>2 DEF Ownership
<1>5. CASE ~sendRegistered
  <2>1. inflight = <<>> /\ \A u \in Threads : pc[u] = "idle"
    BY <1>5 DEF Ownership, TypeOK, Labels
  <2>2. evBuffers = <<>>
    BY <2>1 DEF Ownership
  <2>3. \A u \in Threads : pc'[u] = IF u = t THEN "register" ELSE "idle"
    BY <1>5, <2>1 DEF Ownership, TypeOK
  <2>4. SingleFlight' /\ BuffersPinned'
    BY <2>1, <2>3, LenProperties, EmptySeq DEF SingleFlight, BuffersPinned, Holding
  <2>5. QED
    BY <1>2, <1>3, <2>1, <2>2, <2>3, <2>4 DEF Ownership, Holding
<1>6. QED
  BY <1>4, <1>5

LEMMA RegisterSendOwnership ==
  ASSUME Ownership, NEW t \in Threads, RegisterSend(t)
  PROVE  Ownership'
<1> USE DEF Goto, link
<1>a. TypeOK /\ <<>> \in Seq(Buffers)
  BY EmptySeq DEF Ownership
<1>b. \A l \in Labels : pc[t] \in Holding => [pc EXCEPT ![t] = l] \in [Threads -> Labels]
  BY <1>a DEF TypeOK
<1>1. CASE CheckConnected(t)
  <2> USE <1>1 DEF CheckConnected
  <2>1. TypeOK'
    BY <1>a DEF TypeOK, Labels, Holding
  <2>2. QED
    BY <2>1, HolderStep DEF Ownership, Labels, Holding
<1>2. CASE PrepareEvent(t)
  <2> USE <1>2 DEF PrepareEvent
  <2>1. TypeOK'
    BY <1>a DEF TypeOK, Labels, Holding
  <2>2. QED
    BY <2>1, HolderStep DEF Ownership, Labels, Holding
<1>3. CASE DrainQueue(t)
  <2> USE <1>3 DEF DrainQueue
  <2>1. evBuffers = <<>> /\ sendQueue # <<>>
    BY DEF Ownership
  <2>2. evBuffers' = sendQueue
    BY <1>a, <2>1, ConcatEmptySeq DEF TypeOK
  <2>3. TypeOK'
    BY <1>a, <2>2 DEF TypeOK, Labels, Holding
  <2>4. QED
    BY <2>1, <2>2, <2>3, HolderStep DEF Ownership, Labels, Holding
<1>4. CASE IssueSend(t)
  <2> USE <1>4 DEF IssueSend
  <2>1. pc[t] \in Holding
    BY DEF Holding
  <2>2. inflight = <<>> /\ \A u \in Threads : u # t => pc[u] = "idle"
    BY <2>1, HolderIsAlone
  <2>3. evBuffers \in Seq(Buffers) \ {<<>>} /\ evOwner /\ sendRegistered
    BY <1>a, <2>1 DEF Ownership, TypeOK
  <2>4. inflight' = <<evBuffers>>
    BY <2>2, <2>3
  <2>5. inflight' \in Seq(Seq(Buffers) \ {<<>>}) /\ inflight' # <<>> /\ Len(inflight') = 1
    <3> DEFINE T == Seq(Buffers) \ {<<>>}
    <3>1. inflight \in Seq(T) /\ evBuffers \in T /\ Len(inflight) = 0
      BY <1>a, <2>2, <2>3, EmptySeq DEF TypeOK
    <3> HIDE DEF T
    <3>2. Append(inflight, evBuffers) \in Seq(T) /\ Len(Append(inflight, evBuffers)) = 1
          /\ Append(inflight, evBuffers) # <<>>
      BY <3>1, AppendProperties
    <3>3. QED
      BY <3>2 DEF T
  <2>6. wire' \in Seq(Buffers)
    BY <1>a, <2>3, ConcatProperties DEF TypeOK
  <2>7. TypeOK'
    BY <1>a, <2>5, <2>6 DEF TypeOK, Labels, Holding
  <2>8. \A u \in Threads : pc'[u] = "idle"
    BY <1>a, <2>2 DEF TypeOK
  <2>9. SingleFlight' /\ BuffersPinned'
    BY <2>3, <2>4, <2>5, <2>8 DEF SingleFlight, BuffersPinned, Holding
  <2>10. QED
    BY <2>3, <2>5, <2>7, <2>8, <2>9 DEF Ownership, Holding
<1>5. CASE IssueFails(t)
  <2> USE <1>5 DEF IssueFails
  <2>1. TypeOK'
    BY <1>a DEF TypeOK, Labels, Holding
  <2>2. QED
    BY <2>1, HolderStep DEF Ownership, Labels, Holding
<1>6. CASE HandleError(t)
  <2> USE <1>6 DEF HandleError
  <2>1. TypeOK'
    BY <1>a DEF TypeOK, Labels, Holding
  <2>2. QED
    BY <2>1, HolderStep DEF Ownership, Labels, Holding
<1>7. CASE ReleaseFailed(t)
  <2> USE <1>7 DEF ReleaseFailed
  <2>1. lost' \subseteq Buffers
    BY <1>a, ElementOfSeq DEF TypeOK
  <2>2. TypeOK'
    BY <1>a, <2>1 DEF TypeOK, Labels, Holding
  <2>3. QED
    BY <2>2, HolderStep DEF Ownership, Labels, Holding
<1>8. CASE Unregister(t)
  <2> USE <1>8 DEF Unregister
  <2>1. TypeOK'
    BY <1>a DEF TypeOK, Labels, Holding
  <2>2. QED
    BY <2>1, HolderStep DEF Ownership, Labels, Holding
<1>9. QED
  BY <1>1, <1>2, <1>3, <1>4, <1>5, <1>6, <1>7, <1>8 DEF RegisterSend

LEMMA DispatchOwnership ==
  ASSUME Ownership, NEW t \in Threads, Dispatch(t)
  PROVE  Ownership'
<1> USE DEF Goto, link, Dispatch
<1>1. PICK l \in {"sent", "closing"} : pc' = [pc EXCEPT ![t] = l]
  OBVIOUS
<1>2. \A u \in Threads : pc[u] = "idle"
  BY DEF Ownership, SingleFlight, TypeOK, Labels
<1>3. \A u \in Threads : pc'[u] = IF u = t THEN l ELSE "idle"
  BY <1>1, <1>2 DEF Ownership, TypeOK
<1>4. inflight' \in Seq(Seq(Buffers) \ {<<>>}) /\ Len(inflight') = 0
  <2> DEFINE T == Seq(Buffers) \ {<<>>}
  <2>1. inflight \in Seq(T) /\ inflight # <<>> /\ Len(inflight) <= 1
    BY DEF Ownership, SingleFlight, TypeOK
  <2> HIDE DEF T
  <2>2. Len(inflight) \in Nat \ {0}
    BY <2>1, EmptySeq
  <2>3. Tail(inflight) \in Seq(T) /\ Len(Tail(inflight)) = Len(inflight) - 1
    BY <2>1, HeadTailProperties
  <2>4. QED
    BY <2>1, <2>2, <2>3 DEF T
<1>5. inflight' = <<>>
  BY <1>4, EmptySeq
<1>6. TypeOK'
  BY <1>1, <1>4 DEF Ownership, TypeOK, Labels, Holding
<1>7. SingleFlight' /\ BuffersPinned'
  <2>1. Len(inflight') <= 1
    BY <1>4
  <2>2. QED
    BY <1>3, <1>5, <2>1 DEF SingleFlight, BuffersPinned, Holding
<1>8. sendRegistered' /\ ~stalled'
  BY DEF Ownership
<1>9. QED
  BY <1>1, <1>3, <1>5, <1>6, <1>7, <1>8 DEF Ownership, Holding

LEMMA ProcessSendOwnership ==
  ASSUME Ownership, NEW t \in Threads, ProcessSend(t)
  PROVE  Ownership'
<1> USE DEF Goto, link
<1>a. TypeOK /\ <<>> \in Seq(Buffers)
  BY EmptySeq DEF Ownership
<1>1. CASE ReleaseSent(t)
  <2> USE <1>1 DEF ReleaseSent
  <2>1. TypeOK'
    BY <1>a DEF TypeOK, Labels, Holding
  <2>2. QED
    BY <2>1, HolderStep DEF Ownership, Labels, Holding
<1>2. CASE Settle(t)
  <2> USE <1>2 DEF Settle
  <2>1. TypeOK'
    BY <1>a DEF TypeOK, Labels, Holding
  <2>2. QED
    BY <2>1, HolderStep DEF Ownership, Labels, Holding
<1>3. QED
  BY <1>1, <1>2 DEF ProcessSend

LEMMA StepOwnership == Ownership /\ [Next]_vars => Ownership'
<1> SUFFICES ASSUME Ownership, [Next]_vars PROVE Ownership'
  OBVIOUS
<1>1. ASSUME NEW t \in Threads, ProcessConnect(t) \/ Disconnect(t) PROVE Ownership'
  <2>1. /\ UNCHANGED <<accepted, sendQueue, sendRegistered, evOwner, evBuffers, inflight,
                        pc, wire, lost, stalled>>
        /\ connecting' \in BOOLEAN /\ connected' \in BOOLEAN /\ early' \in BOOLEAN
    BY <1>1 DEF ProcessConnect, Disconnect, Ownership, TypeOK
  <2>2. TypeOK' /\ SingleFlight' /\ BuffersPinned'
    BY <2>1 DEF Ownership, TypeOK, SingleFlight, BuffersPinned
  <2>3. QED
    BY <2>1, <2>2 DEF Ownership
<1>2. CASE UNCHANGED vars
  BY <1>2 DEF vars, link, Ownership, TypeOK, SingleFlight, BuffersPinned
<1>3. QED
  BY <1>1, <1>2, SendOwnership, RegisterSendOwnership, DispatchOwnership,
     ProcessSendOwnership DEF Next

\* _sendEvent has one user at a time, its buffers stay referenced while the
\* kernel reads them, and no empty send is issued (Session.cpp, send path).
THEOREM SendOwnershipInvariant == Spec => []Ownership
BY InitOwnership, StepOwnership, PTL DEF Spec

\* The same, property by property.
THEOREM SendSafety == Spec => [](SingleFlight /\ BuffersPinned /\ NoEmptySend)
<1>1. Ownership => SingleFlight /\ BuffersPinned /\ NoEmptySend
  BY OwnershipImplies
<1>2. QED
  BY <1>1, SendOwnershipInvariant, PTL

\* While a WSASend is outstanding, and until its completion has been handled, the
\* event references every buffer the kernel was given (sendBuffers is cleared in
\* ProcessSend, not when the call returns).
THEOREM SendBuffersPinned == Spec => []BuffersPinned
<1>1. Ownership => BuffersPinned
  BY OwnershipImplies
<1>2. QED
  BY <1>1, SendOwnershipInvariant, PTL

\* RegisterSend never issues a WSASend of no buffers: the turn is taken only by
\* a thread that has queued one, or handed on over a queue that is not empty.
THEOREM SendNeverEmpty == Spec => []NoEmptySend
<1>1. Ownership => NoEmptySend
  BY OwnershipImplies
<1>2. QED
  BY <1>1, SendOwnershipInvariant, PTL

\* A queued buffer always has somebody on the way to send it, unless the last
\* send failed at once: the flag is turned off over a queue that is not empty
\* by Session.cpp:199 only.
THEOREM SendNoLostWakeup == Spec => []NoLostWakeup
<1> USE DEF NoLostWakeup, Goto, link
<1>1. Init => NoLostWakeup
  BY DEF Init
<1>2. NoLostWakeup /\ [Next]_vars => NoLostWakeup'
  <2> SUFFICES ASSUME NoLostWakeup, [Next]_vars PROVE NoLostWakeup'
    OBVIOUS
  <2>1. ASSUME NEW t \in Threads, RegisterSend(t) PROVE NoLostWakeup'
    BY <2>1 DEF RegisterSend, CheckConnected, PrepareEvent, DrainQueue, IssueSend,
                IssueFails, HandleError, ReleaseFailed, Unregister
  <2>2. ASSUME NEW t \in Threads,
               Send(t) \/ Dispatch(t) \/ ProcessSend(t) \/ ProcessConnect(t) \/ Disconnect(t)
        PROVE  NoLostWakeup'
    BY <2>2 DEF Send, Dispatch, ProcessSend, ReleaseSent, Settle, ProcessConnect, Disconnect
  <2>3. CASE UNCHANGED vars
    BY <2>3 DEF vars
  <2>4. QED
    BY <2>1, <2>2, <2>3 DEF Next
<1>3. QED
  BY <1>1, <1>2, PTL DEF Spec

-----------------------------------------------------------------------------
(* The refinement *)

LEMMA InitChannel == Init => Channel!Init
<1> SUFFICES ASSUME Init PROVE Channel!Init
  OBVIOUS
<1>1. Unsent = <<>>
  BY DEF Init, Unsent
<1>2. <<>> \o <<>> = <<>>
  BY EmptySeq, ConcatEmptySeq
<1>3. QED
  BY <1>1, <1>2 DEF Init, Channel!Init

\* What Unsent is, read off the one thread that may have the duty.
LEMMA UnsentOfHolder ==
  ASSUME Ownership, NEW t \in Threads, pc[t] \in Holding
  PROVE  Unsent = IF pc[t] \in {"issue", "error", "release"} THEN evBuffers ELSE <<>>
BY HolderIsAlone DEF Unsent, Holding

LEMMA UnsentAfter ==
  ASSUME Ownership, NEW t \in Threads, pc[t] \in Holding,
         NEW l \in Labels, pc' = [pc EXCEPT ![t] = l]
  PROVE  Unsent' = IF l \in {"issue", "error", "release"} THEN evBuffers' ELSE <<>>
<1>1. \A u \in Threads : pc'[u] = IF u = t THEN l ELSE "idle"
  BY HolderIsAlone DEF Ownership, TypeOK
<1>2. QED
  BY <1>1 DEF Unsent

\* Removing the buffers of the event from the front of pending.
LEMMA FrontOfPending ==
  ASSUME NEW a \in Seq(Buffers), NEW b \in Seq(Buffers), a # <<>>
  PROVE  /\ Len(a) \in 1..Len(a \o b)
         /\ SubSeq(a \o b, 1, Len(a)) = a
         /\ SubSeq(a \o b, Len(a) + 1, Len(a \o b)) = b
         /\ \A i \in 1..Len(a) : (a \o b)[i] = a[i]
<1> HIDE DEF Buffers
<1>1. Len(a) \in Nat \ {0} /\ Len(b) \in Nat
  BY EmptySeq, LenProperties
<1>2. /\ a \o b \in Seq(Buffers)
      /\ Len(a \o b) = Len(a) + Len(b)
      /\ \A i \in 1..Len(a) + Len(b) :
           (a \o b)[i] = IF i <= Len(a) THEN a[i] ELSE b[i - Len(a)]
  BY ConcatProperties
<1>3. SubSeq(a \o b, 1, Len(a)) = a
  BY <1>1, SubSeqOfConcat1, SubSeqFull
<1>4. SubSeq(a \o b, Len(a) + 1, Len(a \o b)) = b
  <2>1. CASE Len(b) = 0
    <3>1. b = <<>>
      BY <2>1, EmptySeq
    <3>2. QED
      BY <1>1, <1>2, <2>1, <3>1, SubSeqEmpty
  <2>2. CASE Len(b) # 0
    <3>1. SubSeq(a \o b, Len(a) + 1, Len(a) + Len(b)) = SubSeq(b, 1, Len(b))
      <4>1. /\ Len(a) + 1 \in Len(a) + 1 .. Len(a) + Len(b)
            /\ Len(a) + Len(b) \in Len(a) + 1 .. Len(a) + Len(b)
        BY <1>1, <2>2
      <4>2. SubSeq(a \o b, Len(a) + 1, Len(a) + Len(b))
              = SubSeq(b, Len(a) + 1 - Len(a), Len(a) + Len(b) - Len(a))
        BY <4>1, SubSeqOfConcat2
      <4>3. Len(a) + 1 - Len(a) = 1 /\ Len(a) + Len(b) - Len(a) = Len(b)
        BY <1>1
      <4>4. QED
        BY <4>2, <4>3
    <3>2. QED
      BY <1>2, <3>1, SubSeqFull
  <2>3. QED
    BY <2>1, <2>2
<1>5. QED
  BY <1>1, <1>2, <1>3, <1>4

LEMMA StepChannel == Ownership /\ [Next]_vars => [Channel!Next]_(Channel!channelVars)
<1> SUFFICES ASSUME Ownership, [Next]_vars
             PROVE  Channel!Next \/ UNCHANGED Channel!channelVars
  BY DEF Channel!channelVars
<1> USE DEF Goto, link
<1>a. TypeOK
  BY DEF Ownership
<1>1. ASSUME NEW t \in Threads, Send(t) PROVE Channel!Accept
  <2> USE <1>1 DEF Send
  <2>1. accepted' \in Buffers /\ accepted < MaxSends /\ accepted' = accepted + 1
    BY <1>a, SendAssumption DEF TypeOK, Buffers
  <2>2. Unsent \in Seq(Buffers) /\ sendQueue \in Seq(Buffers)
    BY <1>a, EmptySeq DEF TypeOK, Unsent
  <2>3. Unsent' = Unsent
    BY <1>a DEF TypeOK, Unsent
  <2>4. Unsent \o Append(sendQueue, accepted') = Append(Unsent \o sendQueue, accepted')
    <3> HIDE DEF Send, Buffers
    <3>1. Append(sendQueue, accepted') = sendQueue \o <<accepted'>>
      BY <2>1, <2>2, AppendIsConcat
    <3>2. <<accepted'>> \in Seq(Buffers)
      BY <2>1
    <3>3. Unsent \o sendQueue \in Seq(Buffers)
      BY <2>2, ConcatProperties
    <3>4. Append(Unsent \o sendQueue, accepted') = (Unsent \o sendQueue) \o <<accepted'>>
      BY <2>1, <3>3, AppendIsConcat
    <3>5. QED
      BY <2>2, <3>1, <3>2, <3>4, ConcatAssociative
  <2>5. QED
    BY <2>1, <2>3, <2>4 DEF Channel!Accept
<1>2. ASSUME NEW t \in Threads,
             CheckConnected(t) \/ PrepareEvent(t) \/ IssueFails(t) \/ HandleError(t)
               \/ Unregister(t) \/ Settle(t) \/ ReleaseSent(t)
      PROVE  UNCHANGED Channel!channelVars
  <2> USE DEF CheckConnected, PrepareEvent, IssueFails, HandleError, Unregister,
              Settle, ReleaseSent
  <2>1. /\ pc[t] \in Holding
        /\ \E l \in Labels :
             /\ pc' = [pc EXCEPT ![t] = l]
             /\ l \in {"issue", "error", "release"} <=> pc[t] \in {"issue", "error", "release"}
             /\ l \in {"issue", "error", "release"} => evBuffers' = evBuffers
    BY <1>2 DEF Labels, Holding
  <2>2. Unsent' = Unsent
    BY <2>1, UnsentOfHolder, UnsentAfter
  <2>3. QED
    BY <1>2, <2>2 DEF Channel!channelVars
<1>3. ASSUME NEW t \in Threads, DrainQueue(t) PROVE UNCHANGED Channel!channelVars
  <2> USE <1>3 DEF DrainQueue
  <2>1. Unsent = <<>> /\ Unsent' = evBuffers'
    BY UnsentOfHolder, UnsentAfter DEF Holding, Labels
  <2>2. evBuffers = <<>>
    BY DEF Ownership
  <2>3. evBuffers' = sendQueue
    BY <1>a, <2>2, ConcatEmptySeq DEF TypeOK
  <2>4. Unsent' \o sendQueue' = Unsent \o sendQueue
    BY <1>a, <2>1, <2>3, ConcatEmptySeq DEF TypeOK
  <2>5. QED
    BY <2>4 DEF Channel!channelVars
<1>4. ASSUME NEW t \in Threads, IssueSend(t) PROVE Channel!Transmit
  <2> USE <1>4 DEF IssueSend
  <2>0. pc[t] = "issue" /\ pc' = [pc EXCEPT ![t] = "idle"] /\ "idle" \in Labels
    BY DEF Labels
  <2>1. Unsent = evBuffers /\ Unsent' = <<>>
    <3>1. Unsent = evBuffers
      BY <2>0, UnsentOfHolder DEF Holding
    <3>2. Unsent' = <<>>
      BY <2>0, UnsentAfter DEF Holding
    <3>3. QED
      BY <3>1, <3>2
  <2>2. evBuffers \in Seq(Buffers) /\ evBuffers # <<>> /\ sendQueue \in Seq(Buffers)
    BY <1>a DEF Ownership, TypeOK
  <2>3. Unsent' \o sendQueue' = sendQueue
    BY <2>1, <2>2, ConcatEmptySeq
  <2>4. QED
    BY <2>1, <2>2, <2>3, FrontOfPending DEF Channel!Transmit, Channel!Take
<1>5. ASSUME NEW t \in Threads, ReleaseFailed(t) PROVE Channel!Drop
  <2> USE <1>5 DEF ReleaseFailed
  <2>0. pc[t] = "release" /\ pc' = [pc EXCEPT ![t] = "unregister"] /\ "unregister" \in Labels
    BY DEF Labels, Holding
  <2>1. Unsent = evBuffers /\ Unsent' = <<>>
    <3>1. Unsent = evBuffers
      BY <2>0, UnsentOfHolder DEF Holding
    <3>2. Unsent' = <<>>
      BY <2>0, UnsentAfter DEF Holding
    <3>3. QED
      BY <3>1, <3>2
  <2>2. evBuffers \in Seq(Buffers) /\ evBuffers # <<>> /\ sendQueue \in Seq(Buffers)
    BY <1>a DEF Ownership, TypeOK
  <2>3. Unsent' \o sendQueue' = sendQueue
    BY <2>1, <2>2, ConcatEmptySeq
  <2>4. {evBuffers[i] : i \in 1..Len(evBuffers)}
          = {(evBuffers \o sendQueue)[i] : i \in 1..Len(evBuffers)}
    <3>1. \A i \in 1..Len(evBuffers) : (evBuffers \o sendQueue)[i] = evBuffers[i]
      BY <2>2, FrontOfPending
    <3>2. QED
      BY <3>1
  <2>5. QED
    BY <2>1, <2>2, <2>3, <2>4, FrontOfPending DEF Channel!Drop, Channel!Take
<1>6. ASSUME NEW t \in Threads, Dispatch(t) PROVE UNCHANGED Channel!channelVars
  <2> USE <1>6 DEF Dispatch
  <2>1. \A u \in Threads : pc[u] = "idle"
    BY DEF Ownership, SingleFlight, TypeOK, Labels
  <2>2. \A u \in Threads : pc'[u] \notin {"issue", "error", "release"}
    BY <1>a, <2>1 DEF TypeOK
  <2>3. Unsent = <<>> /\ Unsent' = <<>>
    BY <2>1, <2>2 DEF Unsent
  <2>4. QED
    BY <2>3 DEF Channel!channelVars
<1>7. ASSUME NEW t \in Threads, ProcessConnect(t) \/ Disconnect(t)
      PROVE  UNCHANGED Channel!channelVars
  BY <1>7 DEF ProcessConnect, Disconnect, Unsent, Channel!channelVars
<1>8. CASE UNCHANGED vars
  BY <1>8 DEF vars, Unsent, Channel!channelVars
<1>9. QED
  BY <1>1, <1>2, <1>3, <1>4, <1>5, <1>6, <1>7, <1>8
     DEF Next, RegisterSend, ProcessSend, Channel!Next

\* The send path of Session.cpp implements the lossy FIFO its callers rely on.
THEOREM SendRefinesChannel == Spec => ImplementsChannel
<1>1. Spec => []Ownership
  BY SendOwnershipInvariant
<1>2. QED
  BY <1>1, InitChannel, StepChannel, PTL DEF Spec, ImplementsChannel, Channel!Spec
============================================================================
