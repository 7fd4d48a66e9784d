-------------------------- MODULE AudioSessionProofs --------------------------
(***************************************************************************)
(* For any number of blocks and any faults: the types, and what one        *)
(* capture returns and hands to its consumer.  Blocks are counted through  *)
(* the hand-over from the callback to the loop, the queue, the buffer and  *)
(* the chunks.                                                             *)
(***************************************************************************)
EXTENDS AudioSession, SequenceTheorems, TLAPS

Kept == client \notin {"cancelClose", "cancelWait", "cancelled"}
Over == pump \in {"failed", "done", "cancelled"}

\* What the place of the client says of the pump, and what was counted.
Places ==
    /\ client = "new" => /\ device = "none" /\ pump = "none" /\ ~ended /\ captured = 0
                         /\ posted = <<>> /\ raw = <<>> /\ buffer = <<>>
                         /\ chunks = <<>> /\ heard = <<>>
    /\ client \in {"capturing", "stopClose"} => pump \in {"running", "failed"}
    /\ client \in {"returned", "failed"} => pump # "running"
    /\ client = "returned" => pcm = buffer
    /\ client \in {"new", "capturing"}
          => Len(buffer) + Len(raw) + Len(posted) <= captured
    /\ client = "stopClose" => Len(buffer) + Len(raw) >= queued
    /\ Kept /\ pump = "done" => Len(buffer) >= queued

\* The buffer is the beginning of the recording.  Up to the sentinel the queue
\* goes on where the buffer ends; without a sentinel, the hand-over where the
\* queue ends.
RawOrder ==
    /\ \A i \in 1..Len(buffer) : buffer[i] = i
    /\ pump = "running" =>
          /\ \A i \in 1..Len(raw) :
                (\A j \in 1..i : raw[j] # Sentinel) => raw[i] = Len(buffer) + i
          /\ client \in {"capturing", "stopClose"} =>
                /\ \A i \in 1..Len(raw) : raw[i] # Sentinel
                /\ \A i \in 1..Len(posted) : posted[i] = Len(buffer) + Len(raw) + i
                /\ Len(buffer) + Len(raw) + Len(posted) = captured
          /\ client = "stopWait" =>
                /\ \E i \in 1..Len(raw) : raw[i] = Sentinel
                /\ \A i \in 1..Len(raw) : raw[i] = Sentinel => Len(buffer) + i > queued

\* The chunks read and to be read are the buffer, and then the sentinel.
ChunkOrder ==
    /\ \A i \in 1..Len(heard) : heard[i] = i
    /\ \A i \in 1..Len(chunks) : Len(heard) + i <= Len(buffer) => chunks[i] = Len(heard) + i
    /\ ~Over => ~ended /\ Len(heard) + Len(chunks) = Len(buffer)
    /\ Over /\ ~ended => /\ Len(heard) + Len(chunks) = Len(buffer) + 1
                         /\ chunks[Len(chunks)] = Sentinel
    /\ ended => Len(heard) = Len(buffer)

AudioInv ==
    /\ TypeOK
    /\ Places
    /\ Kept => RawOrder
    /\ Kept => ChunkOrder

USE DEF audioVars

LEMMA SentinelIsNoBlock == Sentinel \notin Blocks /\ MaxBlocks \in Nat /\ Blocks \subseteq Nat
BY BlocksAssumption DEF Sentinel, Blocks

\* What the steps do to a queue.
LEMMA Appended ==
  ASSUME NEW S, NEW s \in Seq(S), NEW e \in S
  PROVE  /\ Append(s, e) \in Seq(S) /\ Len(Append(s, e)) = Len(s) + 1
         /\ \A i \in 1..Len(s) : Append(s, e)[i] = s[i]
         /\ Append(s, e)[Len(s) + 1] = e
         /\ Len(s) \in Nat
BY AppendProperties, LenProperties

LEMMA Removed ==
  ASSUME NEW S, NEW s \in Seq(S), s # <<>>
  PROVE  /\ Tail(s) \in Seq(S) /\ Head(s) \in S /\ Head(s) = s[1]
         /\ Len(s) \in Nat \ {0} /\ Len(Tail(s)) = Len(s) - 1
         /\ \A i \in 1..Len(Tail(s)) : Tail(s)[i] = s[i + 1]
<1>1. Head(s) = s[1]
  OBVIOUS
<1> QED
  BY <1>1, HeadTailProperties, EmptySeq, LenProperties

\* Every step keeps the types.
LEMMA TypeStep == AudioInv /\ [Next]_vars => TypeOK'
<1> SUFFICES ASSUME AudioInv, [Next]_vars PROVE TypeOK'
  OBVIOUS
<1> USE SentinelIsNoBlock DEF TypeOK
<1>t. TypeOK
  BY DEF AudioInv
<1>1. CASE UNCHANGED vars
  BY <1>1, <1>t DEF vars
<1>2. CASE Start
  BY <1>2, <1>t DEF Start
<1>3. CASE StartFails
  BY <1>3, <1>t DEF StartFails
<1>4. CASE Stop
  <2>1. Len(buffer) + Len(raw) + Len(posted) <= captured
    BY <1>4 DEF Stop, AudioInv, Places
  <2>2. Len(buffer) \in Nat /\ Len(raw) \in Nat /\ Len(posted) \in Nat
    BY <1>t, LenProperties
  <2>3. queued' \in 0..MaxBlocks
    BY <1>4, <1>t, <2>1, <2>2 DEF Stop
  <2> QED
    BY <1>4, <1>t, <2>3 DEF Stop
<1>5. CASE Cancel
  <2>1. buffer' \in Seq(Blocks)
    BY <1>5, EmptySeq DEF Cancel
  <2>2. recording' \in BOOLEAN /\ client' = "cancelClose"
    BY <1>5 DEF Cancel
  <2> QED
    BY <1>5, <1>t, <2>1, <2>2 DEF Cancel
<1>6. CASE CloseDevice
  BY <1>6, <1>t DEF CloseDevice
<1>7. CASE StopEnds
  BY <1>7, <1>t DEF StopEnds
<1>8. CASE CancelEnds
  BY <1>8, <1>t DEF CancelEnds
<1>9. CASE KillWait
  BY <1>9, <1>t DEF KillWait
<1>10. CASE Callback
  <2>1. captured' \in 0..MaxBlocks /\ captured' \in Blocks
    BY <1>10, <1>t DEF Callback, Blocks
  <2> QED
    BY <1>10, <1>t, <2>1 DEF Callback
<1>11. CASE QueueBlock
  <2>1. Head(posted) \in Blocks /\ Tail(posted) \in Seq(Blocks)
    BY <1>11, <1>t, Removed DEF QueueBlock
  <2> QED
    BY <1>11, <1>t, <2>1 DEF QueueBlock
<1>r. raw # <<>> => /\ Head(raw) \in Blocks \cup {Sentinel}
                    /\ Tail(raw) \in Seq(Blocks \cup {Sentinel})
  BY <1>t, Removed
<1>12. CASE PumpBlock
  <2>1. Head(raw) \in Blocks
    BY <1>12, <1>r DEF PumpBlock
  <2> QED
    BY <1>12, <1>t, <1>r, <2>1 DEF PumpBlock
<1>13. CASE PumpFails
  BY <1>13, <1>t, <1>r DEF PumpFails
<1>14. CASE PumpEnds
  BY <1>14, <1>t, <1>r DEF PumpEnds
<1>15. CASE Consume
  <2>1. Head(chunks) \in Blocks \cup {Sentinel} /\ Tail(chunks) \in Seq(Blocks \cup {Sentinel})
    BY <1>15, <1>t, Removed DEF Consume
  <2>2. heard' \in Seq(Blocks) /\ ended' \in BOOLEAN
    <3>1. CASE Head(chunks) = Sentinel
      BY <1>15, <1>t, <3>1 DEF Consume
    <3>2. CASE Head(chunks) # Sentinel
      <4>1. Head(chunks) \in Blocks
        BY <3>2, <2>1
      <4>2. ended' = ended /\ heard' = Append(heard, Head(chunks))
        BY <1>15, <3>2 DEF Consume
      <4> QED
        BY <1>t, <4>1, <4>2
    <3> QED
      BY <3>1, <3>2
  <2> QED
    BY <1>15, <1>t, <2>1, <2>2 DEF Consume
<1> QED
  BY <1>1, <1>2, <1>3, <1>4, <1>5, <1>6, <1>7, <1>8, <1>9, <1>10, <1>11, <1>12, <1>13,
     <1>14, <1>15 DEF Next, Teardown, Loop

\* Blocks are neither lost nor counted twice between the queues.
LEMMA PlacesStep == AudioInv /\ [Next]_vars => Places'
<1> SUFFICES ASSUME AudioInv, [Next]_vars PROVE Places'
  OBVIOUS
<1>t. TypeOK
  BY DEF AudioInv
<1>p. Places
  BY DEF AudioInv
<1>n. /\ captured \in Nat /\ queued \in Nat /\ MaxBlocks \in Nat
      /\ Len(buffer) \in Nat /\ Len(raw) \in Nat /\ Len(posted) \in Nat
  BY <1>t, LenProperties, SentinelIsNoBlock DEF TypeOK
<1>r. raw # <<>> => Len(raw) \in Nat \ {0} /\ Len(Tail(raw)) = Len(raw) - 1
  BY <1>t, Removed DEF TypeOK
<1>o. posted # <<>> => Len(posted) \in Nat \ {0} /\ Len(Tail(posted)) = Len(posted) - 1
  BY <1>t, Removed DEF TypeOK
<1> USE DEF Places, Kept
<1>1. CASE UNCHANGED vars
  BY <1>1, <1>p DEF vars
<1>2. CASE Start
  BY <1>2, <1>p, <1>n DEF Start
<1>3. CASE StartFails
  BY <1>3, <1>p DEF StartFails
<1>4. CASE Stop
  BY <1>4, <1>p, <1>n DEF Stop
<1>5. CASE Cancel
  BY <1>5, <1>p DEF Cancel
<1>6. CASE CloseDevice
  BY <1>6, <1>p DEF CloseDevice
<1>7. CASE StopEnds
  BY <1>7, <1>p DEF StopEnds
<1>8. CASE CancelEnds
  BY <1>8, <1>p DEF CancelEnds
<1>9. CASE KillWait
  BY <1>9, <1>p DEF KillWait
<1>10. CASE Callback
  <2>1. Len(posted') = Len(posted) + 1
    <3>1. captured' \in Blocks
      BY <1>10, <1>n DEF Callback, Blocks
    <3> QED
      BY <1>10, <3>1, <1>t, Appended DEF Callback, TypeOK
  <2> QED
    BY <1>10, <2>1, <1>p, <1>n DEF Callback
<1>11. CASE QueueBlock
  <2>1. Len(raw') = Len(raw) + 1 /\ Len(posted') = Len(posted) - 1
    <3>1. Head(posted) \in Blocks \cup {Sentinel}
      BY <1>11, <1>t, Removed DEF QueueBlock, TypeOK
    <3>2. Len(Append(raw, Head(posted))) = Len(raw) + 1
      BY <3>1, <1>t, Appended DEF TypeOK
    <3> QED
      BY <1>11, <3>2, <1>o DEF QueueBlock
  <2>2. client \notin {"new", "stopClose"}
    BY <1>11, <1>p DEF QueueBlock, LoopFree
  <2> QED
    BY <1>11, <2>1, <2>2, <1>p, <1>n DEF QueueBlock
<1>12. CASE PumpBlock
  <2>1. Len(raw') = Len(raw) - 1 /\ Len(buffer') = Len(buffer) + 1
    <3>1. Head(raw) \in Blocks
      BY <1>12, <1>t, Removed DEF PumpBlock, TypeOK
    <3> QED
      BY <1>12, <3>1, <1>t, <1>r, Appended DEF PumpBlock, TypeOK
  <2>2. client \notin {"new", "stopClose", "returned", "failed"}
    BY <1>12, <1>p DEF PumpBlock, LoopFree
  <2> QED
    BY <1>12, <2>1, <2>2, <1>p, <1>n DEF PumpBlock
<1>13. CASE PumpFails
  <2>1. client \notin {"new", "stopClose", "returned", "failed"}
    BY <1>13, <1>p DEF PumpFails, LoopFree
  <2> QED
    BY <1>13, <2>1, <1>p, <1>n, <1>r DEF PumpFails
<1>14. CASE PumpEnds
  <2>1. raw # <<>> /\ raw[1] = Sentinel /\ 1 \in 1..Len(raw)
    BY <1>14, <1>t, <1>r, Removed DEF PumpEnds, TypeOK
  <2>2. client \notin {"new", "stopClose", "returned", "failed"}
    BY <1>14, <1>p DEF PumpEnds, LoopFree
  <2>3. ASSUME Kept PROVE client = "stopWait" /\ Len(buffer) >= queued
    <3>1. RawOrder /\ pump = "running"
      BY <2>3, <1>14 DEF AudioInv, PumpEnds
    <3>2. client # "capturing"
      BY <3>1, <2>1 DEF RawOrder
    <3>3. client = "stopWait"
      BY <3>2, <2>2, <2>3, <1>t DEF TypeOK
    <3>4. Len(buffer) + 1 > queued
      BY <3>1, <3>3, <2>1 DEF RawOrder
    <3> QED
      BY <3>3, <3>4, <1>n
  <2>4. UNCHANGED <<buffer, client, queued, pcm>> /\ pump' = "done"
    BY <1>14 DEF PumpEnds
  <2> QED
    BY <2>2, <2>3, <2>4
<1>15. CASE Consume
  BY <1>15, <1>p DEF Consume
<1> QED
  BY <1>1, <1>2, <1>3, <1>4, <1>5, <1>6, <1>7, <1>8, <1>9, <1>10, <1>11, <1>12, <1>13,
     <1>14, <1>15 DEF Next, Teardown, Loop

\* The buffer, the queue and the hand-over go on where the one before ends.
LEMMA RawStep == AudioInv /\ [Next]_vars => (Kept => RawOrder)'
<1> SUFFICES ASSUME AudioInv, [Next]_vars, Kept' PROVE RawOrder'
  OBVIOUS
<1>t. TypeOK
  BY DEF AudioInv
<1>p. Places
  BY DEF AudioInv
<1>n. /\ captured \in Nat /\ queued \in Nat
      /\ Len(buffer) \in Nat /\ Len(raw) \in Nat /\ Len(posted) \in Nat
  BY <1>t, LenProperties DEF TypeOK
<1>k. Kept
  BY <1>t DEF Kept, TypeOK, Next, Start, StartFails, Stop, Cancel, Teardown, CloseDevice,
     StopEnds, CancelEnds, KillWait, Callback, Loop, QueueBlock, PumpBlock, PumpFails,
     PumpEnds, Consume, vars
<1>o. RawOrder
  BY <1>k DEF AudioInv
<1>b. \A i \in 1..Len(buffer) : buffer[i] = i
  BY <1>o DEF RawOrder
<1>d. UNCHANGED buffer /\ pump' # "running" => RawOrder'
  BY <1>b DEF RawOrder
<1>1. CASE UNCHANGED vars
  BY <1>1, <1>o DEF vars, RawOrder
<1>2. CASE Start
  <2>1. buffer' = <<>> /\ raw' = <<>> /\ posted' = <<>> /\ captured' = 0
        /\ client' = "capturing"
    BY <1>2, <1>p DEF Start, Places
  <2> QED
    BY <2>1 DEF RawOrder
<1>3. CASE StartFails
  BY <1>3, <1>p, <1>d DEF StartFails, Places
<1>4. CASE Stop
  BY <1>4, <1>o DEF Stop, RawOrder
<1>5. CASE Cancel
  BY <1>5 DEF Cancel, Kept
<1>6. CASE CloseDevice
  <2>1. CASE pump # "running"
    BY <1>6, <2>1, <1>d DEF CloseDevice
  <2>2. CASE pump = "running"
    <3>1. client = "stopClose" /\ client' = "stopWait"
      BY <1>6, <1>k DEF CloseDevice, Kept
    <3>2. /\ Len(raw') = Len(raw) + 1 /\ raw'[Len(raw) + 1] = Sentinel
          /\ \A i \in 1..Len(raw) : raw'[i] = raw[i]
      BY <1>6, <1>t, Appended DEF CloseDevice, TypeOK
    <3>3. /\ Len(buffer) + Len(raw) >= queued
          /\ \A i \in 1..Len(raw) : raw[i] # Sentinel
      BY <3>1, <2>2, <1>p, <1>o DEF Places, RawOrder
    <3>4. UNCHANGED <<buffer, pump, queued>>
      BY <1>6 DEF CloseDevice
    <3>5. ASSUME NEW i \in 1..Len(raw'), \A j \in 1..i : raw'[j] # Sentinel
          PROVE  raw'[i] = Len(buffer) + i
      <4>1. i # Len(raw) + 1
        BY <3>2, <3>5, <1>n
      <4>2. i \in 1..Len(raw)
        BY <4>1, <3>2, <1>n
      <4>3. \A j \in 1..i : raw[j] # Sentinel
        BY <4>2, <3>3, <1>n
      <4>4. raw[i] = Len(buffer) + i
        BY <4>2, <4>3, <2>2, <1>o DEF RawOrder
      <4> QED
        BY <4>2, <4>4, <3>2
    <3>6. \E i \in 1..Len(raw') : raw'[i] = Sentinel
      BY <3>2, <1>n
    <3>7. ASSUME NEW i \in 1..Len(raw'), raw'[i] = Sentinel
          PROVE  Len(buffer) + i > queued
      <4>1. i = Len(raw) + 1
        BY <3>7, <3>2, <3>3, <1>n
      <4> QED
        BY <4>1, <3>3, <1>n
    <3> QED
      BY <3>1, <3>4, <3>5, <3>6, <3>7, <1>b DEF RawOrder
  <2> QED
    BY <2>1, <2>2
<1>7. CASE StopEnds
  BY <1>7, <1>d DEF StopEnds
<1>8. CASE CancelEnds
  BY <1>8, <1>k DEF CancelEnds, Kept
<1>9. CASE KillWait
  BY <1>9, <1>d DEF KillWait
<1>10. CASE Callback
  <2>1. captured' = captured + 1 /\ captured' \in Blocks
    BY <1>10, <1>n, SentinelIsNoBlock DEF Callback, Blocks
  <2>2. /\ Len(posted') = Len(posted) + 1 /\ posted'[Len(posted) + 1] = captured'
        /\ \A i \in 1..Len(posted) : posted'[i] = posted[i]
    BY <1>10, <1>t, <2>1, Appended DEF Callback, TypeOK
  <2>3. UNCHANGED <<buffer, raw, pump, client, queued>>
    BY <1>10 DEF Callback
  <2>4. ASSUME pump = "running", client \in {"capturing", "stopClose"}
        PROVE  /\ \A i \in 1..Len(posted') : posted'[i] = Len(buffer) + Len(raw) + i
               /\ Len(buffer) + Len(raw) + Len(posted') = captured'
    <3>1. /\ \A i \in 1..Len(posted) : posted[i] = Len(buffer) + Len(raw) + i
          /\ Len(buffer) + Len(raw) + Len(posted) = captured
      BY <2>4, <1>o DEF RawOrder
    <3> QED
      BY <3>1, <2>1, <2>2, <1>n
  <2> QED
    BY <2>3, <2>4, <1>o DEF RawOrder
<1>11. CASE QueueBlock
  <2> DEFINE h == Head(posted)
  <2>1. /\ Len(posted) \in Nat \ {0} /\ Len(posted') = Len(posted) - 1
        /\ h = posted[1] /\ h \in Blocks
        /\ \A i \in 1..Len(posted') : posted'[i] = posted[i + 1]
    BY <1>11, <1>t, Removed DEF QueueBlock, TypeOK
  <2>2. h # Sentinel /\ h \in Blocks \cup {Sentinel}
    BY <2>1, SentinelIsNoBlock
  <2>3. /\ Len(raw') = Len(raw) + 1 /\ raw'[Len(raw) + 1] = h
        /\ \A i \in 1..Len(raw) : raw'[i] = raw[i]
    <3>1. raw' = Append(raw, h)
      BY <1>11 DEF QueueBlock
    <3> QED
      BY <3>1, <2>2, <1>t, Appended DEF TypeOK
  <2>4. UNCHANGED <<buffer, captured, pump, client, queued>>
    BY <1>11 DEF QueueBlock
  <2>5. CASE pump # "running"
    BY <2>4, <2>5, <1>d
  <2>6. CASE pump = "running"
    <3> HIDE DEF h
    <3>1. client \in {"capturing", "stopWait"}
      BY <2>6, <1>11, <1>k, <1>p, <1>t DEF QueueBlock, LoopFree, Kept, Places, TypeOK
    <3>2. CASE client = "capturing"
      <4>1. /\ \A i \in 1..Len(raw) : raw[i] # Sentinel
            /\ \A i \in 1..Len(raw) : raw[i] = Len(buffer) + i
            /\ \A i \in 1..Len(posted) : posted[i] = Len(buffer) + Len(raw) + i
            /\ Len(buffer) + Len(raw) + Len(posted) = captured
        <5>1. /\ \A i \in 1..Len(raw) : raw[i] # Sentinel
              /\ \A i \in 1..Len(posted) : posted[i] = Len(buffer) + Len(raw) + i
              /\ Len(buffer) + Len(raw) + Len(posted) = captured
          BY <3>2, <2>6, <1>o DEF RawOrder
        <5>2. ASSUME NEW i \in 1..Len(raw) PROVE raw[i] = Len(buffer) + i
          <6>1. \A j \in 1..i : raw[j] # Sentinel
            BY <5>1, <1>n
          <6> QED
            BY <6>1, <2>6, <1>o DEF RawOrder
        <5> QED
          BY <5>1, <5>2
      <4>2. h = Len(buffer) + Len(raw) + 1
        BY <4>1, <2>1, <1>n
      <4>3. \A i \in 1..Len(raw') : raw'[i] # Sentinel /\ raw'[i] = Len(buffer) + i
        <5> TAKE i \in 1..Len(raw')
        <5>1. CASE i = Len(raw) + 1
          BY <5>1, <4>2, <2>2, <2>3, <1>n
        <5>2. CASE i # Len(raw) + 1
          <6>1. i \in 1..Len(raw)
            BY <5>2, <2>3, <1>n
          <6> QED
            BY <6>1, <4>1, <2>3
        <5> QED
          BY <5>1, <5>2
      <4>4. /\ \A i \in 1..Len(posted') : posted'[i] = Len(buffer) + Len(raw') + i
            /\ Len(buffer) + Len(raw') + Len(posted') = captured
        <5>1. ASSUME NEW i \in 1..Len(posted')
              PROVE  posted'[i] = Len(buffer) + Len(raw') + i
          <6>1. i + 1 \in 1..Len(posted) /\ posted'[i] = posted[i + 1]
            BY <2>1, <1>n
          <6> QED
            BY <6>1, <4>1, <2>3, <1>n
        <5>2. Len(raw') + Len(posted') = Len(raw) + Len(posted)
          BY <2>1, <2>3, <1>n
        <5>3. Len(raw') \in Nat /\ Len(posted') \in Nat
          BY <2>1, <2>3, <1>n
        <5>4. Len(buffer) + Len(raw') + Len(posted') = captured
          <6>1. Len(buffer) + Len(raw) + Len(posted) = captured
            BY <4>1
          <6> QED
            BY <6>1, <5>2, <5>3, <1>n
        <5> QED
          BY <5>1, <5>4
      <4> QED
        BY <4>3, <4>4, <3>2, <2>4, <2>6, <1>b DEF RawOrder
    <3>3. CASE client = "stopWait"
      <4>1. /\ \E i \in 1..Len(raw) : raw[i] = Sentinel
            /\ \A i \in 1..Len(raw) : raw[i] = Sentinel => Len(buffer) + i > queued
            /\ \A i \in 1..Len(raw) :
                  (\A j \in 1..i : raw[j] # Sentinel) => raw[i] = Len(buffer) + i
        BY <3>3, <2>6, <1>o DEF RawOrder
      <4>2. \E i \in 1..Len(raw') : raw'[i] = Sentinel
        BY <4>1, <2>3, <1>n
      <4>3. ASSUME NEW i \in 1..Len(raw'), raw'[i] = Sentinel
            PROVE  Len(buffer) + i > queued
        <5>1. i \in 1..Len(raw)
          BY <4>3, <2>2, <2>3, <1>n
        <5> QED
          BY <5>1, <4>1, <4>3, <2>3
      <4>4. ASSUME NEW i \in 1..Len(raw'), \A j \in 1..i : raw'[j] # Sentinel
            PROVE  raw'[i] = Len(buffer) + i
        <5>1. PICK k \in 1..Len(raw) : raw[k] = Sentinel
          BY <4>1
        <5>2. raw'[k] = Sentinel
          BY <5>1, <2>3
        <5>3. ~(k <= i)
          BY <5>1, <5>2, <4>4, <1>n
        <5>4. i \in 1..Len(raw)
          BY <5>1, <5>3, <2>3, <1>n
        <5>5. \A j \in 1..i : raw[j] # Sentinel
          BY <5>4, <4>4, <2>3, <1>n
        <5>6. raw[i] = Len(buffer) + i
          BY <5>4, <5>5, <4>1
        <5> QED
          BY <5>4, <5>6, <2>3
      <4> QED
        BY <4>2, <4>3, <4>4, <3>3, <2>4, <1>b DEF RawOrder
    <3> QED
      BY <3>1, <3>2, <3>3
  <2> QED
    BY <2>5, <2>6
<1>12. CASE PumpBlock
  <2> DEFINE h == Head(raw)
  <2>1. /\ Len(raw) \in Nat \ {0} /\ Len(raw') = Len(raw) - 1
        /\ h = raw[1] /\ h # Sentinel /\ h \in Blocks
        /\ \A i \in 1..Len(raw') : raw'[i] = raw[i + 1]
    BY <1>12, <1>t, Removed DEF PumpBlock, TypeOK
  <2>2. /\ Len(buffer') = Len(buffer) + 1 /\ buffer'[Len(buffer) + 1] = h
        /\ \A i \in 1..Len(buffer) : buffer'[i] = buffer[i]
    <3>1. buffer' = Append(buffer, h)
      BY <1>12 DEF PumpBlock
    <3> QED
      BY <3>1, <2>1, <1>t, Appended DEF TypeOK
  <2>3. UNCHANGED <<posted, captured, pump, client, queued>> /\ pump = "running"
    BY <1>12 DEF PumpBlock, audioVars
  <2> HIDE DEF h
  <2>4. \A i \in 1..Len(raw) :
           (\A j \in 1..i : raw[j] # Sentinel) => raw[i] = Len(buffer) + i
    BY <2>3, <1>o DEF RawOrder
  <2>5. h = Len(buffer) + 1
    BY <2>1, <2>4
  <2>6. \A i \in 1..Len(buffer') : buffer'[i] = i
    BY <2>2, <2>5, <1>b, <1>n
  <2>7. ASSUME NEW i \in 1..Len(raw'), \A j \in 1..i : raw'[j] # Sentinel
        PROVE  raw'[i] = Len(buffer') + i
    <3>1. i + 1 \in 1..Len(raw) /\ raw'[i] = raw[i + 1]
      BY <2>1, <1>n
    <3>2. ASSUME NEW j \in 1..(i + 1) PROVE raw[j] # Sentinel
      <4>1. CASE j = 1
        BY <4>1, <2>1
      <4>2. CASE j # 1
        <5>1. j - 1 \in 1..i /\ j - 1 \in 1..Len(raw') /\ (j - 1) + 1 = j
          BY <4>2, <3>1, <2>1, <1>n
        <5>2. raw'[j - 1] = raw[j]
          BY <5>1, <2>1
        <5> QED
          BY <5>1, <5>2, <2>7
      <4> QED
        BY <4>1, <4>2
    <3>3. raw[i + 1] = Len(buffer) + (i + 1)
      BY <3>1, <3>2, <2>4
    <3> QED
      BY <3>1, <3>3, <2>2, <1>n
  <2>8. ASSUME client \in {"capturing", "stopClose"}
        PROVE  /\ \A i \in 1..Len(raw') : raw'[i] # Sentinel
               /\ \A i \in 1..Len(posted) : posted[i] = Len(buffer') + Len(raw') + i
               /\ Len(buffer') + Len(raw') + Len(posted) = captured
    <3>1. /\ \A i \in 1..Len(raw) : raw[i] # Sentinel
          /\ \A i \in 1..Len(posted) : posted[i] = Len(buffer) + Len(raw) + i
          /\ Len(buffer) + Len(raw) + Len(posted) = captured
      BY <2>8, <2>3, <1>o DEF RawOrder
    <3>2. Len(buffer') + Len(raw') = Len(buffer) + Len(raw)
      BY <2>1, <2>2, <1>n
    <3>3. \A i \in 1..Len(raw') : i + 1 \in 1..Len(raw)
      BY <2>1, <1>n
    <3> QED
      BY <3>1, <3>2, <3>3, <2>1
  <2>9. ASSUME client = "stopWait"
        PROVE  /\ \E i \in 1..Len(raw') : raw'[i] = Sentinel
               /\ \A i \in 1..Len(raw') : raw'[i] = Sentinel => Len(buffer') + i > queued
    <3>1. /\ \E i \in 1..Len(raw) : raw[i] = Sentinel
          /\ \A i \in 1..Len(raw) : raw[i] = Sentinel => Len(buffer) + i > queued
      BY <2>9, <2>3, <1>o DEF RawOrder
    <3>2. PICK k \in 1..Len(raw) : raw[k] = Sentinel
      BY <3>1
    <3>3. k # 1
      BY <3>2, <2>1
    <3>4. k - 1 \in 1..Len(raw') /\ (k - 1) + 1 = k
      BY <3>3, <2>1
    <3>5. raw'[k - 1] = Sentinel
      BY <3>2, <3>4, <2>1
    <3>6. ASSUME NEW i \in 1..Len(raw'), raw'[i] = Sentinel
          PROVE  Len(buffer') + i > queued
      <4>1. i + 1 \in 1..Len(raw) /\ raw[i + 1] = Sentinel
        BY <3>6, <2>1, <1>n
      <4>2. Len(buffer) + (i + 1) > queued
        BY <4>1, <3>1
      <4> QED
        BY <4>2, <2>2, <1>n
    <3> QED
      BY <3>4, <3>5, <3>6
  <2> QED
    BY <2>3, <2>6, <2>7, <2>8, <2>9 DEF RawOrder
<1>13. CASE PumpFails
  BY <1>13, <1>d DEF PumpFails
<1>14. CASE PumpEnds
  BY <1>14, <1>d DEF PumpEnds
<1>15. CASE Consume
  BY <1>15, <1>o DEF Consume, RawOrder
<1> QED
  BY <1>1, <1>2, <1>3, <1>4, <1>5, <1>6, <1>7, <1>8, <1>9, <1>10, <1>11, <1>12, <1>13,
     <1>14, <1>15 DEF Next, Teardown, Loop

\* The chunks follow the buffer.
LEMMA ChunkStep == AudioInv /\ [Next]_vars => (Kept => ChunkOrder)'
<1> SUFFICES ASSUME AudioInv, [Next]_vars, Kept' PROVE ChunkOrder'
  OBVIOUS
<1>t. TypeOK
  BY DEF AudioInv
<1>p. Places
  BY DEF AudioInv
<1>n. Len(buffer) \in Nat /\ Len(heard) \in Nat /\ Len(chunks) \in Nat
  BY <1>t, LenProperties DEF TypeOK
<1>k. Kept
  BY <1>t DEF Kept, TypeOK, Next, Start, StartFails, Stop, Cancel, Teardown, CloseDevice,
     StopEnds, CancelEnds, KillWait, Callback, Loop, QueueBlock, PumpBlock, PumpFails,
     PumpEnds, Consume, vars
<1>o. RawOrder /\ ChunkOrder
  BY <1>k DEF AudioInv
<1>s. UNCHANGED <<buffer, chunks, heard, ended>> /\ (Over <=> Over') => ChunkOrder'
  BY <1>o DEF ChunkOrder, Over
<1>e. ASSUME UNCHANGED <<buffer, heard, ended>>, chunks' = Append(chunks, Sentinel),
             pump = "running", Over'
      PROVE  ChunkOrder'
  <2>1. ~ended /\ Len(heard) + Len(chunks) = Len(buffer)
    BY <1>e, <1>o DEF ChunkOrder, Over
  <2>2. /\ Len(chunks') = Len(chunks) + 1 /\ chunks'[Len(chunks) + 1] = Sentinel
        /\ \A i \in 1..Len(chunks) : chunks'[i] = chunks[i]
    BY <1>e, <1>t, Appended DEF TypeOK
  <2>3. ASSUME NEW i \in 1..Len(chunks'), Len(heard) + i <= Len(buffer)
        PROVE  chunks'[i] = Len(heard) + i
    <3>1. i \in 1..Len(chunks)
      BY <2>1, <2>2, <2>3, <1>n
    <3> QED
      BY <3>1, <2>2, <2>3, <1>o DEF ChunkOrder
  <2>4. Len(heard) + Len(chunks') = Len(buffer) + 1 /\ chunks'[Len(chunks')] = Sentinel
    BY <2>1, <2>2, <1>n
  <2> QED
    BY <1>e, <1>o, <2>1, <2>3, <2>4 DEF ChunkOrder
<1>1. CASE UNCHANGED vars
  BY <1>1, <1>s DEF vars, Over
<1>2. CASE Start
  BY <1>2, <1>p, <1>s DEF Start, Places, Over
<1>3. CASE StartFails
  BY <1>3, <1>s DEF StartFails, Over
<1>4. CASE Stop
  BY <1>4, <1>s DEF Stop, Over
<1>5. CASE Cancel
  BY <1>5 DEF Cancel, Kept
<1>6. CASE CloseDevice
  BY <1>6, <1>s DEF CloseDevice, Over
<1>7. CASE StopEnds
  BY <1>7, <1>s DEF StopEnds, Over
<1>8. CASE CancelEnds
  BY <1>8, <1>s DEF CancelEnds, Over
<1>9. CASE KillWait
  BY <1>9, <1>e DEF KillWait, Over
<1>10. CASE Callback
  BY <1>10, <1>s DEF Callback, Over
<1>11. CASE QueueBlock
  BY <1>11, <1>s DEF QueueBlock, Over
<1>12. CASE PumpBlock
  <2> DEFINE h == Head(raw)
  <2>1. /\ h = raw[1] /\ h # Sentinel /\ h \in Blocks /\ 1 \in 1..Len(raw)
    BY <1>12, <1>t, Removed DEF PumpBlock, TypeOK
  <2>2. /\ Len(buffer') = Len(buffer) + 1
        /\ Len(chunks') = Len(chunks) + 1 /\ chunks'[Len(chunks) + 1] = h
        /\ \A i \in 1..Len(chunks) : chunks'[i] = chunks[i]
    <3>1. buffer' = Append(buffer, h) /\ chunks' = Append(chunks, h)
      BY <1>12 DEF PumpBlock
    <3>2. h \in Blocks \cup {Sentinel}
      BY <2>1
    <3> QED
      BY <3>1, <3>2, <2>1, <1>t, Appended DEF TypeOK
  <2>3. UNCHANGED <<heard, ended, pump>> /\ pump = "running"
    BY <1>12 DEF PumpBlock
  <2> HIDE DEF h
  <2>4. h = Len(buffer) + 1
    BY <2>1, <2>3, <1>o DEF RawOrder
  <2>5. ~ended /\ Len(heard) + Len(chunks) = Len(buffer)
    BY <2>3, <1>o DEF ChunkOrder, Over
  <2>6. ASSUME NEW i \in 1..Len(chunks')
        PROVE  chunks'[i] = Len(heard) + i
    <3>1. CASE i = Len(chunks) + 1
      BY <3>1, <2>2, <2>4, <2>5, <1>n
    <3>2. CASE i # Len(chunks) + 1
      <4>1. i \in 1..Len(chunks) /\ Len(heard) + i <= Len(buffer)
        BY <3>2, <2>2, <2>5, <1>n
      <4> QED
        BY <4>1, <2>2, <1>o DEF ChunkOrder
    <3> QED
      BY <3>1, <3>2
  <2> QED
    BY <2>2, <2>3, <2>5, <2>6, <1>o, <1>n DEF ChunkOrder, Over
<1>13. CASE PumpFails
  BY <1>13, <1>e DEF PumpFails, Over
<1>14. CASE PumpEnds
  BY <1>14, <1>e DEF PumpEnds, Over
<1>15. CASE Consume
  <2> DEFINE h == Head(chunks)
  <2>1. /\ Len(chunks) \in Nat \ {0} /\ Len(chunks') = Len(chunks) - 1
        /\ h = chunks[1] /\ h \in Blocks \cup {Sentinel}
        /\ \A i \in 1..Len(chunks') : chunks'[i] = chunks[i + 1]
    BY <1>15, <1>t, Removed DEF Consume, TypeOK
  <2>2. UNCHANGED <<buffer, pump>> /\ ~ended
    BY <1>15 DEF Consume
  <2>3. (Over <=> Over')
    BY <2>2 DEF Over
  <2>4. CASE h = Sentinel
    <3>1. ended' = TRUE /\ heard' = heard
      BY <1>15, <2>4 DEF Consume
    <3> HIDE DEF h
    <3>2. ~(Len(heard) + 1 <= Len(buffer))
      <4>1. ASSUME Len(heard) + 1 <= Len(buffer) PROVE FALSE
        <5>1. chunks[1] = Len(heard) + 1
          BY <4>1, <2>1, <1>o DEF ChunkOrder
        <5> QED
          BY <5>1, <2>1, <2>4, <1>n DEF Sentinel
      <4> QED
        BY <4>1
    <3>3. Over /\ Len(heard) + Len(chunks) = Len(buffer) + 1
      <4>1. ASSUME ~Over PROVE FALSE
        <5>1. Len(heard) + Len(chunks) = Len(buffer)
          BY <4>1, <1>o DEF ChunkOrder
        <5> QED
          BY <5>1, <3>2, <2>1, <1>n
      <4> QED
        BY <4>1, <2>2, <1>o DEF ChunkOrder
    <3>4. Len(chunks) = 1 /\ Len(heard) = Len(buffer)
      BY <3>2, <3>3, <2>1, <1>n
    <3>5. 1..Len(chunks') = {}
      BY <3>4, <2>1
    <3> QED
      BY <3>1, <3>3, <3>4, <3>5, <2>2, <2>3, <1>o DEF ChunkOrder
  <2>5. CASE h # Sentinel
    <3>1. ended' = ended /\ heard' = Append(heard, h)
      BY <1>15, <2>5 DEF Consume
    <3>2. /\ Len(heard') = Len(heard) + 1 /\ heard'[Len(heard) + 1] = h
          /\ \A i \in 1..Len(heard) : heard'[i] = heard[i]
      BY <3>1, <2>1, <2>5, <1>t, Appended DEF TypeOK
    <3> HIDE DEF h
    <3>3. Len(heard) + 1 <= Len(buffer)
      <4>1. CASE ~Over
        <5>1. Len(heard) + Len(chunks) = Len(buffer)
          BY <4>1, <1>o DEF ChunkOrder
        <5> QED
          BY <5>1, <2>1, <1>n
      <4>2. CASE Over
        <5>1. Len(heard) + Len(chunks) = Len(buffer) + 1 /\ chunks[Len(chunks)] = Sentinel
          BY <4>2, <2>2, <1>o DEF ChunkOrder
        <5>2. Len(chunks) # 1
          BY <5>1, <2>1, <2>5
        <5> QED
          BY <5>1, <5>2, <2>1, <1>n
      <4> QED
        BY <4>1, <4>2
    <3>4. h = Len(heard) + 1
      BY <3>3, <2>1, <1>o DEF ChunkOrder
    <3>5. \A i \in 1..Len(heard') : heard'[i] = i
      BY <3>2, <3>4, <1>o, <1>n DEF ChunkOrder
    <3>6. ASSUME NEW i \in 1..Len(chunks'), Len(heard') + i <= Len(buffer)
          PROVE  chunks'[i] = Len(heard') + i
      <4>1. /\ i + 1 \in 1..Len(chunks) /\ Len(heard) + (i + 1) <= Len(buffer)
            /\ chunks'[i] = chunks[i + 1]
        BY <3>2, <3>6, <2>1, <1>n
      <4>2. chunks[i + 1] = Len(heard) + (i + 1)
        BY <4>1, <1>o DEF ChunkOrder
      <4> QED
        BY <4>1, <4>2, <3>2, <1>n
    <3>7. Len(heard') + Len(chunks') = Len(heard) + Len(chunks)
      BY <3>2, <2>1, <1>n
    <3>8. ASSUME Over PROVE chunks'[Len(chunks')] = Sentinel
      <4>1. Len(heard) + Len(chunks) = Len(buffer) + 1 /\ chunks[Len(chunks)] = Sentinel
        BY <3>8, <2>2, <1>o DEF ChunkOrder
      <4>2. Len(chunks') \in 1..Len(chunks') /\ Len(chunks') + 1 = Len(chunks)
        BY <4>1, <3>3, <2>1, <1>n
      <4>3. chunks'[Len(chunks')] = chunks[Len(chunks') + 1]
        BY <4>2, <2>1
      <4> QED
        BY <4>1, <4>2, <4>3
    <3> QED
      BY <3>1, <3>5, <3>6, <3>7, <3>8, <2>2, <2>3, <1>o DEF ChunkOrder
  <2> QED
    BY <2>4, <2>5
<1> QED
  BY <1>1, <1>2, <1>3, <1>4, <1>5, <1>6, <1>7, <1>8, <1>9, <1>10, <1>11, <1>12, <1>13,
     <1>14, <1>15 DEF Next, Teardown, Loop

LEMMA AudioInvariant == Spec => []AudioInv
<1>1. Init => AudioInv
  <2> SUFFICES ASSUME Init PROVE AudioInv
    OBVIOUS
  <2>1. TypeOK
    <3>1. <<>> \in Seq(Blocks) /\ <<>> \in Seq(Blocks \cup {Sentinel})
      BY EmptySeq
    <3>2. recording \in BOOLEAN /\ ended \in BOOLEAN
      BY DEF Init
    <3> QED
      BY <3>1, <3>2, SentinelIsNoBlock DEF Init, TypeOK
  <2>2. Places
    BY DEF Init, Places
  <2>3. RawOrder
    BY DEF Init, RawOrder
  <2>4. ChunkOrder
    BY DEF Init, ChunkOrder, Over
  <2> QED
    BY <2>1, <2>2, <2>3, <2>4 DEF AudioInv
<1>2. AudioInv /\ [Next]_vars => AudioInv'
  BY TypeStep, PlacesStep, RawStep, ChunkStep DEF AudioInv
<1> QED
  BY <1>1, <1>2, PTL DEF Spec

\* Every queue holds blocks and sentinels, and no counter passes its bound.
THEOREM AudioTypeCorrect == Spec => []TypeOK
<1>1. AudioInv => TypeOK
  BY DEF AudioInv
<1> QED
  BY <1>1, AudioInvariant, PTL

\* stop() returns the first blocks that the microphone gave, each once.
THEOREM AlwaysReturnsAPrefix == Spec => []ReturnsAPrefix
<1>1. AudioInv => ReturnsAPrefix
  <2> SUFFICES ASSUME AudioInv, client = "returned" PROVE pcm = FirstBlocks(Len(pcm))
    BY DEF ReturnsAPrefix
  <2>1. pcm = buffer /\ \A i \in 1..Len(buffer) : buffer[i] = i
    BY DEF AudioInv, Places, Kept, RawOrder
  <2>2. pcm \in [1..Len(pcm) -> Blocks]
    BY LenProperties DEF AudioInv, TypeOK
  <2> QED
    BY <2>1, <2>2 DEF FirstBlocks
<1> QED
  BY <1>1, AudioInvariant, PTL

\* stop() waits for what was queued when it was called.
THEOREM AlwaysKeepsQueuedAudio == Spec => []KeepsQueuedAudio
<1>1. AudioInv => KeepsQueuedAudio
  BY DEF AudioInv, Places, Kept, KeepsQueuedAudio
<1> QED
  BY <1>1, AudioInvariant, PTL

\* A consumer that has read all the chunks has read the recording.
THEOREM ChunksAlwaysTheRecording == Spec => []ChunksAreTheRecording
<1>1. AudioInv => ChunksAreTheRecording
  <2> SUFFICES ASSUME AudioInv, client = "returned", ended PROVE heard = pcm
    BY DEF ChunksAreTheRecording
  <2>1. pcm = buffer /\ RawOrder /\ ChunkOrder
    BY DEF AudioInv, Places, Kept
  <2>2. Len(heard) = Len(pcm) /\ \A i \in 1..Len(heard) : heard[i] = pcm[i]
    BY <2>1 DEF RawOrder, ChunkOrder
  <2>3. heard \in Seq(Blocks) /\ pcm \in Seq(Blocks)
    BY DEF AudioInv, TypeOK
  <2> QED
    BY <2>2, <2>3, SeqEqual
<1> QED
  BY <1>1, AudioInvariant, PTL
==============================================================================
