-------------------------- MODULE EventStreamProofs --------------------------
(***************************************************************************)
(* For any number of connections, commands and events: the types, the      *)
(* order in which a client is sent the events, and the stability of the    *)
(* set that a broadcast iterates over.  All of it rests on the lock: what  *)
(* waits in line is one event after the other, and only the head acts.     *)
(***************************************************************************)
EXTENDS EventStream, SequenceTheorems, TLAPS

USE DEF connVars, bufVars, cmdVars

\* A request to broadcast names an event.
LEMMA CastNamesEvent ==
  ASSUME NEW r \in Requests, r.op = "cast"
  PROVE  r.arg \in 1..MaxCasts
BY DEF Requests, Req

\* The state is always of its type.
LEMMA StreamTypeStep == StreamTypeOK /\ [StreamNext]_streamVars => StreamTypeOK'
<1> SUFFICES ASSUME StreamTypeOK, [StreamNext]_streamVars PROVE StreamTypeOK'
    OBVIOUS
<1>l. line \in Seq(Requests)
  BY DEF StreamTypeOK
<1>m. MaxCasts \in Nat
  BY CastsAssumption
<1> USE DEF StreamTypeOK
<1>tail. line # <<>> => Tail(line) \in Seq(Requests)
  BY <1>l
<1>1. CASE UNCHANGED streamVars
  BY <1>1 DEF streamVars
<1>p. ASSUME Publish
      PROVE  /\ cast' \in 1..MaxCasts /\ line' \in Seq(Requests)
             /\ cast' \in 0..MaxCasts
  <2>1. cast' \in 1..MaxCasts /\ line' = Append(line, Req("cast", cast'))
    BY <1>p, <1>m DEF Publish
  <2>2. Req("cast", cast') \in Requests
    BY <2>1 DEF Requests
  <2> QED
    BY <2>1, <2>2, <1>l
<1>2. CASE TaskPublishes \/ LevelPublishes
  BY <1>2, <1>p DEF TaskPublishes, LevelPublishes
<1>x. CASE LevelCancelled
  <2>1. PICK i \in 1..Len(line) :
          /\ line[i].arg \in Levels
          /\ line' = SubSeq(line, 1, i - 1) \o SubSeq(line, i + 1, Len(line))
          /\ cut' = cut \cup {line[i].arg} /\ cur' = (IF i = 1 THEN NoCast ELSE cur)
          /\ UNCHANGED <<clients, cast, connVars, bufVars, cmdVars, stop>>
    BY <1>x DEF LevelCancelled
  <2>2. line' \in Seq(Requests)
    BY <2>1, <1>l
  <2> QED
    BY <2>1, <2>2 DEF NoCast
<1>3. ASSUME NEW c \in Conns, CastWrites(c) PROVE StreamTypeOK'
  <2>1. Head(line) \in Requests /\ Head(line).op = "cast"
    BY <1>3, <1>l DEF CastWrites, Holds
  <2>2. Head(line).arg \in 1..MaxCasts
    BY <2>1, CastNamesEvent
  <2>3. sent' \in [Conns -> Seq(1..MaxCasts)]
    BY <1>3, <2>2 DEF CastWrites
  <2> DEFINE S == IF cur.on THEN cur.todo ELSE clients
  <2>a. S \subseteq Conns
    OBVIOUS
  <2>b. cur' = [cur EXCEPT !.on = TRUE, !.at = {c}, !.todo = S \ {c}]
    BY <1>3 DEF CastWrites
  <2> HIDE DEF S
  <2>4. cur' \in [todo : SUBSET Conns, dead : SUBSET Conns, at : SUBSET Conns, on : BOOLEAN]
    BY <2>a, <2>b
  <2> QED
    BY <1>3, <2>3, <2>4 DEF CastWrites
<1>4. ASSUME NEW c \in Conns, CastDrains(c) PROVE StreamTypeOK'
  <2>1. cur' = [cur EXCEPT !.at = {}, !.dead = cur.dead \cup {c}] \/ cur' = [cur EXCEPT !.at = {}]
    BY <1>4 DEF CastDrains
  <2>a. [cur EXCEPT !.at = {}] \in
           [todo : SUBSET Conns, dead : SUBSET Conns, at : SUBSET Conns, on : BOOLEAN]
    OBVIOUS
  <2>b. cur.dead \cup {c} \subseteq Conns
    OBVIOUS
  <2>c. [cur EXCEPT !.at = {}, !.dead = cur.dead \cup {c}] \in
           [todo : SUBSET Conns, dead : SUBSET Conns, at : SUBSET Conns, on : BOOLEAN]
    BY <2>b
  <2>2. cur' \in [todo : SUBSET Conns, dead : SUBSET Conns, at : SUBSET Conns, on : BOOLEAN]
    BY <2>1, <2>a, <2>c
  <2> QED
    BY <1>4, <2>2 DEF CastDrains
<1>5. CASE CastEnds
  <2>1. line' \in Seq(Requests)
    BY <1>5, <1>tail DEF CastEnds, Holds
  <2>2. link' \in [Conns -> {"none", "up", "closing", "lost"}]
    BY <1>5 DEF CastEnds, Close
  <2> QED
    BY <1>5, <2>1, <2>2 DEF CastEnds, NoCast
<1>6. ASSUME NEW c \in Conns, Connect(c) PROVE StreamTypeOK'
  BY <1>6 DEF Connect
<1>7. ASSUME NEW c \in Conns, HelloOk(c) PROVE StreamTypeOK'
  <2>1. Req("add", c) \in Requests
    BY DEF Requests
  <2>2. line' \in Seq(Requests)
    BY <1>7, <1>l, <2>1 DEF HelloOk
  <2> QED
    BY <1>7, <2>2 DEF HelloOk
<1>8. ASSUME NEW c \in Conns, HelloFails(c) \/ StreamEnds(c) PROVE StreamTypeOK'
  <2>1. Req("leave", c) \in Requests
    BY DEF Requests
  <2>a. line' = Append(line, Req("leave", c))
    BY <1>8 DEF HelloFails, StreamEnds
  <2>2. line' \in Seq(Requests)
    BY <1>l, <2>1, <2>a
  <2>3. link' \in [Conns -> {"none", "up", "closing", "lost"}]
    BY <1>8 DEF HelloFails, StreamEnds, Close
  <2> QED
    BY <1>8, <2>2, <2>3 DEF HelloFails, StreamEnds
<1>9. ASSUME NEW c \in Conns, Add(c) PROVE StreamTypeOK'
  <2>1. line' \in Seq(Requests)
    BY <1>9, <1>tail DEF Add, Holds
  <2> QED
    BY <1>9, <2>1 DEF Add
<1>10. ASSUME NEW c \in Conns, Leave(c) PROVE StreamTypeOK'
  <2>1. line' \in Seq(Requests)
    BY <1>10, <1>tail DEF Leave, Holds
  <2>2. link' \in [Conns -> {"none", "up", "closing", "lost"}]
    BY <1>10 DEF Leave, Close
  <2> QED
    BY <1>10, <2>1, <2>2 DEF Leave
<1>11. ASSUME NEW c \in Conns, Read(c) PROVE StreamTypeOK'
  BY <1>11 DEF Read
<1>12. ASSUME NEW c \in Conns, PeerCloses(c) \/ Flushed(c) PROVE StreamTypeOK'
  BY <1>12 DEF PeerCloses, Flushed
<1>13. ASSUME NEW k \in CmdConns, CmdPublishes(k) PROVE StreamTypeOK'
  BY <1>13, <1>p DEF CmdPublishes
<1>14. ASSUME NEW k \in CmdConns, CmdOpens(k) \/ CmdEnds(k) PROVE StreamTypeOK'
  BY <1>14 DEF CmdOpens, CmdEnds
<1>15. CASE StopBegins
  <2>1. Req("stop", 0) \in Requests
    BY DEF Requests
  <2>2. line' \in Seq(Requests)
    BY <1>15, <1>l, <2>1 DEF StopBegins
  <2> QED
    BY <1>15, <2>2 DEF StopBegins
<1>16. CASE StopClears
  <2>1. line' \in Seq(Requests)
    BY <1>16, <1>tail DEF StopClears, Holds
  <2>2. link' \in [Conns -> {"none", "up", "closing", "lost"}]
    BY <1>16 DEF StopClears, Close
  <2> QED
    BY <1>16, <2>1, <2>2 DEF StopClears
<1>17. CASE StopCommands \/ StopEvents
  BY <1>17 DEF StopCommands, StopEvents
<1> QED
  BY <1>1, <1>2, <1>x, <1>3, <1>4, <1>5, <1>6, <1>7, <1>8, <1>9, <1>10, <1>11, <1>12, <1>13,
     <1>14, <1>15, <1>16, <1>17 DEF StreamNext, Broadcast, EventClient, Stopping

-----------------------------------------------------------------------------
(***************************************************************************)
(* The order of the events.                                                *)
(***************************************************************************)

\* The event m waits in the line l.
Waits(l, m) == \E j \in 1..Len(l) : l[j] = Req("cast", m)

\* The events in the line l are in their order; those between the first and the
\* last, n, are in it too, or in the set X of the ones that were cut.
OrderedLine(l, n, X) ==
    /\ \A i \in 1..Len(l) : l[i].op = "cast" =>
          /\ l[i].arg \in 1..n
          /\ \A m \in l[i].arg..n : m \in X \/ Waits(l, m)
    /\ \A i, j \in 1..Len(l) :
          i < j /\ l[i].op = "cast" /\ l[j].op = "cast" => l[i].arg < l[j].arg

\* The events in the line come after m, and all those after m are there, or cut.
FollowsOn(l, n, X, m) ==
    /\ \A i \in 1..Len(l) : l[i].op = "cast" => l[i].arg > m
    /\ \A k \in (m + 1)..n : k \in X \/ Waits(l, k)

\* Another request joins the line.
LEMMA AppendOther ==
  ASSUME NEW l \in Seq(Requests), NEW n \in Nat, NEW X, NEW r \in Requests, r.op # "cast",
         OrderedLine(l, n, X)
  PROVE  /\ OrderedLine(Append(l, r), n, X)
         /\ \A m \in 1..n : FollowsOn(l, n, X, m) => FollowsOn(Append(l, r), n, X, m)
<1> DEFINE a == Append(l, r)
<1>1. /\ Len(l) \in Nat /\ Len(a) = Len(l) + 1
      /\ a[Len(l) + 1] = r /\ \A i \in 1..Len(l) : a[i] = l[i]
  OBVIOUS
<1>2. \A i \in 1..Len(a) : a[i].op = "cast" => i \in 1..Len(l) /\ a[i] = l[i]
  BY <1>1
<1> HIDE DEF a
<1>w. \A m : Waits(l, m) => Waits(a, m)
  BY <1>1 DEF Waits
<1>3. OrderedLine(a, n, X)
  BY <1>1, <1>2, <1>w DEF OrderedLine
<1>4. \A m \in 1..n : FollowsOn(l, n, X, m) => FollowsOn(a, n, X, m)
  BY <1>1, <1>2, <1>w DEF FollowsOn
<1> QED
  BY <1>3, <1>4 DEF a

\* An event is published.
LEMMA AppendCast ==
  ASSUME NEW l \in Seq(Requests), NEW n \in Nat, NEW X, OrderedLine(l, n, X)
  PROVE  /\ OrderedLine(Append(l, Req("cast", n + 1)), n + 1, X)
         /\ \A m \in 1..n :
              FollowsOn(l, n, X, m) => FollowsOn(Append(l, Req("cast", n + 1)), n + 1, X, m)
<1> DEFINE r == Req("cast", n + 1)
           a == Append(l, r)
<1>r. r.op = "cast" /\ r.arg = n + 1
  BY DEF Req
<1>1. /\ Len(l) \in Nat /\ Len(a) = Len(l) + 1
      /\ a[Len(l) + 1] = r /\ \A i \in 1..Len(l) : a[i] = l[i]
  OBVIOUS
<1> HIDE DEF a
<1>2. \A i \in 1..Len(a) : i = Len(l) + 1 \/ i \in 1..Len(l)
  BY <1>1
<1>3. \A j \in 1..Len(l) : j \in 1..Len(a) /\ a[j] = l[j]
  BY <1>1
<1>w. Waits(a, n + 1) /\ \A m : Waits(l, m) => Waits(a, m)
  BY <1>1, <1>3 DEF Waits
<1>5. ASSUME NEW i \in 1..Len(a), a[i].op = "cast"
      PROVE  /\ a[i].arg \in 1..(n + 1)
             /\ \A m \in a[i].arg..(n + 1) : m \in X \/ Waits(a, m)
  <2>1. CASE i = Len(l) + 1
    BY <2>1, <1>1, <1>r, <1>w
  <2>2. CASE i \in 1..Len(l)
    <3>1. l[i].arg \in 1..n /\ \A m \in l[i].arg..n : m \in X \/ Waits(l, m)
      BY <2>2, <1>3, <1>5 DEF OrderedLine
    <3>2. \A m \in l[i].arg..(n + 1) : m = n + 1 \/ m \in l[i].arg..n
      BY <3>1
    <3> QED
      BY <2>2, <3>1, <3>2, <1>3, <1>w
  <2> QED
    BY <2>1, <2>2, <1>2
<1>6. ASSUME NEW i \in 1..Len(a), NEW j \in 1..Len(a), i < j, a[i].op = "cast", a[j].op = "cast"
      PROVE  a[i].arg < a[j].arg
  <2>1. i \in 1..Len(l)
    BY <1>6, <1>1
  <2>2. l[i].arg \in 1..n
    BY <2>1, <1>3, <1>6 DEF OrderedLine
  <2>3. CASE j = Len(l) + 1
    BY <2>1, <2>2, <2>3, <1>1, <1>3, <1>r
  <2>4. CASE j \in 1..Len(l)
    BY <2>1, <2>4, <1>3, <1>6 DEF OrderedLine
  <2> QED
    BY <2>3, <2>4, <1>2
<1>7. OrderedLine(a, n + 1, X)
  BY <1>5, <1>6 DEF OrderedLine
<1>8. ASSUME NEW m \in 1..n, FollowsOn(l, n, X, m) PROVE FollowsOn(a, n + 1, X, m)
  <2>1. \A i \in 1..Len(a) : a[i].op = "cast" => a[i].arg > m
    BY <1>8, <1>1, <1>2, <1>3, <1>r DEF FollowsOn
  <2>2. \A k \in (m + 1)..(n + 1) : k = n + 1 \/ k \in (m + 1)..n
    OBVIOUS
  <2>3. \A k \in (m + 1)..(n + 1) : k \in X \/ Waits(a, k)
    BY <1>8, <2>2, <1>w DEF FollowsOn
  <2> QED
    BY <2>1, <2>3 DEF FollowsOn
<1> QED
  BY <1>7, <1>8 DEF a

\* A request leaves the line, from the head or, cut, from elsewhere: those that
\* remain are in the same order.
LEMMA RemovedOrdered ==
  ASSUME NEW l \in Seq(Requests), NEW a \in Seq(Requests), NEW n \in Nat, NEW X, NEW Y,
         NEW p \in 1..Len(l), Len(a) = Len(l) - 1,
         \A i \in 1..Len(a) : a[i] = IF i < p THEN l[i] ELSE l[i + 1],
         OrderedLine(l, n, X), X \subseteq Y, 
         \/ l[p].op = "cast" /\ (p = 1 \/ l[p].arg \in Y)
         \/ l[p].op # "cast"
  PROVE  /\ OrderedLine(a, n, Y)
         /\ \A m \in 1..n : FollowsOn(l, n, X, m) /\ (l[p].op = "cast" => l[p].arg \in Y)
                              => FollowsOn(a, n, Y, m)
         /\ p = 1 /\ l[p].op = "cast" => FollowsOn(a, n, Y, l[p].arg)
<1> DEFINE at(i) == IF i < p THEN i ELSE i + 1
<1>1. Len(l) \in Nat /\ Len(a) \in Nat
  OBVIOUS
<1>2. \A i \in 1..Len(a) : at(i) \in 1..Len(l) /\ at(i) # p /\ a[i] = l[at(i)]
  BY <1>1
<1>3. \A i, j \in 1..Len(a) : i < j => at(i) < at(j)
  BY <1>1
<1>4. \A j \in 1..Len(l) : j = p \/ \E i \in 1..Len(a) : at(i) = j
  <2> SUFFICES ASSUME NEW j \in 1..Len(l), j # p PROVE \E i \in 1..Len(a) : at(i) = j
      OBVIOUS
  <2>1. CASE j < p
    <3>1. j \in 1..Len(a) /\ at(j) = j
      BY <2>1, <1>1
    <3> QED
      BY <3>1
  <2>2. CASE j > p
    <3>1. j - 1 \in 1..Len(a) /\ at(j - 1) = j
      BY <2>2, <1>1
    <3> QED
      BY <3>1
  <2> QED
    BY <2>1, <2>2, <1>1
<1> HIDE DEF at
<1>w. \A m : Waits(l, m) => Waits(a, m) \/ l[p] = Req("cast", m)
  BY <1>2, <1>4 DEF Waits
<1>r. \A m : l[p] = Req("cast", m) => l[p].op = "cast" /\ l[p].arg = m
  BY DEF Req
<1>5. ASSUME NEW i \in 1..Len(a), a[i].op = "cast"
      PROVE  /\ a[i].arg \in 1..n
             /\ \A m \in a[i].arg..n : m \in Y \/ Waits(a, m)
  <2>1. at(i) \in 1..Len(l) /\ at(i) # p /\ l[at(i)].op = "cast" /\ a[i] = l[at(i)]
    BY <1>2, <1>5
  <2>2. l[at(i)].arg \in 1..n /\ \A m \in l[at(i)].arg..n : m \in X \/ Waits(l, m)
    BY <2>1 DEF OrderedLine
  <2>3. p = 1 /\ l[p].op = "cast" => l[p].arg < l[at(i)].arg
    BY <2>1, <1>1 DEF OrderedLine
  <2>4. ASSUME NEW m \in l[at(i)].arg..n, l[p] = Req("cast", m) PROVE m \in Y
    <3>1. l[p].op = "cast" /\ l[p].arg = m
      BY <2>4, <1>r
    <3> QED
      BY <3>1, <2>2, <2>3, <2>4
  <2> QED
    BY <2>1, <2>2, <2>4, <1>w
<1>6. ASSUME NEW i \in 1..Len(a), NEW j \in 1..Len(a), i < j, a[i].op = "cast", a[j].op = "cast"
      PROVE  a[i].arg < a[j].arg
  <2>1. /\ at(i) \in 1..Len(l) /\ at(j) \in 1..Len(l) /\ at(i) < at(j)
        /\ a[i] = l[at(i)] /\ a[j] = l[at(j)]
    BY <1>2, <1>3, <1>6
  <2>2. l[at(i)].arg < l[at(j)].arg
    BY <2>1, <1>6 DEF OrderedLine
  <2> QED
    BY <2>1, <2>2
<1>7. OrderedLine(a, n, Y)
  BY <1>5, <1>6 DEF OrderedLine
<1>8. ASSUME NEW m \in 1..n, FollowsOn(l, n, X, m), l[p].op = "cast" => l[p].arg \in Y
      PROVE  FollowsOn(a, n, Y, m)
  <2>1. \A i \in 1..Len(a) : a[i].op = "cast" => a[i].arg > m
    BY <1>8, <1>2 DEF FollowsOn
  <2>2. \A k \in (m + 1)..n : k \in Y \/ Waits(a, k)
    BY <1>8, <1>w, <1>r DEF FollowsOn
  <2> QED
    BY <2>1, <2>2 DEF FollowsOn
<1>9. ASSUME p = 1, l[p].op = "cast" PROVE FollowsOn(a, n, Y, l[p].arg)
  <2>1. l[p].arg \in 1..n /\ \A m \in l[p].arg..n : m \in X \/ Waits(l, m)
    BY <1>9 DEF OrderedLine
  <2>2. \A i \in 1..Len(a) : a[i].op = "cast" => a[i].arg > l[p].arg
    <3> SUFFICES ASSUME NEW i \in 1..Len(a), a[i].op = "cast" PROVE a[i].arg > l[p].arg
        OBVIOUS
    <3>1. at(i) \in 1..Len(l) /\ p < at(i) /\ a[i] = l[at(i)]
      BY <1>2, <1>9, <1>1
    <3>2. l[p].arg < l[at(i)].arg
      BY <3>1, <1>9 DEF OrderedLine
    <3>3. a[i].arg \in 1..n
      BY <1>5
    <3> QED
      BY <3>1, <3>2, <3>3, <2>1
  <2>3. ASSUME NEW k \in (l[p].arg + 1)..n PROVE k \in Y \/ Waits(a, k)
    <3>1. k \in l[p].arg..n /\ k # l[p].arg
      BY <2>1
    <3> QED
      BY <3>1, <2>1, <1>w, <1>r
  <2> QED
    BY <2>2, <2>3 DEF FollowsOn
<1> QED
  BY <1>7, <1>8, <1>9

\* The head leaves the line: an event, which the others follow, or another request.
LEMMA TailOrdered ==
  ASSUME NEW l \in Seq(Requests), l # <<>>, NEW n \in Nat, NEW X, OrderedLine(l, n, X)
  PROVE  /\ OrderedLine(Tail(l), n, X)
         /\ Head(l).op = "cast" => FollowsOn(Tail(l), n, X, Head(l).arg)
         /\ Head(l).op # "cast" =>
               \A m \in 1..n : FollowsOn(l, n, X, m) => FollowsOn(Tail(l), n, X, m)
<1> DEFINE a == Tail(l)
<1>1. /\ a \in Seq(Requests) /\ 1 \in 1..Len(l) /\ Len(a) = Len(l) - 1 /\ Head(l) = l[1]
      /\ \A i \in 1..Len(a) : a[i] = IF i < 1 THEN l[i] ELSE l[i + 1]
  OBVIOUS
<1> HIDE DEF a
<1>2. l[1].op = "cast" \/ l[1].op # "cast"
  OBVIOUS
<1>3. /\ OrderedLine(a, n, X)
      /\ \A m \in 1..n : FollowsOn(l, n, X, m) /\ (l[1].op = "cast" => l[1].arg \in X)
                              => FollowsOn(a, n, X, m)
      /\ l[1].op = "cast" => FollowsOn(a, n, X, l[1].arg)
  BY <1>1, <1>2, RemovedOrdered
<1> QED
  BY <1>1, <1>3 DEF a

\* An event at the head of a line that follows on from m is the first after m
\* that was not cut.
LEMMA HeadFollows ==
  ASSUME NEW l \in Seq(Requests), l # <<>>, Head(l).op = "cast", NEW n \in Nat, NEW X,
         OrderedLine(l, n, X), NEW m \in 1..n, FollowsOn(l, n, X, m)
  PROVE  m < Head(l).arg /\ \A k \in (m + 1)..(Head(l).arg - 1) : k \in X
<1>1. 1 \in 1..Len(l) /\ Head(l) = l[1]
  OBVIOUS
<1>2. l[1].arg \in 1..n /\ l[1].arg > m
  BY <1>1 DEF OrderedLine, FollowsOn
<1>3. ASSUME NEW k \in (m + 1)..(l[1].arg - 1) PROVE k \in X
  <2>1. k \in (m + 1)..n /\ k < l[1].arg
    BY <1>2
  <2>2. SUFFICES ASSUME Waits(l, k) PROVE FALSE
    BY <2>1 DEF FollowsOn
  <2>3. PICK j \in 1..Len(l) : l[j] = Req("cast", k)
    BY <2>2 DEF Waits
  <2>4. l[j].op = "cast" /\ l[j].arg = k
    BY <2>3 DEF Req
  <2>5. j = 1 \/ l[1].arg < l[j].arg
    BY <1>1, <2>4 DEF OrderedLine
  <2> QED
    BY <1>2, <2>1, <2>4, <2>5
<1> QED
  BY <1>1, <1>2, <1>3

-----------------------------------------------------------------------------
(***************************************************************************)
(* The inductive invariant.                                                *)
(***************************************************************************)

\* Who has been sent something, and whose connection is still up, is a client
\* of the broadcasts; a broadcast is at the head of the line.
Membership ==
    /\ cur.on => Holds("cast") /\ cur.todo \subseteq clients
    /\ \A c \in Conns :
          /\ h[c] = "none" => c \notin clients /\ sent[c] = <<>>
          /\ sent[c] # <<>> /\ link[c] = "up" => c \in clients

\* What it was sent last is the event at the head of the line if the broadcast
\* has been to it, and what is in the line follows on from it otherwise.
LastSent ==
    \A c \in Conns : sent[c] # <<>> /\ link[c] = "up" =>
        LET last == sent[c][Len(sent[c])] IN
        /\ last \in 1..cast
        /\ IF cur.on /\ c \notin cur.todo THEN last = Head(line).arg
                                          ELSE FollowsOn(line, cast, cut, last)

StreamInv == StreamTypeOK /\ OrderedLine(line, cast, cut) /\ Membership /\ LastSent /\ SentInOrder

\* The invariant holds when nothing has been published.
LEMMA StreamInvInit == StreamInit => StreamInv
<1> SUFFICES ASSUME StreamInit PROVE StreamInv
    OBVIOUS
<1>1. StreamTypeOK
  BY CastsAssumption DEF StreamInit, StreamTypeOK, NoCast
<1>2. OrderedLine(line, cast, cut)
  BY DEF StreamInit, OrderedLine
<1>3. Membership /\ LastSent /\ SentInOrder
  BY DEF StreamInit, Membership, LastSent, SentInOrder, NoCast
<1> QED
  BY <1>1, <1>2, <1>3 DEF StreamInv

\* A step that joins the line with another request than an event, or leaves the
\* line alone, keeps the invariant: connections only close or are new.
LEMMA OtherSteps ==
  ASSUME StreamInv, StreamTypeOK', UNCHANGED <<clients, cur, cast, cut, sent>>,
         \A c \in Conns : link'[c] = "up" => link[c] = "up" \/ h[c] = "none",
         \A c \in Conns : h'[c] = "none" => h[c] = "none",
         \/ UNCHANGED line
         \/ \E r \in Requests : r.op # "cast" /\ line' = Append(line, r)
  PROVE  StreamInv'
<1> USE DEF StreamInv
<1>t. line \in Seq(Requests) /\ cast \in Nat
  BY CastsAssumption DEF StreamTypeOK
<1>1. OrderedLine(line', cast, cut) /\ \A m \in 1..cast : FollowsOn(line, cast, cut, m) => FollowsOn(line', cast, cut, m)
  BY <1>t, AppendOther
<1>2. line # <<>> => line' # <<>> /\ Head(line') = Head(line)
  BY <1>t
<1>3. Membership'
  BY <1>2 DEF Membership, Holds
<1>4. ASSUME NEW c \in Conns, sent'[c] # <<>>, link'[c] = "up"
      PROVE  sent[c] # <<>> /\ link[c] = "up"
  BY <1>4 DEF Membership
<1>5. ASSUME NEW c \in Conns, sent'[c] # <<>>, link'[c] = "up"
      PROVE  LET last == sent[c][Len(sent[c])] IN
             /\ last \in 1..cast
             /\ IF cur.on /\ c \notin cur.todo THEN last = Head(line').arg
                                               ELSE FollowsOn(line', cast, cut, last)
  <2> DEFINE last == sent[c][Len(sent[c])]
  <2>1. /\ last \in 1..cast
        /\ IF cur.on /\ c \notin cur.todo THEN last = Head(line).arg
                                          ELSE FollowsOn(line, cast, cut, last)
    BY <1>4, <1>5 DEF LastSent
  <2>2. cur.on => line # <<>>
    BY DEF Membership, Holds
  <2> HIDE DEF last
  <2>3. /\ last \in 1..cast
        /\ IF cur.on /\ c \notin cur.todo THEN last = Head(line').arg
                                          ELSE FollowsOn(line', cast, cut, last)
    BY <2>1, <2>2, <1>1, <1>2
  <2> QED
    BY <2>3 DEF last
<1>6. LastSent'
  BY <1>5 DEF LastSent
<1> QED
  BY <1>1, <1>3, <1>6 DEF SentInOrder

\* A step that publishes an event keeps it.
LEMMA PublishStep ==
  ASSUME StreamInv, StreamTypeOK', Publish, UNCHANGED <<clients, cur, cut, sent, h, link>>
  PROVE  StreamInv'
<1> USE DEF StreamInv
<1>t. line \in Seq(Requests) /\ cast \in Nat
  BY CastsAssumption DEF StreamTypeOK
<1>p. cast' = cast + 1 /\ line' = Append(line, Req("cast", cast + 1))
  BY DEF Publish
<1>1. /\ OrderedLine(line', cast', cut)
      /\ \A m \in 1..cast : FollowsOn(line, cast, cut, m) => FollowsOn(line', cast', cut, m)
  BY <1>t, <1>p, AppendCast
<1>2. line # <<>> => line' # <<>> /\ Head(line') = Head(line)
  BY <1>t, <1>p
<1>3. Membership'
  BY <1>2 DEF Membership, Holds
<1>5. ASSUME NEW c \in Conns, sent[c] # <<>>, link[c] = "up"
      PROVE  LET last == sent[c][Len(sent[c])] IN
             /\ last \in 1..cast'
             /\ IF cur.on /\ c \notin cur.todo THEN last = Head(line').arg
                                               ELSE FollowsOn(line', cast', cut, last)
  <2> DEFINE last == sent[c][Len(sent[c])]
  <2>1. /\ last \in 1..cast
        /\ IF cur.on /\ c \notin cur.todo THEN last = Head(line).arg
                                          ELSE FollowsOn(line, cast, cut, last)
    BY <1>5 DEF LastSent
  <2>2. cur.on => line # <<>>
    BY DEF Membership, Holds
  <2> HIDE DEF last
  <2>3. last \in 1..cast'
    BY <2>1, <1>p, <1>t
  <2>4. IF cur.on /\ c \notin cur.todo THEN last = Head(line').arg
                                       ELSE FollowsOn(line', cast', cut, last)
    BY <2>1, <2>2, <1>1, <1>2
  <2> QED
    BY <2>3, <2>4 DEF last
<1>6. LastSent'
  BY <1>5 DEF LastSent
<1> QED
  BY <1>1, <1>3, <1>6 DEF SentInOrder

\* A request other than an event at the head of the line is served: no broadcast
\* is under way, and a client that leaves the set is closed.
LEMMA TailStep ==
  ASSUME StreamInv, StreamTypeOK', UNCHANGED <<cur, cast, cut, sent>>,
         line # <<>>, Head(line).op # "cast", line' = Tail(line),
         \A c \in Conns : link'[c] = "up" => link[c] = "up" /\ (c \in clients => c \in clients'),
         \A c \in Conns : h'[c] = "none" => h[c] = "none" /\ (c \in clients' => c \in clients)
  PROVE  StreamInv'
<1> USE DEF StreamInv
<1>t. line \in Seq(Requests) /\ cast \in Nat
  BY CastsAssumption DEF StreamTypeOK
<1>1. /\ OrderedLine(line', cast, cut)
      /\ \A m \in 1..cast : FollowsOn(line, cast, cut, m) => FollowsOn(line', cast, cut, m)
  BY <1>t, TailOrdered
<1>2. ~cur.on
  BY DEF Membership, Holds
<1>3. Membership'
  BY <1>2 DEF Membership
<1>5. ASSUME NEW c \in Conns, sent[c] # <<>>, link'[c] = "up"
      PROVE  LET last == sent[c][Len(sent[c])] IN
             last \in 1..cast /\ FollowsOn(line', cast, cut, last)
  <2> DEFINE last == sent[c][Len(sent[c])]
  <2>1. last \in 1..cast /\ FollowsOn(line, cast, cut, last)
    BY <1>2, <1>5 DEF LastSent
  <2> HIDE DEF last
  <2>2. last \in 1..cast /\ FollowsOn(line', cast, cut, last)
    BY <2>1, <1>1
  <2> QED
    BY <2>2 DEF last
<1>6. LastSent'
  BY <1>2, <1>5 DEF LastSent
<1> QED
  BY <1>1, <1>3, <1>6 DEF SentInOrder

\* A broadcast that has ended leaves a line that follows on from its event.
LEMMA CastEndsStep == StreamInv /\ StreamTypeOK' /\ CastEnds => StreamInv'
<1> SUFFICES ASSUME StreamInv, StreamTypeOK', CastEnds PROVE StreamInv'
    OBVIOUS
<1> USE DEF StreamInv
<1>t. line \in Seq(Requests) /\ cast \in Nat
  BY CastsAssumption DEF StreamTypeOK
<1>h. line # <<>> /\ Head(line).op = "cast" /\ line' = Tail(line)
  BY DEF CastEnds, Holds
<1>1. /\ OrderedLine(line', cast, cut) /\ FollowsOn(line', cast, cut, Head(line).arg)
  BY <1>t, <1>h, TailOrdered
<1>l. \A c \in Conns : link'[c] = "up" => link[c] = "up" /\ c \notin cur.dead
  BY DEF CastEnds, Close, StreamTypeOK
<1>u. clients' = clients \ cur.dead /\ cur' = NoCast /\ UNCHANGED <<cast, cut, h, sent>>
  BY DEF CastEnds, bufVars
<1>3. Membership'
  BY <1>l, <1>u DEF Membership, NoCast
<1>5. ASSUME NEW c \in Conns, sent[c] # <<>>, link'[c] = "up"
      PROVE  LET last == sent[c][Len(sent[c])] IN
             last \in 1..cast /\ FollowsOn(line', cast, cut, last)
  <2>1. c \in clients /\ link[c] = "up"
    BY <1>5, <1>l DEF Membership
  <2>2. cur.on /\ c \notin cur.todo
    BY <2>1 DEF CastEnds
  <2>3. sent[c][Len(sent[c])] = Head(line).arg /\ sent[c][Len(sent[c])] \in 1..cast
    BY <1>5, <2>1, <2>2 DEF LastSent
  <2> QED
    BY <2>3, <1>1
<1>6. LastSent'
  BY <1>5, <1>u DEF LastSent, NoCast
<1> QED
  BY <1>1, <1>3, <1>6, <1>u DEF SentInOrder

\* The next client is written the event that comes after what it has.
LEMMA CastWritesStep ==
  ASSUME StreamInv, StreamTypeOK', NEW d \in Conns, CastWrites(d)
  PROVE  StreamInv'
<1> USE DEF StreamInv
<1> DEFINE todo == IF cur.on THEN cur.todo ELSE clients
           k == Head(line).arg
<1>t. /\ line \in Seq(Requests) /\ cast \in Nat /\ line # <<>> /\ Head(line).op = "cast"
      /\ sent \in [Conns -> Seq(1..MaxCasts)]
      /\ cur \in [todo : SUBSET Conns, dead : SUBSET Conns, at : SUBSET Conns, on : BOOLEAN]
  BY CastsAssumption DEF StreamTypeOK, CastWrites, Holds
<1>d. d \in todo /\ todo \subseteq clients
  BY DEF CastWrites, Membership
<1>c. /\ cur'.on /\ cur'.todo = todo \ {d}
      /\ UNCHANGED <<line, clients, cast, cut, h, link>>
  BY <1>t DEF CastWrites, connVars
<1>s. sent' = IF link[d] = "up" THEN [sent EXCEPT ![d] = Append(@, k)] ELSE sent
  BY DEF CastWrites
<1>k. k \in 1..cast
  <2>1. 1 \in 1..Len(line) /\ Head(line) = line[1]
    BY <1>t
  <2> QED
    BY <2>1, <1>t DEF OrderedLine
<1>m. k \in 1..MaxCasts
  BY <1>t, <1>k, CastsAssumption DEF StreamTypeOK
<1>o. \A c \in Conns : c # d => sent'[c] = sent[c]
  BY <1>s, <1>t
<1>n. link[d] = "up" =>
         /\ sent'[d] # <<>> /\ Len(sent'[d]) = Len(sent[d]) + 1 /\ Len(sent[d]) \in Nat
         /\ sent'[d][Len(sent[d]) + 1] = k
         /\ \A i \in 1..Len(sent[d]) : sent'[d][i] = sent[d][i]
  <2> SUFFICES ASSUME link[d] = "up"
               PROVE  /\ sent'[d] # <<>> /\ Len(sent'[d]) = Len(sent[d]) + 1 /\ Len(sent[d]) \in Nat
                      /\ sent'[d][Len(sent[d]) + 1] = k
                      /\ \A i \in 1..Len(sent[d]) : sent'[d][i] = sent[d][i]
      OBVIOUS
  <2>1. sent'[d] = Append(sent[d], k) /\ sent[d] \in Seq(1..MaxCasts)
    BY <1>s, <1>t
  <2> QED
    BY <2>1, <1>m
<1>q. link[d] # "up" => sent' = sent
  BY <1>s
<1> HIDE DEF k
<1>3. Membership'
  BY <1>c, <1>d, <1>o, <1>q, <1>t DEF Membership, Holds
<1>5. ASSUME NEW c \in Conns, sent'[c] # <<>>, link[c] = "up"
      PROVE  LET last == sent'[c][Len(sent'[c])] IN
             /\ last \in 1..cast
             /\ IF c \notin todo \ {d} THEN last = k ELSE FollowsOn(line, cast, cut, last)
  <2>1. CASE c = d
    BY <2>1, <1>n, <1>k, <1>5
  <2>2. CASE c # d
    <3> DEFINE last == sent[c][Len(sent[c])]
    <3>1. sent'[c] = sent[c] /\ c \in clients
      BY <2>2, <1>o, <1>5 DEF Membership
    <3>2. last \in 1..cast /\ IF cur.on /\ c \notin cur.todo THEN last = k
                                                             ELSE FollowsOn(line, cast, cut, last)
      BY <3>1, <1>5 DEF LastSent, k
    <3> HIDE DEF last
    <3>3. last \in 1..cast /\ IF c \notin todo \ {d} THEN last = k ELSE FollowsOn(line, cast, cut, last)
      BY <3>1, <3>2, <2>2
    <3> QED
      BY <3>1, <3>3 DEF last
  <2> QED
    BY <2>1, <2>2
<1>6. LastSent'
  BY <1>5, <1>c DEF LastSent, k
<1>7. ASSUME link[d] = "up", sent[d] # <<>>
      PROVE  /\ sent[d][Len(sent[d])] < k
             /\ \A n \in (sent[d][Len(sent[d])] + 1)..(k - 1) : n \in cut
  <2> DEFINE last == sent[d][Len(sent[d])]
  <2>1. last \in 1..cast /\ FollowsOn(line, cast, cut, last)
    BY <1>7, <1>d DEF LastSent
  <2> HIDE DEF last
  <2>2. last < k /\ \A n \in (last + 1)..(k - 1) : n \in cut
    BY <2>1, <1>t, HeadFollows DEF k
  <2> QED
    BY <2>2 DEF last
<1>8. ASSUME NEW c \in Conns, NEW i \in 1..(Len(sent'[c]) - 1)
      PROVE  /\ sent'[c][i] < sent'[c][i + 1]
             /\ \A n \in (sent'[c][i] + 1)..(sent'[c][i + 1] - 1) : n \in cut
  <2>1. CASE c # d \/ link[d] # "up"
    <3>1. sent'[c] = sent[c]
      BY <2>1, <1>o, <1>q
    <3> QED
      BY <3>1 DEF SentInOrder
  <2>2. CASE c = d /\ link[d] = "up"
    <3>1. i \in 1..Len(sent[d]) /\ Len(sent[d]) \in Nat
      BY <2>2, <1>n
    <3>2. CASE i = Len(sent[d])
      <4>1. sent[d] # <<>>
        BY <3>1, <3>2
      <4> QED
        BY <2>2, <3>1, <3>2, <4>1, <1>7, <1>n
    <3>3. CASE i # Len(sent[d])
      <4>1. i \in 1..(Len(sent[d]) - 1) /\ i + 1 \in 1..Len(sent[d])
        BY <3>1, <3>3
      <4>2. /\ sent[d][i] < sent[d][i + 1]
            /\ \A n \in (sent[d][i] + 1)..(sent[d][i + 1] - 1) : n \in cut
        BY <4>1 DEF SentInOrder
      <4> QED
        BY <2>2, <3>1, <4>1, <4>2, <1>n
    <3> QED
      BY <3>2, <3>3
  <2> QED
    BY <2>1, <2>2
<1>9. SentInOrder'
  BY <1>8, <1>c DEF SentInOrder
<1> QED
  BY <1>c, <1>3, <1>6, <1>9

\* What the line is when the request at p has left it.
LEMMA CutLine ==
  ASSUME NEW l \in Seq(Requests), NEW p \in 1..Len(l), NEW a,
         a = SubSeq(l, 1, p - 1) \o SubSeq(l, p + 1, Len(l))
  PROVE  /\ a \in Seq(Requests) /\ Len(a) = Len(l) - 1
         /\ \A i \in 1..Len(a) : a[i] = IF i < p THEN l[i] ELSE l[i + 1]
<1> DEFINE b == SubSeq(l, 1, p - 1)
           d == SubSeq(l, p + 1, Len(l))
<1>1. /\ p - 1 \in Int /\ p + 1 \in Int /\ Len(l) \in Int
      /\ \A i \in 1..(p - 1) : l[i] \in Requests
      /\ \A i \in (p + 1)..Len(l) : l[i] \in Requests
  OBVIOUS
<1>2. /\ b \in Seq(Requests) /\ Len(b) = p - 1 /\ \A i \in 1..(p - 1) : b[i] = l[i]
  <2>1. /\ b \in Seq(Requests) /\ Len(b) = IF 1 <= p - 1 THEN p - 1 - 1 + 1 ELSE 0
        /\ \A i \in 1..(p - 1 - 1 + 1) : b[i] = l[1 + i - 1]
    BY <1>1, SubSeqProperties
  <2> HIDE DEF b
  <2> QED
    BY <2>1
<1>3. /\ d \in Seq(Requests) /\ Len(d) = Len(l) - p
      /\ \A i \in 1..(Len(l) - p) : d[i] = l[p + i]
  <2>1. /\ d \in Seq(Requests)
        /\ Len(d) = IF p + 1 <= Len(l) THEN Len(l) - (p + 1) + 1 ELSE 0
        /\ \A i \in 1..(Len(l) - (p + 1) + 1) : d[i] = l[p + 1 + i - 1]
    BY <1>1, SubSeqProperties
  <2> HIDE DEF d
  <2>2. Len(d) = Len(l) - p
    BY <2>1, <1>1
  <2>3. ASSUME NEW i \in 1..(Len(l) - p) PROVE d[i] = l[p + i]
    <3>1. i \in 1..(Len(l) - (p + 1) + 1) /\ p + 1 + i - 1 = p + i
      BY <1>1
    <3> QED
      BY <2>1, <3>1
  <2> QED
    BY <2>1, <2>2, <2>3
<1> HIDE DEF b, d
<1>4. /\ b \o d \in Seq(Requests) /\ Len(b \o d) = Len(l) - 1
      /\ \A i \in 1..Len(b \o d) : (b \o d)[i] = IF i <= p - 1 THEN b[i] ELSE d[i - (p - 1)]
  <2>1. /\ b \o d \in Seq(Requests) /\ Len(b \o d) = Len(b) + Len(d)
        /\ \A i \in 1..(Len(b) + Len(d)) :
             (b \o d)[i] = IF i <= Len(b) THEN b[i] ELSE d[i - Len(b)]
    BY <1>2, <1>3, ConcatProperties
  <2>2. Len(b) + Len(d) = Len(l) - 1
    BY <1>1, <1>2, <1>3
  <2> QED
    BY <2>1, <2>2, <1>2
<1>5. ASSUME NEW i \in 1..Len(b \o d)
      PROVE  (b \o d)[i] = IF i < p THEN l[i] ELSE l[i + 1]
  <2>1. CASE i < p
    BY <2>1, <1>1, <1>2, <1>4
  <2>2. CASE ~(i < p)
    <3>1. i - (p - 1) \in 1..(Len(l) - p) /\ p + (i - (p - 1)) = i + 1 /\ ~(i <= p - 1)
      BY <2>2, <1>1, <1>4
    <3>2. (b \o d)[i] = d[i - (p - 1)]
      BY <3>1, <1>4
    <3>3. d[i - (p - 1)] = l[p + (i - (p - 1))]
      BY <3>1, <1>3
    <3> QED
      BY <2>2, <3>1, <3>2, <3>3
  <2> QED
    BY <2>1, <2>2
<1> QED
  BY <1>4, <1>5 DEF b, d

\* An event is cut: what follows on from another still does.
LEMMA CancelStep == StreamInv /\ StreamTypeOK' /\ LevelCancelled => StreamInv'
<1> SUFFICES ASSUME StreamInv, StreamTypeOK', LevelCancelled PROVE StreamInv'
    OBVIOUS
<1> USE DEF StreamInv
<1>t. line \in Seq(Requests) /\ line' \in Seq(Requests) /\ cast \in Nat
  BY CastsAssumption DEF StreamTypeOK
<1>p. PICK p \in 1..Len(line) :
        /\ line[p].op = "cast" /\ line[p].arg \in Levels
        /\ line' = SubSeq(line, 1, p - 1) \o SubSeq(line, p + 1, Len(line))
        /\ cut' = cut \cup {line[p].arg}
        /\ cur' = (IF p = 1 THEN NoCast ELSE cur)
        /\ UNCHANGED <<clients, cast, sent, h, link>>
  BY DEF LevelCancelled
<1>q. /\ Len(line') = Len(line) - 1 /\ Len(line) \in Nat
      /\ \A i \in 1..Len(line') : line'[i] = IF i < p THEN line[i] ELSE line[i + 1]
  <2>1. line' = SubSeq(line, 1, p - 1) \o SubSeq(line, p + 1, Len(line)) /\ p \in 1..Len(line)
    BY <1>p
  <2>2. /\ Len(line') = Len(line) - 1
        /\ \A i \in 1..Len(line') : line'[i] = IF i < p THEN line[i] ELSE line[i + 1]
    BY ONLY <2>1, <1>t, CutLine
  <2> QED
    BY <2>2, <1>t
<1> DEFINE l == line
           a == line'
           X == cut
           Y == cut'
<1>1. /\ OrderedLine(a, cast, Y)
      /\ \A m \in 1..cast : FollowsOn(l, cast, X, m) => FollowsOn(a, cast, Y, m)
      /\ p = 1 => FollowsOn(a, cast, Y, l[p].arg)
  <2>1. /\ l \in Seq(Requests) /\ a \in Seq(Requests) /\ p \in 1..Len(l)
        /\ OrderedLine(l, cast, X) /\ X \subseteq Y /\ l[p].op = "cast" /\ l[p].arg \in Y
        /\ Len(a) = Len(l) - 1
        /\ \A i \in 1..Len(a) : a[i] = IF i < p THEN l[i] ELSE l[i + 1]
    BY <1>t, <1>p, <1>q
  <2> HIDE DEF l, a, X, Y
  <2>2. \/ l[p].op = "cast" /\ (p = 1 \/ l[p].arg \in Y)
        \/ l[p].op # "cast"
    BY <2>1
  <2>3. /\ OrderedLine(a, cast, Y)
        /\ \A m \in 1..cast : FollowsOn(l, cast, X, m) /\ (l[p].op = "cast" => l[p].arg \in Y)
                                => FollowsOn(a, cast, Y, m)
        /\ p = 1 /\ l[p].op = "cast" => FollowsOn(a, cast, Y, l[p].arg)
    BY <1>t, <2>1, <2>2, RemovedOrdered
  <2> QED
    BY <2>1, <2>3
<1>2. /\ OrderedLine(line', cast, cut')
      /\ \A m \in 1..cast : FollowsOn(line, cast, cut, m) => FollowsOn(line', cast, cut', m)
      /\ p = 1 => FollowsOn(line', cast, cut', line[p].arg)
  BY <1>1
<1> HIDE DEF l, a, X, Y
<1>h. /\ p = 1 => ~cur'.on /\ Head(line) = line[p]
      /\ p # 1 => line # <<>> /\ line' # <<>> /\ Head(line') = Head(line) /\ cur' = cur
  <2>1. p = 1 => ~cur'.on /\ Head(line) = line[p]
    BY <1>p, <1>t DEF NoCast
  <2>2. ASSUME p # 1
        PROVE  line # <<>> /\ line' # <<>> /\ Head(line') = Head(line) /\ cur' = cur
    <3>1. 1 \in 1..Len(line') /\ 1 < p
      BY <2>2, <1>q
    <3>2. line'[1] = line[1]
      BY <3>1, <1>q
    <3>3. line # <<>> /\ line' # <<>> /\ Head(line') = line'[1] /\ Head(line) = line[1]
      BY <3>1, <1>t
    <3> QED
      BY <2>2, <3>2, <3>3, <1>p
  <2> QED
    BY <2>1, <2>2
<1>3. Membership'
  BY <1>p, <1>h DEF Membership, Holds
<1>5. ASSUME NEW c \in Conns, sent[c] # <<>>, link[c] = "up"
      PROVE  LET last == sent[c][Len(sent[c])] IN
             /\ last \in 1..cast
             /\ IF cur'.on /\ c \notin cur'.todo THEN last = Head(line').arg
                                               ELSE FollowsOn(line', cast, cut', last)
  <2> DEFINE last == sent[c][Len(sent[c])]
  <2>1. /\ last \in 1..cast
        /\ IF cur.on /\ c \notin cur.todo THEN last = Head(line).arg
                                          ELSE FollowsOn(line, cast, cut, last)
    BY <1>5 DEF LastSent
  <2> HIDE DEF last
  <2>2. CASE p = 1
    <3>1. ~cur'.on /\ FollowsOn(line', cast, cut', Head(line).arg)
      BY <2>2, <1>2, <1>h
    <3>2. FollowsOn(line', cast, cut', last)
      BY <2>1, <3>1, <1>2
    <3> QED
      BY <2>1, <3>1, <3>2 DEF last
  <2>3. CASE p # 1
    <3>1. cur' = cur /\ Head(line') = Head(line)
      BY <2>3, <1>h
    <3>2. FollowsOn(line, cast, cut, last) => FollowsOn(line', cast, cut', last)
      BY <2>1, <1>2
    <3> QED
      BY <2>1, <3>1, <3>2 DEF last
  <2> QED
    BY <2>2, <2>3
<1>6. LastSent'
  BY <1>5, <1>p DEF LastSent
<1>9. SentInOrder'
  BY <1>p DEF SentInOrder
<1> QED
  BY <1>2, <1>3, <1>6, <1>9, <1>p

\* Every step keeps the invariant.
LEMMA StreamInvStep == StreamInv /\ [StreamNext]_streamVars => StreamInv'
<1> SUFFICES ASSUME StreamInv, [StreamNext]_streamVars PROVE StreamInv'
    OBVIOUS
<1>t. StreamTypeOK /\ StreamTypeOK'
  BY StreamTypeStep DEF StreamInv
<1>h. h \in [Conns -> {"none", "hello", "adding", "streaming", "leaving", "done"}]
      /\ link \in [Conns -> {"none", "up", "closing", "lost"}]
  BY <1>t DEF StreamTypeOK
<1>r. \A c \in Conns : /\ Req("add", c) \in Requests /\ Req("add", c).op # "cast"
                       /\ Req("leave", c) \in Requests /\ Req("leave", c).op # "cast"
  BY DEF Requests, Req
<1>s. Req("stop", 0) \in Requests /\ Req("stop", 0).op # "cast"
  BY DEF Requests, Req
<1>1. CASE UNCHANGED streamVars
  BY <1>1 DEF streamVars, StreamInv, StreamTypeOK, Membership, LastSent, SentInOrder, Holds
<1>2. CASE TaskPublishes \/ LevelPublishes
  BY <1>2, <1>t, PublishStep DEF TaskPublishes, LevelPublishes
<1>x. CASE LevelCancelled
  BY <1>x, <1>t, CancelStep
<1>3. ASSUME NEW c \in Conns, CastWrites(c) PROVE StreamInv'
  BY <1>3, <1>t, CastWritesStep
<1>4. ASSUME NEW c \in Conns, CastDrains(c) PROVE StreamInv'
  <2>1. /\ cur'.on = cur.on /\ cur'.todo = cur.todo
        /\ UNCHANGED <<line, clients, cast, cut, h, link, sent>>
    BY <1>4, <1>t DEF CastDrains, StreamTypeOK
  <2> QED
    BY <2>1, <1>t DEF StreamInv, Membership, LastSent, SentInOrder, Holds
<1>5. CASE CastEnds
  BY <1>5, <1>t, CastEndsStep
<1>6. ASSUME NEW c \in Conns, Connect(c) PROVE StreamInv'
  <2>1. /\ UNCHANGED <<line, clients, cur, cast, cut, sent>>
        /\ \A d \in Conns : link'[d] = "up" => link[d] = "up" \/ h[d] = "none"
        /\ \A d \in Conns : h'[d] = "none" => h[d] = "none"
    BY <1>6, <1>h DEF Connect
  <2> QED
    BY <2>1, <1>t, OtherSteps
<1>7. ASSUME NEW c \in Conns, HelloOk(c) PROVE StreamInv'
  <2>1. /\ UNCHANGED <<clients, cur, cast, cut, sent>>
        /\ \A d \in Conns : link'[d] = "up" => link[d] = "up" \/ h[d] = "none"
        /\ \A d \in Conns : h'[d] = "none" => h[d] = "none"
        /\ line' = Append(line, Req("add", c))
    BY <1>7, <1>h DEF HelloOk
  <2> QED
    BY <2>1, <1>t, <1>r, OtherSteps
<1>8. ASSUME NEW c \in Conns, HelloFails(c) \/ StreamEnds(c) PROVE StreamInv'
  <2>1. /\ UNCHANGED <<clients, cur, cast, cut, sent>>
        /\ \A d \in Conns : link'[d] = "up" => link[d] = "up" \/ h[d] = "none"
        /\ \A d \in Conns : h'[d] = "none" => h[d] = "none"
        /\ line' = Append(line, Req("leave", c))
    BY <1>8, <1>h DEF HelloFails, StreamEnds, Close
  <2> QED
    BY <2>1, <1>t, <1>r, OtherSteps
<1>9. ASSUME NEW c \in Conns, Add(c) PROVE StreamInv'
  <2>1. /\ UNCHANGED <<cur, cast, cut, sent>>
        /\ line # <<>> /\ Head(line).op # "cast" /\ line' = Tail(line)
        /\ \A d \in Conns : link'[d] = "up" => link[d] = "up" /\ (d \in clients => d \in clients')
        /\ \A d \in Conns : h'[d] = "none" => h[d] = "none" /\ (d \in clients' => d \in clients)
    BY <1>9, <1>h DEF Add, Holds
  <2> QED
    BY <2>1, <1>t, TailStep
<1>10. ASSUME NEW c \in Conns, Leave(c) PROVE StreamInv'
  <2>1. /\ UNCHANGED <<cur, cast, cut, sent>>
        /\ line # <<>> /\ Head(line).op # "cast" /\ line' = Tail(line)
        /\ \A d \in Conns : link'[d] = "up" => link[d] = "up" /\ (d \in clients => d \in clients')
        /\ \A d \in Conns : h'[d] = "none" => h[d] = "none" /\ (d \in clients' => d \in clients)
    BY <1>10, <1>h DEF Leave, Holds, Close
  <2> QED
    BY <2>1, <1>t, TailStep
<1>11. ASSUME NEW c \in Conns, Read(c) PROVE StreamInv'
  <2>1. UNCHANGED <<line, clients, cur, cast, cut, h, link, sent>>
    BY <1>11 DEF Read
  <2> QED
    BY <2>1, <1>t, OtherSteps
<1>12. ASSUME NEW c \in Conns, PeerCloses(c) \/ Flushed(c) PROVE StreamInv'
  <2>1. /\ UNCHANGED <<line, clients, cur, cast, cut, sent>>
        /\ \A d \in Conns : link'[d] = "up" => link[d] = "up" \/ h[d] = "none"
        /\ \A d \in Conns : h'[d] = "none" => h[d] = "none"
    BY <1>12, <1>h DEF PeerCloses, Flushed
  <2> QED
    BY <2>1, <1>t, OtherSteps
<1>13. ASSUME NEW k \in CmdConns, CmdPublishes(k) PROVE StreamInv'
  BY <1>13, <1>t, PublishStep DEF CmdPublishes
<1>14. CASE (\E k \in CmdConns : CmdOpens(k) \/ CmdEnds(k)) \/ StopCommands \/ StopEvents
  <2>1. UNCHANGED <<line, clients, cur, cast, cut, h, link, sent>>
    BY <1>14 DEF CmdOpens, CmdEnds, StopCommands, StopEvents
  <2> QED
    BY <2>1, <1>t, OtherSteps
<1>15. CASE StopBegins
  <2>1. /\ UNCHANGED <<clients, cur, cast, cut, h, link, sent>>
        /\ line' = Append(line, Req("stop", 0))
    BY <1>15 DEF StopBegins
  <2> QED
    BY <2>1, <1>t, <1>s, OtherSteps
<1>16. CASE StopClears
  <2>1. /\ UNCHANGED <<cur, cast, cut, sent>>
        /\ line # <<>> /\ Head(line).op # "cast" /\ line' = Tail(line)
        /\ \A d \in Conns : link'[d] = "up" => link[d] = "up" /\ (d \in clients => d \in clients')
        /\ \A d \in Conns : h'[d] = "none" => h[d] = "none" /\ (d \in clients' => d \in clients)
    BY <1>16, <1>h DEF StopClears, Holds, Close
  <2> QED
    BY <2>1, <1>t, TailStep
<1> QED
  BY <1>1, <1>2, <1>x, <1>3, <1>4, <1>5, <1>6, <1>7, <1>8, <1>9, <1>10, <1>11, <1>12, <1>13,
     <1>14, <1>15, <1>16 DEF StreamNext, Broadcast, EventClient, Stopping

-----------------------------------------------------------------------------
(***************************************************************************)
(* The theorems.                                                           *)
(***************************************************************************)

\* The servers' state is of its type, however many connect.
THEOREM StreamTypeCorrect == StreamSpec => []StreamTypeOK
<1>1. StreamInit => StreamTypeOK
  BY StreamInvInit DEF StreamInv
<1> QED
  BY <1>1, StreamTypeStep, PTL DEF StreamSpec

\* broadcast_event sends each client the events in order, without a gap.
THEOREM SentAlwaysInOrder == StreamSpec => []SentInOrder
<1>1. StreamInv => SentInOrder
  BY DEF StreamInv
<1> QED
  BY <1>1, StreamInvInit, StreamInvStep, PTL DEF StreamSpec

\* The set that a broadcast iterates over does not change under it.
THEOREM IterationAlwaysStable == StreamSpec => IterationStable
<1>1. StreamInv /\ StreamInv' /\ [StreamNext]_streamVars
        => [cur.on /\ cur'.on => clients' = clients]_streamVars
  <2> SUFFICES ASSUME StreamInv, StreamNext, cur.on, cur'.on PROVE clients' = clients
      BY DEF streamVars
  <2>1. Holds("cast") /\ ~Holds("add") /\ ~Holds("leave") /\ ~Holds("stop")
    BY DEF StreamInv, Membership, Holds
  <2>2. ~CastEnds
    BY DEF CastEnds, NoCast
  <2> QED
    BY <2>1, <2>2 DEF StreamNext, Broadcast, EventClient, Stopping, TaskPublishes, LevelPublishes,
       LevelCancelled, CastWrites,
       CastDrains, Connect, HelloOk, HelloFails, Add, StreamEnds, Leave, Read, PeerCloses, Flushed,
       CmdPublishes, CmdOpens, CmdEnds, StopBegins, StopClears, StopCommands, StopEvents
<1> QED
  BY <1>1, StreamInvInit, StreamInvStep, PTL DEF StreamSpec, IterationStable
=============================================================================
