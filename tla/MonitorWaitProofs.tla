-------------------------- MODULE MonitorWaitProofs --------------------------
(***************************************************************************)
(* Wait and Pulse keep their promises for any number of threads and sync   *)
(* blocks.  For any depth of nested waits: no pulse is lost on its way,    *)
(* and no event is in use twice.  When waits do not nest: the queues hold  *)
(* only links of calls that still wait, a signalled wait has been dequeued *)
(* and, without rude aborts, a pulsing thread never follows a dead link.   *)
(***************************************************************************)
EXTENDS MonitorWaitProps, FiniteSetTheorems, SequenceTheorems, WellFoundedInduction, TLAPS

-----------------------------------------------------------------------------
(* Sequences.                                                              *)

\* A queue with one more element.
LEMMA AppendFacts ==
  ASSUME NEW S, NEW q \in Seq(S), NEW x \in S
  PROVE  /\ Append(q, x) \in Seq(S)
         /\ Range(Append(q, x)) = Range(q) \cup {x}
         /\ IsInjective(q) /\ x \notin Range(q) => IsInjective(Append(q, x))
<1>1. /\ Append(q, x) \in Seq(S) /\ Len(q) \in Nat
      /\ DOMAIN q = 1..Len(q) /\ DOMAIN Append(q, x) = 1..(Len(q) + 1)
      /\ \A i \in 1..Len(q) : Append(q, x)[i] = q[i]
      /\ Append(q, x)[Len(q) + 1] = x
  OBVIOUS
<1>2. \A y : y \in Range(Append(q, x)) <=> y \in Range(q) \/ y = x
  BY <1>1 DEF Range
<1>3. IsInjective(q) /\ x \notin Range(q) => IsInjective(Append(q, x))
  BY <1>1 DEF Range, IsInjective
<1> QED BY <1>1, <1>2, <1>3

\* A queue without its head.
LEMMA TailFacts ==
  ASSUME NEW S, NEW q \in Seq(S), q # <<>>
  PROVE  /\ Head(q) \in S /\ Head(q) \in Range(q) /\ Tail(q) \in Seq(S)
         /\ Range(Tail(q)) \subseteq Range(q)
         /\ Range(q) \subseteq Range(Tail(q)) \cup {Head(q)}
         /\ IsInjective(q) => IsInjective(Tail(q)) /\ Head(q) \notin Range(Tail(q))
<1>1. /\ Head(q) \in S /\ Tail(q) \in Seq(S) /\ Len(q) \in Nat \ {0}
      /\ DOMAIN q = 1..Len(q) /\ DOMAIN Tail(q) = 1..(Len(q) - 1)
      /\ \A i \in 1..(Len(q) - 1) : Tail(q)[i] = q[i + 1]
      /\ Head(q) = q[1]
  BY EmptySeq
<1>2. \A y \in Range(Tail(q)) : y \in Range(q)
  BY <1>1 DEF Range
<1>3. ASSUME NEW y \in Range(q), y # Head(q)
      PROVE  y \in Range(Tail(q))
  <2>1. PICK i \in 1..Len(q) : q[i] = y
    BY <1>1 DEF Range
  <2>2. i - 1 \in 1..(Len(q) - 1) /\ Tail(q)[i - 1] = y
    BY <1>1, <1>3, <2>1
  <2> QED BY <1>1, <2>2 DEF Range
<1>4. IsInjective(q) => IsInjective(Tail(q)) /\ Head(q) \notin Range(Tail(q))
  BY <1>1 DEF Range, IsInjective
<1>5. Head(q) \in Range(q)
  BY <1>1 DEF Range
<1> QED BY <1>1, <1>2, <1>3, <1>4, <1>5

\* A queue without the element at a place.
LEMMA RemoveAtFacts ==
  ASSUME NEW S, NEW q \in Seq(S), NEW k \in DOMAIN q
  PROVE  /\ RemoveAt(q, k) \in Seq(S)
         /\ Range(RemoveAt(q, k)) \subseteq Range(q)
         /\ Range(q) \subseteq Range(RemoveAt(q, k)) \cup {q[k]}
         /\ IsInjective(q) => IsInjective(RemoveAt(q, k)) /\ q[k] \notin Range(RemoveAt(q, k))
<1> DEFINE a == SubSeq(q, 1, k - 1)
           b == SubSeq(q, k + 1, Len(q))
           r == RemoveAt(q, k)
<1>1. k \in 1..Len(q) /\ Len(q) \in Nat /\ DOMAIN q = 1..Len(q)
  OBVIOUS
<1>2. /\ a \in Seq(S) /\ Len(a) = k - 1
      /\ \A i \in 1..(k - 1) : a[i] = q[i]
  BY <1>1, SubSeqProperties
<1>3. /\ b \in Seq(S) /\ Len(b) = Len(q) - k
      /\ \A i \in 1..(Len(q) - k) : b[i] = q[k + i]
  BY <1>1, SubSeqProperties
<1>4. r = a \o b
  BY DEF RemoveAt
<1> HIDE DEF a, b, r
<1>5. /\ r \in Seq(S) /\ Len(r) = Len(q) - 1 /\ DOMAIN r = 1..(Len(q) - 1)
      /\ \A i \in 1..(Len(q) - 1) : r[i] = IF i < k THEN q[i] ELSE q[i + 1]
  <2>1. /\ a \o b \in Seq(S) /\ Len(a \o b) = Len(a) + Len(b)
        /\ \A i \in 1..(Len(a) + Len(b)) :
             (a \o b)[i] = IF i <= Len(a) THEN a[i] ELSE b[i - Len(a)]
    BY <1>2, <1>3, ConcatProperties
  <2>2. /\ r \in Seq(S) /\ Len(r) = Len(q) - 1
        /\ \A i \in 1..(Len(q) - 1) : r[i] = IF i <= k - 1 THEN a[i] ELSE b[i - (k - 1)]
    BY <1>1, <1>2, <1>3, <1>4, <2>1
  <2>3. ASSUME NEW i \in 1..(Len(q) - 1)
        PROVE  r[i] = IF i < k THEN q[i] ELSE q[i + 1]
    <3>1. CASE i < k
      BY <1>1, <1>2, <2>2, <3>1
    <3>2. CASE i >= k
      <4>1. i - (k - 1) \in 1..(Len(q) - k) /\ k + (i - (k - 1)) = i + 1
        BY <1>1, <3>2
      <4>2. r[i] = b[i - (k - 1)]
        BY <1>1, <2>2, <3>2
      <4>3. b[i - (k - 1)] = q[k + (i - (k - 1))]
        BY <1>3, <4>1
      <4> QED BY <1>1, <3>2, <4>1, <4>2, <4>3
    <3> QED BY <1>1, <3>1, <3>2
  <2> QED BY <2>2, <2>3
<1>6. \A y \in Range(r) : y \in Range(q)
  BY <1>1, <1>5 DEF Range
<1>7. ASSUME NEW y \in Range(q), y # q[k]
      PROVE  y \in Range(r)
  <2>1. PICK i \in 1..Len(q) : q[i] = y
    BY <1>1 DEF Range
  <2>2. CASE i < k
    BY <1>1, <1>5, <2>1, <2>2 DEF Range
  <2>3. CASE i > k
    <3>1. i - 1 \in 1..(Len(q) - 1) /\ r[i - 1] = y
      BY <1>1, <1>5, <2>1, <2>3
    <3> QED BY <1>5, <3>1 DEF Range
  <2> QED BY <1>1, <1>7, <2>1, <2>2, <2>3
<1>8. IsInjective(q) => IsInjective(r) /\ q[k] \notin Range(r)
  <2>1. SUFFICES ASSUME IsInjective(q)
                 PROVE  IsInjective(r) /\ q[k] \notin Range(r)
    OBVIOUS
  <2>2. \A i, j \in 1..Len(q) : q[i] = q[j] => i = j
    BY <1>1, <2>1 DEF IsInjective
  <2>3. \A i \in 1..(Len(q) - 1) : r[i] = q[k] => FALSE
    BY <1>1, <1>5, <2>2
  <2>4. ASSUME NEW i \in 1..(Len(q) - 1), NEW j \in 1..(Len(q) - 1), r[i] = r[j]
        PROVE  i = j
    BY <1>1, <1>5, <2>2, <2>4
  <2> QED BY <1>5, <2>3, <2>4 DEF Range, IsInjective
<1> QED BY <1>5, <1>6, <1>7, <1>8 DEF r

\* RemoveThread takes one link of the thread from the queue, if there is one.
LEMMA RemoveThreadFacts ==
  ASSUME NEW t, NEW q \in Seq(Link)
  PROVE  /\ RemoveThread(t, q) \in Seq(Link)
         /\ Range(RemoveThread(t, q)) \subseteq Range(q)
         /\ \A l, m \in Range(q) :
              l \notin Range(RemoveThread(t, q)) /\ m \notin Range(RemoveThread(t, q)) => l = m
         /\ \A l \in Range(q) : l[1] # t => l \in Range(RemoveThread(t, q))
         /\ IsInjective(q) => IsInjective(RemoveThread(t, q))
         /\ IsInjective(q) /\ (\E l \in Range(q) : l[1] = t) =>
              \E l \in Range(q) : l[1] = t /\ l \notin Range(RemoveThread(t, q))
<1> DEFINE mine == {i \in DOMAIN q : q[i][1] = t}
           k == CHOOSE i \in mine : \A j \in mine : i <= j
<1>1. CASE mine = {}
  <2>1. RemoveThread(t, q) = q
    BY <1>1 DEF RemoveThread
  <2>2. ~ \E l \in Range(q) : l[1] = t
    BY <1>1 DEF Range
  <2> QED BY <2>1, <2>2
<1>2. CASE mine # {}
  <2>1. \E i \in mine : \A j \in mine : i <= j
    <3>1. mine \subseteq Nat
      OBVIOUS
    <3>2. PICK i \in mine : \A j \in mine : <<j, i>> \notin OpToRel(<, Nat)
      BY <1>2, <3>1, NatLessThanWellFounded, WFMin
    <3>3. \A j \in mine : ~ (j < i)
      BY <3>1, <3>2 DEF OpToRel
    <3> QED BY <3>1, <3>3
  <2>2. k \in mine
    BY <2>1
  <2>3. RemoveThread(t, q) = RemoveAt(q, k)
    BY <1>2 DEF RemoveThread
  <2> HIDE DEF k
  <2>4. k \in DOMAIN q /\ q[k][1] = t /\ q[k] \in Range(q)
    BY <2>2 DEF Range
  <2> QED BY <2>3, <2>4, RemoveAtFacts
<1> QED BY <1>1, <1>2

-----------------------------------------------------------------------------
(* The invariant.                                                          *)

\* The calls of t that wait with the link at depth d and have not restored it.
Users(t, d) == {c \in Call(t) : frames[t][c].link = d /\ frames[t][c].pc # "reenter"}

\* A monitor is free exactly when nobody has entries.
OwnersEnter == \A s \in SB : owner[s] = NoThread <=> entries[s] = 0

\* Only the innermost call can be anywhere but blocked; a call that has not left the
\* monitor owns it, the others have entries to restore.
CallFits(t, c) ==
  /\ frames[t][c].link <= c
  /\ c < Len(frames[t]) => frames[t][c].pc \in {"block", "reenter"}
  /\ frames[t][c].pc = "leave" => owner[frames[t][c].sb] = t
  /\ frames[t][c].pc # "leave" => frames[t][c].count > 0

StackFits ==
  \A t \in Thread : Len(frames[t]) <= MaxNesting /\ \A c \in Call(t) : CallFits(t, c)

\* m_RefCount counts the calls that use a link; a link that is used is still used
\* by the call whose frame holds it, and that is when it is in the thread's list.
LinkCounted(t, d) ==
  /\ d <= Len(frames[t]) =>
       /\ link[<<t, d>>].ref = Cardinality(Users(t, d))
       /\ d \in chain[t] <=> d \in Users(t, d)
       /\ Users(t, d) # {} => d \in Users(t, d)
       /\ \A c \in Users(t, d) : frames[t][c].sb = link[<<t, d>>].sb
  /\ d > Len(frames[t]) => link[<<t, d>>] = DeadLink(t)

LinksCounted == \A t \in Thread, d \in Depth : LinkCounted(t, d)

\* A link in a thread's list, in a stack frame that exists.
InUse(t, d) == d \in chain[t] /\ d <= Len(frames[t])

\* A thread has one link for a sync block, in the queue of that sync block.
OneLinkEach ==
  /\ \A t \in Thread : \A d, e \in Depth :
       InUse(t, d) /\ InUse(t, e) /\ link[<<t, d>>].sb = link[<<t, e>>].sb => d = e
  /\ \A s \in SB : \A t \in Thread, d \in Depth :
       <<t, d>> \in Range(queue[s]) /\ InUse(t, d) => link[<<t, d>>].sb = s

\* A link has an event of its own: the thread's, or one that has left the store.
OneEventEach ==
  /\ store \subseteq created
  /\ \A t \in Thread, d \in Depth : InUse(t, d) =>
       /\ link[<<t, d>>].event \in {OwnEvent[t]} \cup (created \ store)
       /\ \A u \in Thread, e \in Depth :
            InUse(u, e) /\ link[<<u, e>>].event = link[<<t, d>>].event => t = u /\ d = e

\* A Pulse is for a sync block, and has a link once it has dequeued one.
PulseFits ==
  \A t \in Thread : /\ pulse[t].at # "none" => pulse[t].sb \in SB
                    /\ pulse[t].at = "set" => pulse[t].link \in Link

WaitInv ==
  /\ TypeOK /\ OwnersEnter /\ StackFits /\ LinksCounted
  /\ OneLinkEach /\ OneEventEach /\ PulseFits /\ NoLostPulse

-----------------------------------------------------------------------------
(* What the steps do to the stacks.                                        *)

\* The innermost call.
LEMMA TopFacts ==
  ASSUME TypeOK, NEW t \in Thread, frames[t] # <<>>
  PROVE  /\ frames[t] \in Seq(Frame) /\ Len(frames[t]) \in Nat \ {0}
         /\ Len(frames[t]) \in Call(t)
         /\ Top(t) \in Frame /\ Top(t) = frames[t][Len(frames[t])]
<1>1. frames[t] \in Seq(Frame)
  BY DEF TypeOK
<1>2. Len(frames[t]) \in Nat \ {0}
  BY <1>1, EmptySeq
<1> QED BY <1>1, <1>2, ElementOfSeq DEF Top, Call

\* Every call on a stack.
LEMMA CallFacts ==
  ASSUME TypeOK, NEW t \in Thread
  PROVE  /\ frames[t] \in Seq(Frame) /\ Len(frames[t]) \in Nat
         /\ \A c \in Call(t) : frames[t][c] \in Frame /\ c \in Nat \ {0} /\ frames[t] # <<>>
<1>1. frames[t] \in Seq(Frame) /\ Len(frames[t]) \in Nat
  BY DEF TypeOK
<1> QED BY <1>1, ElementOfSeq, EmptySeq DEF Call

\* A step of the innermost call changes nothing else on the stacks.
LEMMA GotoFacts ==
  ASSUME TypeOK, NEW t \in Thread, frames[t] # <<>>, NEW to \in {"signalled", "unsignalled", "reenter"},
         Goto(t, to)
  PROVE  /\ frames' \in [Thread -> Seq(Frame)]
         /\ \A u \in Thread : u # t => frames'[u] = frames[u]
         /\ Len(frames'[t]) = Len(frames[t])
         /\ \A c \in Call(t) : c # Len(frames[t]) => frames'[t][c] = frames[t][c]
         /\ frames'[t][Len(frames[t])] = [Top(t) EXCEPT !.pc = to]
<1> DEFINE n == Len(frames[t])
           f == [Top(t) EXCEPT !.pc = to]
<1>1. /\ frames[t] \in Seq(Frame) /\ n \in Nat \ {0} /\ Top(t) \in Frame
      /\ Top(t) = frames[t][n]
  BY TopFacts
<1>2. f \in Frame
  BY <1>1 DEF Frame
<1>3. frames' = [frames EXCEPT ![t] = [frames[t] EXCEPT ![n] = f]]
  BY <1>1 DEF Goto, TypeOK
<1> HIDE DEF f
<1>4. /\ [frames[t] EXCEPT ![n] = f] \in Seq(Frame)
      /\ Len([frames[t] EXCEPT ![n] = f]) = n
      /\ \A c \in Call(t) : c # n => [frames[t] EXCEPT ![n] = f][c] = frames[t][c]
      /\ [frames[t] EXCEPT ![n] = f][n] = f
  BY <1>1, <1>2 DEF Call
<1>5. frames'[t] = [frames[t] EXCEPT ![n] = f]
  BY <1>3 DEF TypeOK
<1>6. \A u \in Thread : u # t => frames'[u] = frames[u]
  BY <1>3 DEF TypeOK
<1>7. frames' \in [Thread -> Seq(Frame)]
  BY <1>3, <1>4 DEF TypeOK
<1> QED BY <1>4, <1>5, <1>6, <1>7 DEF f

\* The call that begins.
NewFrame(s, d, timed) ==
  [sb |-> s, link |-> d, count |-> 0, timed |-> timed, pc |-> "leave"]

\* A call begins on top of the stack.
LEMMA PushFacts ==
  ASSUME TypeOK, NEW t \in Thread, NEW s \in SB, NEW d \in Depth, NEW timed \in BOOLEAN,
         PushFrame(t, s, d, timed)
  PROVE  /\ frames' \in [Thread -> Seq(Frame)]
         /\ \A u \in Thread : u # t => frames'[u] = frames[u]
         /\ Len(frames'[t]) = Len(frames[t]) + 1
         /\ \A c \in Call(t) : frames'[t][c] = frames[t][c]
         /\ frames'[t][Len(frames[t]) + 1] = NewFrame(s, d, timed)
<1>1. frames[t] \in Seq(Frame)
  BY DEF TypeOK
<1>2. NewFrame(s, d, timed) \in Frame
  BY DEF NewFrame, Frame
<1>3. frames' = [frames EXCEPT ![t] = Append(frames[t], NewFrame(s, d, timed))]
  BY DEF PushFrame, NewFrame
<1>4. /\ Append(frames[t], NewFrame(s, d, timed)) \in Seq(Frame)
      /\ Len(Append(frames[t], NewFrame(s, d, timed))) = Len(frames[t]) + 1
      /\ \A c \in Call(t) : Append(frames[t], NewFrame(s, d, timed))[c] = frames[t][c]
      /\ Append(frames[t], NewFrame(s, d, timed))[Len(frames[t]) + 1] = NewFrame(s, d, timed)
  BY <1>1, <1>2, AppendProperties DEF Call
<1>5. frames'[t] = Append(frames[t], NewFrame(s, d, timed))
  BY <1>3 DEF TypeOK
<1>6. \A u \in Thread : u # t => frames'[u] = frames[u]
  BY <1>3 DEF TypeOK
<1>7. frames' \in [Thread -> Seq(Frame)]
  BY <1>3, <1>4 DEF TypeOK
<1> QED BY <1>4, <1>5, <1>6, <1>7

\* The innermost call returns.
LEMMA PopFacts ==
  ASSUME TypeOK, NEW t \in Thread, frames[t] # <<>>, Len(frames[t]) \in Depth, Return(t)
  PROVE  /\ frames' \in [Thread -> Seq(Frame)]
         /\ \A u \in Thread : u # t => frames'[u] = frames[u]
         /\ Len(frames'[t]) = Len(frames[t]) - 1
         /\ \A c \in Call(t) : c # Len(frames[t]) => frames'[t][c] = frames[t][c]
         /\ link' \in [Link -> [sb : SB \cup {NoSB}, event : Event, ref : Nat]]
         /\ link'[<<t, Len(frames[t])>>] = DeadLink(t)
         /\ \A l \in Link : l # <<t, Len(frames[t])>> => link'[l] = link[l]
<1>1. frames[t] \in Seq(Frame) /\ Len(frames[t]) \in Nat \ {0}
  BY TopFacts
<1>2. frames' = [frames EXCEPT ![t] = Front(frames[t])]
  BY DEF Return
<1>3. \A i \in 1..(Len(frames[t]) - 1) : frames[t][i] \in Frame
  BY <1>1, ElementOfSeq
<1>4. /\ Front(frames[t]) \in Seq(Frame) /\ Len(Front(frames[t])) = Len(frames[t]) - 1
      /\ \A c \in 1..(Len(frames[t]) - 1) : Front(frames[t])[c] = frames[t][c]
  BY <1>1, <1>3, SubSeqProperties DEF Front
<1>5. frames'[t] = Front(frames[t])
  BY <1>2 DEF TypeOK
<1>6. \A u \in Thread : u # t => frames'[u] = frames[u]
  BY <1>2 DEF TypeOK
<1>7. frames' \in [Thread -> Seq(Frame)]
  BY <1>2, <1>4 DEF TypeOK
<1>8. \A c \in Call(t) : c # Len(frames[t]) => frames'[t][c] = frames[t][c]
  BY <1>1, <1>4, <1>5 DEF Call
<1>9. <<t, Len(frames[t])>> \in Link
  BY DEF Link
<1>10. DeadLink(t) \in [sb : SB \cup {NoSB}, event : Event, ref : Nat]
  BY DEF DeadLink, Event
<1>11. /\ link' \in [Link -> [sb : SB \cup {NoSB}, event : Event, ref : Nat]]
       /\ link'[<<t, Len(frames[t])>>] = DeadLink(t)
       /\ \A l \in Link : l # <<t, Len(frames[t])>> => link'[l] = link[l]
  BY <1>9, <1>10 DEF Return, TypeOK
<1> QED BY <1>4, <1>5, <1>6, <1>7, <1>8, <1>11

-----------------------------------------------------------------------------
(* What the steps do to the links.                                         *)

\* The calls of a thread use the links they used.
SameUse(t) ==
  /\ Len(frames'[t]) = Len(frames[t])
  /\ \A c \in Call(t) :
       /\ frames'[t][c].sb = frames[t][c].sb /\ frames'[t][c].link = frames[t][c].link
       /\ frames'[t][c].pc = "reenter" <=> frames[t][c].pc = "reenter"

\* Then the counts of its links stay right.
LEMMA CountedMove ==
  ASSUME NEW t \in Thread, NEW d \in Depth, LinkCounted(t, d), SameUse(t),
         chain'[t] = chain[t], link'[<<t, d>>] = link[<<t, d>>]
  PROVE  LinkCounted(t, d)'
<1>1. Users(t, d)' = Users(t, d)
  BY DEF Users, SameUse, Call
<1>2. Cardinality(Users(t, d)') = Cardinality(Users(t, d))
  BY <1>1, Zenon
<1>3. DeadLink(t)' = DeadLink(t)
  BY DEF DeadLink
<1>4. \A c \in Users(t, d) : frames'[t][c].sb = frames[t][c].sb
  BY DEF Users, SameUse
<1>5. Len(frames'[t]) = Len(frames[t])
  BY DEF SameUse
<1> QED BY <1>1, <1>2, <1>3, <1>4, <1>5 DEF LinkCounted

\* How a link is counted in the next state, in a stack frame that exists ...
LEMMA CountedNext ==
  ASSUME NEW t \in Thread, NEW d \in Nat, Len(frames'[t]) \in Nat, d <= Len(frames'[t]),
         link'[<<t, d>>].ref = Cardinality(Users(t, d)'),
         d \in chain'[t] <=> d \in Users(t, d)',
         Users(t, d)' # {} => d \in Users(t, d)',
         \A c \in Users(t, d)' : frames'[t][c].sb = link'[<<t, d>>].sb
  PROVE  LinkCounted(t, d)'
BY DEF LinkCounted

\* ... and in one that does not.
LEMMA DeadNext ==
  ASSUME NEW t \in Thread, NEW d \in Nat, Len(frames'[t]) \in Nat, d > Len(frames'[t]),
         link'[<<t, d>>] = DeadLink(t)
  PROVE  LinkCounted(t, d)'
BY DEF LinkCounted, DeadLink

\* The calls of a thread are a finite set.
LEMMA UsersFinite ==
  ASSUME TypeOK, NEW t \in Thread, NEW d
  PROVE  IsFiniteSet(Users(t, d))
<1>1. Len(frames[t]) \in Nat
  BY CallFacts
<1>2. IsFiniteSet(1..Len(frames[t]))
  BY <1>1, FS_Interval
<1>3. Users(t, d) \in SUBSET (1..Len(frames[t]))
  BY DEF Users, Call
<1> QED BY <1>2, <1>3, FS_Subset

\* A step that leaves the use of all links and the store alone, and enqueues nothing.
LEMMA QuietMove ==
  ASSUME LinksCounted, OneLinkEach, OneEventEach, \A u \in Thread : SameUse(u),
         UNCHANGED <<link, chain, store, created>>,
         \A s \in SB : Range(queue'[s]) \subseteq Range(queue[s])
  PROVE  LinksCounted' /\ OneLinkEach' /\ OneEventEach'
<1>1. ASSUME NEW t \in Thread, NEW d \in Depth
      PROVE  LinkCounted(t, d)'
  <2>1. LinkCounted(t, d) /\ SameUse(t) /\ chain'[t] = chain[t] /\ link'[<<t, d>>] = link[<<t, d>>]
    BY DEF LinksCounted
  <2> QED BY <2>1, CountedMove
<1>2. LinksCounted'
  BY <1>1 DEF LinksCounted, Depth
<1>3. \A t \in Thread, d \in Depth : InUse(t, d)' <=> InUse(t, d)
  BY DEF InUse, SameUse
<1>4. OneLinkEach'
  BY <1>3 DEF OneLinkEach, Depth
<1>5. OneEventEach'
  BY <1>3 DEF OneEventEach, Depth
<1> QED BY <1>2, <1>4, <1>5

\* What keeps the call of a link from waiting in vain.
Heard(l) ==
  \/ IsQueued(l)
  \/ link[l].event \in signalled
  \/ \E u \in Thread : pulse[u].at = "set" /\ pulse[u].link = l

\* NoLostPulse, call by call.
LEMMA HeardAll ==
  NoLostPulse <=> \A t \in Thread : \A c \in Call(t) :
    frames[t][c].pc \in {"leave", "block"} => Heard(<<t, frames[t][c].link>>)
BY DEF NoLostPulse, Heard

\* The same in the next state.
LEMMA HeardNext ==
  ASSUME \A t \in Thread : \A c \in 1..Len(frames'[t]) :
           frames'[t][c].pc \in {"leave", "block"} =>
             \A k : k = frames'[t][c].link => Heard(<<t, k>>)'
  PROVE  NoLostPulse'
BY DEF NoLostPulse, Heard, Call

\* The stacks as they are when all calls stay where they are.
LEMMA HeardMove ==
  ASSUME NoLostPulse, frames' = frames,
         \A l : Heard(l) => Heard(l)'
  PROVE  NoLostPulse'
<1>1. ASSUME NEW t \in Thread, NEW c \in 1..Len(frames'[t]),
             frames'[t][c].pc \in {"leave", "block"}, NEW k, k = frames'[t][c].link
      PROVE  Heard(<<t, k>>)'
  BY <1>1, HeardAll DEF Call
<1> QED BY <1>1, HeardNext

-----------------------------------------------------------------------------
(* Steps that leave the stacks and the links alone.                        *)

\* A thread that runs code has no call that owns its monitor as a waiter.
LEMMA RunsCodeFacts ==
  ASSUME WaitInv, NEW t \in Thread, RunsCode(t)
  PROVE  /\ pulse[t].at = "none" /\ Defined /\ Len(frames[t]) < MaxNesting
         /\ \A c \in Call(t) : frames[t][c].pc \in {"block", "reenter"}
<1>1. TypeOK /\ StackFits /\ MaxNesting \in Nat \ {0}
  BY MonitorWaitAssumption DEF WaitInv
<1>2. CASE frames[t] = <<>>
  <2>1. Len(frames[t]) = 0
    BY <1>2
  <2> QED BY <1>1, <2>1 DEF RunsCode, Call
<1>3. CASE frames[t] # <<>>
  <2>1. Len(frames[t]) \in Nat \ {0} /\ Top(t) = frames[t][Len(frames[t])]
    BY <1>1, <1>3, TopFacts
  <2>2. Top(t).pc \in {"block", "reenter"} /\ Len(frames[t]) < MaxNesting
    BY <1>3 DEF RunsCode, InWait
  <2> QED BY <1>1, <2>1, <2>2 DEF RunsCode, StackFits, CallFits, Call
<1> QED BY <1>2, <1>3

LEMMA EnterStep ==
  ASSUME WaitInv, NEW t \in Thread, NEW s \in SB, Enter(t, s)
  PROVE  WaitInv'
<1>1. /\ TypeOK /\ OwnersEnter /\ StackFits /\ NoThread \notin Thread
      /\ LinksCounted /\ OneLinkEach /\ OneEventEach /\ PulseFits /\ NoLostPulse
  BY MonitorWaitAssumption DEF WaitInv
<1>2. /\ owner[s] \in {NoThread, t} /\ UNCHANGED <<queue, link, chain, frames, pulse, events, bounds>>
      /\ owner' = [owner EXCEPT ![s] = t] /\ entries' = [entries EXCEPT ![s] = @ + 1]
  BY DEF Enter, Enterable
<1>3. TypeOK'
  BY <1>1, <1>2 DEF TypeOK, events, bounds
<1>4. OwnersEnter'
  BY <1>1, <1>2 DEF TypeOK, OwnersEnter
<1>5. ASSUME NEW u \in Thread, NEW c \in Call(u)
      PROVE  CallFits(u, c)'
  <2>1. CallFits(u, c) /\ frames[u][c] \in Frame
    BY <1>1, CallFacts DEF StackFits
  <2> QED BY <1>1, <1>2, <2>1 DEF CallFits, TypeOK, Frame
<1>6. StackFits'
  BY <1>1, <1>2, <1>5 DEF StackFits, Call
<1>7. LinksCounted' /\ OneLinkEach' /\ OneEventEach'
  BY <1>1, <1>2, QuietMove DEF SameUse, events
<1>8. PulseFits' /\ NoLostPulse'
  BY <1>1, <1>2, HeardMove DEF PulseFits, Heard, IsQueued, events
<1> QED BY <1>3, <1>4, <1>6, <1>7, <1>8 DEF WaitInv

LEMMA LeaveStep ==
  ASSUME WaitInv, NEW t \in Thread, NEW s \in SB, Leave(t, s)
  PROVE  WaitInv'
<1>1. /\ TypeOK /\ OwnersEnter /\ StackFits /\ NoThread \notin Thread
      /\ LinksCounted /\ OneLinkEach /\ OneEventEach /\ PulseFits /\ NoLostPulse
  BY MonitorWaitAssumption DEF WaitInv
<1>2. /\ owner[s] = t /\ UNCHANGED <<queue, link, chain, frames, pulse, events, bounds>>
      /\ owner' = [owner EXCEPT ![s] = IF entries[s] = 1 THEN NoThread ELSE t]
      /\ entries' = [entries EXCEPT ![s] = @ - 1] /\ RunsCode(t)
  BY DEF Leave
<1>3. entries[s] \in Nat \ {0}
  BY <1>1, <1>2 DEF TypeOK, OwnersEnter
<1>4. TypeOK'
  BY <1>1, <1>2, <1>3 DEF TypeOK, events, bounds
<1>5. OwnersEnter'
  BY <1>1, <1>2, <1>3 DEF TypeOK, OwnersEnter
<1>6. ASSUME NEW u \in Thread, NEW c \in Call(u)
      PROVE  CallFits(u, c)'
  <2>1. CallFits(u, c) /\ frames[u][c] \in Frame
    BY <1>1, CallFacts DEF StackFits
  <2>2. u = t => frames[u][c].pc # "leave"
    BY <1>2, RunsCodeFacts
  <2> QED BY <1>1, <1>2, <2>1, <2>2 DEF CallFits, TypeOK, Frame
<1>7. StackFits'
  BY <1>1, <1>2, <1>6 DEF StackFits, Call
<1>8. LinksCounted' /\ OneLinkEach' /\ OneEventEach'
  BY <1>1, <1>2, QuietMove DEF SameUse, events
<1>9. PulseFits' /\ NoLostPulse'
  BY <1>1, <1>2, HeardMove DEF PulseFits, Heard, IsQueued, events
<1> QED BY <1>4, <1>5, <1>7, <1>8, <1>9 DEF WaitInv

\* A step that touches no monitor and no stack.
LEMMA StacksMove ==
  ASSUME StackFits, UNCHANGED <<owner, frames>>
  PROVE  StackFits'
BY DEF StackFits, CallFits, Call

LEMMA BeginPulseStep ==
  ASSUME WaitInv, NEW t \in Thread, NEW s \in SB, NEW all \in PulseAlls, BeginPulse(t, s, all)
  PROVE  WaitInv'
<1>1. /\ TypeOK /\ OwnersEnter /\ StackFits /\ PulseAlls \subseteq BOOLEAN
      /\ LinksCounted /\ OneLinkEach /\ OneEventEach /\ PulseFits /\ NoLostPulse
  BY MonitorWaitAssumption DEF WaitInv
<1>2. /\ pulse[t].at = "none"
      /\ pulse' = [pulse EXCEPT ![t] = [at |-> "dequeue", sb |-> s, all |-> all, link |-> NoLink]]
      /\ UNCHANGED <<monitors, queue, link, chain, frames, events, bounds>>
  BY DEF BeginPulse, RunsCode
<1>3. TypeOK'
  <2>1. pulse' \in [Thread -> [at : {"none", "dequeue", "set"}, sb : SB \cup {NoSB},
                               all : BOOLEAN, link : Link \cup {NoLink}]]
    BY <1>1, <1>2 DEF TypeOK
  <2> QED BY <1>1, <1>2, <2>1 DEF TypeOK, events, bounds, monitors
<1>4. OwnersEnter' /\ StackFits'
  BY <1>1, <1>2, StacksMove DEF OwnersEnter, monitors
<1>5. LinksCounted' /\ OneLinkEach' /\ OneEventEach'
  BY <1>1, <1>2, QuietMove DEF SameUse, events
<1>6. PulseFits' /\ NoLostPulse'
  BY <1>1, <1>2, HeardMove DEF PulseFits, Heard, IsQueued, events, TypeOK
<1> QED BY <1>3, <1>4, <1>5, <1>6 DEF WaitInv

LEMMA DequeueThreadStep ==
  ASSUME WaitInv, NEW t \in Thread, DequeueThread(t)
  PROVE  WaitInv'
<1> DEFINE s == pulse[t].sb
<1>1. /\ TypeOK /\ OwnersEnter /\ StackFits
      /\ LinksCounted /\ OneLinkEach /\ OneEventEach /\ PulseFits /\ NoLostPulse
  BY DEF WaitInv
<1>2. pulse[t].at = "dequeue" /\ UNCHANGED <<monitors, link, chain, frames, events, bounds>>
  BY DEF DequeueThread
<1>3. OwnersEnter' /\ StackFits'
  BY <1>1, <1>2, StacksMove DEF OwnersEnter, monitors
<1>4. CASE queue[s] = <<>> /\ pulse' = [pulse EXCEPT ![t] = NoPulse] /\ UNCHANGED queue
  <2>1. TypeOK'
    <3>1. pulse' \in [Thread -> [at : {"none", "dequeue", "set"}, sb : SB \cup {NoSB},
                                 all : BOOLEAN, link : Link \cup {NoLink}]]
      BY <1>1, <1>4 DEF TypeOK, NoPulse
    <3> QED BY <1>1, <1>2, <1>4, <3>1 DEF TypeOK, events, bounds, monitors
  <2>2. LinksCounted' /\ OneLinkEach' /\ OneEventEach'
    BY <1>1, <1>2, <1>4, QuietMove DEF SameUse, events
  <2>3. PulseFits' /\ NoLostPulse'
    BY <1>1, <1>2, <1>4, HeardMove DEF PulseFits, NoPulse, Heard, IsQueued, events, TypeOK
  <2> QED BY <1>3, <2>1, <2>2, <2>3 DEF WaitInv
<1>5. CASE /\ queue[s] # <<>> /\ queue' = [queue EXCEPT ![s] = Tail(@)]
           /\ pulse' = [pulse EXCEPT ![t].at = "set", ![t].link = Head(queue[s])]
  <2>1. s \in SB
    BY <1>1, <1>2 DEF PulseFits
  <2>2. queue[s] \in Seq(Link)
    BY <1>1, <2>1 DEF TypeOK
  <2>3. /\ Head(queue[s]) \in Link /\ Tail(queue[s]) \in Seq(Link)
        /\ Range(Tail(queue[s])) \subseteq Range(queue[s])
        /\ Range(queue[s]) \subseteq Range(Tail(queue[s])) \cup {Head(queue[s])}
    BY <1>5, <2>2, TailFacts
  <2>4. /\ queue' \in [SB -> Seq(Link)] /\ queue'[s] = Tail(queue[s])
        /\ \A z \in SB : z # s => queue'[z] = queue[z]
    BY <1>1, <1>5, <2>1, <2>3 DEF TypeOK
  <2>5. /\ pulse'[t].at = "set" /\ pulse'[t].link = Head(queue[s]) /\ pulse'[t].sb = s
        /\ pulse'[t] \in [at : {"none", "dequeue", "set"}, sb : SB \cup {NoSB},
                          all : BOOLEAN, link : Link \cup {NoLink}]
        /\ \A u \in Thread : u # t => pulse'[u] = pulse[u]
    BY <1>1, <1>5, <2>3 DEF TypeOK
  <2>6. pulse' \in [Thread -> [at : {"none", "dequeue", "set"}, sb : SB \cup {NoSB},
                               all : BOOLEAN, link : Link \cup {NoLink}]]
    <3>1. pulse' = [u \in Thread |-> pulse'[u]]
      BY <1>1, <1>5 DEF TypeOK
    <3>2. \A u \in Thread : pulse'[u] \in [at : {"none", "dequeue", "set"}, sb : SB \cup {NoSB},
                                           all : BOOLEAN, link : Link \cup {NoLink}]
      BY <1>1, <2>5 DEF TypeOK
    <3> QED BY <3>1, <3>2
  <2>7. TypeOK'
    BY <1>1, <1>2, <2>4, <2>6 DEF TypeOK, events, bounds, monitors
  <2>8. LinksCounted' /\ OneLinkEach' /\ OneEventEach'
    BY <1>1, <1>2, <2>3, <2>4, QuietMove DEF SameUse, events
  <2>9. PulseFits'
    BY <1>1, <2>1, <2>3, <2>5 DEF PulseFits
  <2>10. ASSUME NEW l, Heard(l)
         PROVE  Heard(l)'
    <3>1. CASE IsQueued(l)
      <4>1. PICK z \in SB : l \in Range(queue[z])
        BY <3>1 DEF IsQueued
      <4>2. l \in Range(queue'[z]) \/ l = Head(queue[s])
        BY <2>3, <2>4, <4>1
      <4> QED BY <2>5, <4>1, <4>2 DEF Heard, IsQueued
    <3>2. CASE ~IsQueued(l)
      BY <1>2, <2>5, <2>10, <3>2 DEF Heard, events
    <3> QED BY <3>1, <3>2
  <2>11. NoLostPulse'
    BY <1>1, <1>2, <2>10, HeardMove
  <2> QED BY <1>3, <2>7, <2>8, <2>9, <2>11 DEF WaitInv
<1> QED BY <1>4, <1>5 DEF DequeueThread

LEMMA SetEventStep ==
  ASSUME WaitInv, NEW t \in Thread, SetEvent(t)
  PROVE  WaitInv'
<1>1. /\ TypeOK /\ OwnersEnter /\ StackFits
      /\ LinksCounted /\ OneLinkEach /\ OneEventEach /\ PulseFits /\ NoLostPulse
  BY DEF WaitInv
<1>2. /\ pulse[t].at = "set" /\ pulse[t].link \in Link /\ pulse[t].sb \in SB
      /\ UNCHANGED <<monitors, queue, link, chain, frames, store, created, bounds>>
      /\ signalled' = signalled \cup {link[pulse[t].link].event}
  BY <1>1 DEF SetEvent, PulseFits
<1>3. /\ pulse' = [u \in Thread |-> pulse'[u]]
      /\ \A u \in Thread : u # t => pulse'[u] = pulse[u]
      /\ pulse'[t] = IF pulse[t].all THEN [pulse[t] EXCEPT !.at = "dequeue", !.link = NoLink]
                     ELSE NoPulse
  BY <1>1 DEF SetEvent, TypeOK
<1>4. /\ pulse'[t] \in [at : {"none", "dequeue", "set"}, sb : SB \cup {NoSB},
                        all : BOOLEAN, link : Link \cup {NoLink}]
      /\ pulse'[t].at # "set" /\ (pulse'[t].at # "none" => pulse'[t].sb \in SB)
  <2>1. pulse[t] \in [at : {"none", "dequeue", "set"}, sb : SB \cup {NoSB},
                      all : BOOLEAN, link : Link \cup {NoLink}]
    BY <1>1 DEF TypeOK
  <2>2. CASE pulse[t].all
    <3>1. pulse'[t] = [pulse[t] EXCEPT !.at = "dequeue", !.link = NoLink]
      BY <1>3, <2>2
    <3> QED BY <1>2, <2>1, <3>1
  <2>3. CASE ~pulse[t].all
    BY <1>3, <2>3 DEF NoPulse
  <2> QED BY <2>2, <2>3
<1>5. TypeOK'
  <2>1. \A u \in Thread : pulse'[u] \in [at : {"none", "dequeue", "set"}, sb : SB \cup {NoSB},
                                         all : BOOLEAN, link : Link \cup {NoLink}]
    BY <1>1, <1>3, <1>4 DEF TypeOK
  <2>2. pulse' \in [Thread -> [at : {"none", "dequeue", "set"}, sb : SB \cup {NoSB},
                               all : BOOLEAN, link : Link \cup {NoLink}]]
    BY <1>3, <2>1
  <2>3. link[pulse[t].link].event \in Event
    BY <1>1, <1>2 DEF TypeOK
  <2> QED BY <1>1, <1>2, <2>2, <2>3 DEF TypeOK, bounds, monitors
<1>6. OwnersEnter' /\ StackFits'
  BY <1>1, <1>2, StacksMove DEF OwnersEnter, monitors
<1>7. LinksCounted' /\ OneLinkEach' /\ OneEventEach'
  BY <1>1, <1>2, QuietMove DEF SameUse
<1>8. PulseFits'
  <2>1. ASSUME NEW u \in Thread
        PROVE  /\ pulse'[u].at # "none" => pulse'[u].sb \in SB
               /\ pulse'[u].at = "set" => pulse'[u].link \in Link
    <3>1. CASE u = t
      BY <1>4, <3>1
    <3>2. CASE u # t
      BY <1>1, <1>3, <3>2 DEF PulseFits
    <3> QED BY <3>1, <3>2
  <2> QED BY <2>1 DEF PulseFits, Link, Depth
<1>9. ASSUME NEW l, Heard(l)
      PROVE  Heard(l)'
  BY <1>2, <1>3, <1>9 DEF Heard, IsQueued
<1>10. NoLostPulse'
  BY <1>1, <1>2, <1>9, HeardMove
<1> QED BY <1>5, <1>6, <1>7, <1>8, <1>10 DEF WaitInv

-----------------------------------------------------------------------------
(* Steps of a call that keeps using its link.                              *)

\* The end of an event wait.
LEMMA BlockEnds ==
  ASSUME WaitInv, NEW t \in Thread, InWait(t, "block"), NEW to \in {"signalled", "unsignalled"},
         Goto(t, to), UNCHANGED <<monitors, queue, link, chain, pulse, events>>,
         interrupts' \in Nat, aborts' \in Nat, storeFailures' \in Nat
  PROVE  WaitInv'
<1> DEFINE n == Len(frames[t])
<1>1. /\ TypeOK /\ OwnersEnter /\ StackFits
      /\ LinksCounted /\ OneLinkEach /\ OneEventEach /\ PulseFits /\ NoLostPulse
  BY DEF WaitInv
<1>2. /\ frames[t] # <<>> /\ Top(t).pc = "block"
      /\ n \in Nat \ {0} /\ n \in Call(t) /\ Top(t) \in Frame /\ Top(t) = frames[t][n]
  BY <1>1, TopFacts DEF InWait
<1>3. /\ frames' \in [Thread -> Seq(Frame)]
      /\ \A u \in Thread : u # t => frames'[u] = frames[u]
      /\ Len(frames'[t]) = n
      /\ \A c \in Call(t) : c # n => frames'[t][c] = frames[t][c]
      /\ frames'[t][n] = [Top(t) EXCEPT !.pc = to]
  BY <1>1, <1>2, GotoFacts
<1>4. /\ frames'[t][n].sb = frames[t][n].sb /\ frames'[t][n].link = frames[t][n].link
      /\ frames'[t][n].count = frames[t][n].count /\ frames'[t][n].pc = to
  BY <1>2, <1>3 DEF Frame
<1>5. TypeOK'
  BY <1>1, <1>3 DEF TypeOK, monitors, events
<1>6. \A u \in Thread : SameUse(u)
  BY <1>2, <1>3, <1>4 DEF SameUse
<1>7. ASSUME NEW u \in Thread, NEW c \in Call(u)
      PROVE  CallFits(u, c)'
  <2>1. CallFits(u, c)
    BY <1>1 DEF StackFits
  <2>2. CASE u = t /\ c = n
    <3>1. Len(frames'[t]) = n /\ n \in Nat /\ owner' = owner
      BY <1>2, <1>3 DEF monitors
    <3>2. frames[t][n].link <= n /\ frames[t][n].count > 0
      BY <1>2, <2>1, <2>2 DEF CallFits
    <3>3. /\ Len(frames'[u]) = c /\ c \in Nat /\ frames'[u][c].pc = to
          /\ frames'[u][c].link <= c /\ frames'[u][c].count > 0
      BY <1>4, <2>2, <3>1, <3>2
    <3> QED BY <3>3 DEF CallFits
  <2>3. CASE ~(u = t /\ c = n)
    BY <1>3, <2>1, <2>3 DEF CallFits, monitors
  <2> QED BY <2>2, <2>3
<1>8. StackFits' /\ OwnersEnter' /\ PulseFits'
  BY <1>1, <1>3, <1>7 DEF StackFits, OwnersEnter, PulseFits, Call, monitors
<1>9. LinksCounted' /\ OneLinkEach' /\ OneEventEach'
  BY <1>1, <1>6, QuietMove DEF events
<1>10. ASSUME NEW u \in Thread, NEW c \in 1..Len(frames'[u]),
              frames'[u][c].pc \in {"leave", "block"}, NEW k, k = frames'[u][c].link
       PROVE  Heard(<<u, k>>)'
  <2>1. c \in Call(u) /\ frames'[u][c] = frames[u][c]
    BY <1>3, <1>4, <1>10 DEF Call
  <2>2. Heard(<<u, k>>)
    BY <1>1, <1>10, <2>1, HeardAll
  <2> QED BY <2>2 DEF Heard, IsQueued, events
<1>11. NoLostPulse'
  BY <1>10, HeardNext
<1> QED BY <1>5, <1>8, <1>9, <1>11 DEF WaitInv

LEMMA WaitSignalledStep ==
  ASSUME WaitInv, NEW t \in Thread, WaitSignalled(t)
  PROVE  WaitInv'
<1>1. InWait(t, "block") /\ Goto(t, "signalled")
      /\ UNCHANGED <<monitors, queue, link, chain, pulse, events, bounds>>
  BY DEF WaitSignalled, AtWait
<1>2. interrupts' \in Nat /\ aborts' \in Nat /\ storeFailures' \in Nat
  BY <1>1 DEF WaitInv, TypeOK, bounds
<1> QED BY <1>1, <1>2, BlockEnds

LEMMA WaitTimedOutStep ==
  ASSUME WaitInv, NEW t \in Thread, WaitTimedOut(t)
  PROVE  WaitInv'
<1>1. InWait(t, "block") /\ Goto(t, "unsignalled")
      /\ UNCHANGED <<monitors, queue, link, chain, pulse, events, bounds>>
  BY DEF WaitTimedOut, AtWait
<1>2. interrupts' \in Nat /\ aborts' \in Nat /\ storeFailures' \in Nat
  BY <1>1 DEF WaitInv, TypeOK, bounds
<1> QED BY <1>1, <1>2, BlockEnds

LEMMA WaitInterruptedStep ==
  ASSUME WaitInv, NEW t \in Thread, WaitInterrupted(t)
  PROVE  WaitInv'
<1>1. InWait(t, "block") /\ Goto(t, "unsignalled") /\ interrupts' = interrupts + 1
      /\ UNCHANGED <<monitors, queue, link, chain, pulse, events, aborts, storeFailures>>
  BY DEF WaitInterrupted, AtWait
<1>2. interrupts' \in Nat /\ aborts' \in Nat /\ storeFailures' \in Nat
  BY <1>1 DEF WaitInv, TypeOK
<1> QED BY <1>1, <1>2, BlockEnds

\* The stacks after LeaveMonitorCompletely.
LEMMA LeaveTopFacts ==
  ASSUME TypeOK, NEW t \in Thread, LeaveMonitorCompletely(t)
  PROVE  /\ frames' \in [Thread -> Seq(Frame)]
         /\ \A u \in Thread : u # t => frames'[u] = frames[u]
         /\ Len(frames'[t]) = Len(frames[t])
         /\ \A c \in Call(t) : c # Len(frames[t]) => frames'[t][c] = frames[t][c]
         /\ frames'[t][Len(frames[t])] =
              [Top(t) EXCEPT !.count = entries[Top(t).sb], !.pc = "block"]
<1> DEFINE n == Len(frames[t])
           f == [Top(t) EXCEPT !.count = entries[Top(t).sb], !.pc = "block"]
<1>1. frames[t] # <<>>
  BY DEF LeaveMonitorCompletely, AtWait, InWait
<1>2. /\ frames[t] \in Seq(Frame) /\ n \in Nat \ {0} /\ Top(t) \in Frame
      /\ Top(t) = frames[t][n]
  BY <1>1, TopFacts
<1>3. f \in Frame
  BY <1>2 DEF Frame, TypeOK
<1>4. frames' = [frames EXCEPT ![t] = [frames[t] EXCEPT ![n] = f]]
  BY <1>2 DEF LeaveMonitorCompletely, TypeOK
<1> HIDE DEF f
<1>5. /\ [frames[t] EXCEPT ![n] = f] \in Seq(Frame)
      /\ Len([frames[t] EXCEPT ![n] = f]) = n
      /\ \A c \in Call(t) : c # n => [frames[t] EXCEPT ![n] = f][c] = frames[t][c]
      /\ [frames[t] EXCEPT ![n] = f][n] = f
  BY <1>2, <1>3 DEF Call
<1>6. frames'[t] = [frames[t] EXCEPT ![n] = f]
  BY <1>4 DEF TypeOK
<1>7. \A u \in Thread : u # t => frames'[u] = frames[u]
  BY <1>4 DEF TypeOK
<1>8. frames' \in [Thread -> Seq(Frame)]
  BY <1>4, <1>5 DEF TypeOK
<1> QED BY <1>5, <1>6, <1>7, <1>8 DEF f

LEMMA LeaveMonitorCompletelyStep ==
  ASSUME WaitInv, NEW t \in Thread, LeaveMonitorCompletely(t)
  PROVE  WaitInv'
<1> DEFINE n == Len(frames[t])
           s == Top(t).sb
<1>1. /\ TypeOK /\ OwnersEnter /\ StackFits /\ NoThread \notin Thread
      /\ LinksCounted /\ OneLinkEach /\ OneEventEach /\ PulseFits /\ NoLostPulse
  BY MonitorWaitAssumption DEF WaitInv
<1>2. /\ frames[t] # <<>> /\ Top(t).pc = "leave"
      /\ owner' = [owner EXCEPT ![s] = NoThread] /\ entries' = [entries EXCEPT ![s] = 0]
      /\ UNCHANGED <<queue, link, chain, pulse, events, bounds>>
  BY DEF LeaveMonitorCompletely, AtWait, InWait
<1>3. /\ n \in Nat \ {0} /\ n \in Call(t) /\ Top(t) \in Frame /\ Top(t) = frames[t][n]
      /\ s \in SB
  BY <1>1, <1>2, TopFacts DEF Frame
<1>4. /\ frames' \in [Thread -> Seq(Frame)]
      /\ \A u \in Thread : u # t => frames'[u] = frames[u]
      /\ Len(frames'[t]) = n
      /\ \A c \in Call(t) : c # n => frames'[t][c] = frames[t][c]
      /\ frames'[t][n] = [Top(t) EXCEPT !.count = entries[s], !.pc = "block"]
  BY <1>1, LeaveTopFacts
<1>5. /\ frames'[t][n].sb = frames[t][n].sb /\ frames'[t][n].link = frames[t][n].link
      /\ frames'[t][n].count = entries[s] /\ frames'[t][n].pc = "block"
  BY <1>3, <1>4 DEF Frame
<1>6. owner[s] = t /\ entries[s] \in Nat \ {0}
  <2>1. CallFits(t, n)
    BY <1>1, <1>3 DEF StackFits
  <2>2. owner[s] = t
    BY <1>2, <1>3, <2>1 DEF CallFits
  <2> QED BY <1>1, <1>3, <2>2 DEF OwnersEnter, TypeOK
<1>7. TypeOK'
  BY <1>1, <1>2, <1>3, <1>4 DEF TypeOK, events, bounds
<1>8. \A u \in Thread : SameUse(u)
  BY <1>2, <1>3, <1>4, <1>5 DEF SameUse
<1>9. ASSUME NEW u \in Thread, NEW c \in Call(u)
      PROVE  CallFits(u, c)'
  <2>1. CallFits(u, c) /\ frames[u][c].sb \in SB /\ c <= Len(frames[u])
    BY <1>1, CallFacts DEF StackFits, Frame, Call
  <2>2. CASE u = t /\ c = n
    <3>1. Len(frames'[t]) = n /\ n \in Nat
      BY <1>3, <1>4
    <3>2. frames[t][n].link <= n /\ entries[s] > 0
      BY <1>6, <2>1, <2>2 DEF CallFits
    <3>3. /\ Len(frames'[u]) = c /\ c \in Nat /\ frames'[u][c].pc = "block"
          /\ frames'[u][c].link <= c /\ frames'[u][c].count > 0
      BY <1>5, <2>2, <3>1, <3>2
    <3> QED BY <3>3 DEF CallFits
  <2>3. CASE u = t /\ c # n
    <3>1. frames[u][c].pc # "leave"
      BY <1>3, <2>1, <2>3 DEF CallFits, Call
    <3> QED BY <1>4, <2>1, <2>3, <3>1 DEF CallFits
  <2>4. CASE u # t
    <3>1. frames[u][c].pc = "leave" => frames[u][c].sb # s
      BY <1>6, <2>1, <2>4 DEF CallFits
    <3>2. frames[u][c].sb # s => owner'[frames[u][c].sb] = owner[frames[u][c].sb]
      BY <1>1, <1>2, <2>1 DEF TypeOK
    <3> QED BY <1>4, <2>1, <2>4, <3>1, <3>2 DEF CallFits
  <2> QED BY <2>2, <2>3, <2>4
<1>10. StackFits'
  BY <1>1, <1>4, <1>9 DEF StackFits, Call
<1>11. OwnersEnter' /\ PulseFits'
  BY <1>1, <1>2, <1>3 DEF OwnersEnter, PulseFits, TypeOK
<1>12. LinksCounted' /\ OneLinkEach' /\ OneEventEach'
  BY <1>1, <1>2, <1>8, QuietMove DEF events
<1>13. ASSUME NEW u \in Thread, NEW c \in 1..Len(frames'[u]),
              frames'[u][c].pc \in {"leave", "block"}, NEW k, k = frames'[u][c].link
       PROVE  Heard(<<u, k>>)'
  <2>1. /\ c \in Call(u) /\ frames'[u][c].link = frames[u][c].link
        /\ frames[u][c].pc \in {"leave", "block"}
    BY <1>2, <1>3, <1>4, <1>5, <1>13 DEF Call
  <2>2. Heard(<<u, k>>)
    BY <1>1, <1>13, <2>1, HeardAll
  <2> QED BY <1>2, <2>2 DEF Heard, IsQueued, events
<1>14. NoLostPulse'
  BY <1>13, HeardNext
<1> QED BY <1>7, <1>10, <1>11, <1>12, <1>14 DEF WaitInv

-----------------------------------------------------------------------------
(* A call begins.                                                          *)

\* Who uses the links of the thread then.
LEMMA PushUsers ==
  ASSUME NEW t \in Thread, Len(frames[t]) \in Nat, Len(frames'[t]) = Len(frames[t]) + 1,
         \A c \in Call(t) : frames'[t][c] = frames[t][c],
         NEW s, NEW d, NEW timed,
         frames'[t][Len(frames[t]) + 1] = NewFrame(s, d, timed),
         NEW e
  PROVE  /\ e = d => Users(t, e)' = Users(t, e) \cup {Len(frames[t]) + 1}
         /\ e # d => Users(t, e)' = Users(t, e)
<1> DEFINE n == Len(frames[t])
<1>1. 1..(n + 1) = (1..n) \cup {n + 1} /\ n + 1 \notin 1..n
  OBVIOUS
<1>2. /\ frames'[t][n + 1].link = d /\ frames'[t][n + 1].pc = "leave"
  BY DEF NewFrame
<1>3. Users(t, e)' = {c \in 1..(n + 1) : frames'[t][c].link = e /\ frames'[t][c].pc # "reenter"}
  BY DEF Users, Call
<1>4. Users(t, e) = {c \in 1..n : frames[t][c].link = e /\ frames[t][c].pc # "reenter"}
  BY DEF Users, Call
<1>5. \A c \in 1..n : frames'[t][c] = frames[t][c]
  BY DEF Call
<1> QED BY <1>1, <1>2, <1>3, <1>4, <1>5

\* The new stack fits.
LEMMA PushFits ==
  ASSUME WaitInv, NEW t \in Thread, NEW s \in SB, NEW d \in Depth, NEW timed \in BOOLEAN,
         PushFrame(t, s, d, timed), RunsCode(t), owner[s] = t, owner' = owner,
         d <= Len(frames[t]) + 1
  PROVE  StackFits'
<1> DEFINE n == Len(frames[t])
<1>1. TypeOK /\ StackFits
  BY DEF WaitInv
<1>2. /\ n \in Nat /\ n < MaxNesting /\ MaxNesting \in Nat
      /\ \A c \in Call(t) : frames[t][c].pc \in {"block", "reenter"}
  BY <1>1, RunsCodeFacts, CallFacts, MonitorWaitAssumption
<1>3. /\ \A u \in Thread : u # t => frames'[u] = frames[u]
      /\ Len(frames'[t]) = n + 1
      /\ \A c \in Call(t) : frames'[t][c] = frames[t][c]
      /\ frames'[t][n + 1] = NewFrame(s, d, timed)
  BY <1>1, PushFacts
<1>4. ASSUME NEW u \in Thread, NEW c \in 1..Len(frames'[u])
      PROVE  CallFits(u, c)'
  <2>1. CASE u # t
    <3>1. CallFits(u, c) /\ frames'[u] = frames[u]
      BY <1>1, <1>3, <1>4, <2>1 DEF StackFits, Call
    <3> QED BY <3>1 DEF CallFits
  <2>2. CASE u = t /\ c # n + 1
    <3>1. c \in Call(t) /\ c < n + 1
      BY <1>2, <1>3, <1>4, <2>2 DEF Call
    <3>2. CallFits(u, c) /\ frames'[u][c] = frames[u][c] /\ frames[u][c].pc \in {"block", "reenter"}
      BY <1>1, <1>2, <1>3, <2>2, <3>1 DEF StackFits
    <3> QED BY <3>2 DEF CallFits
  <2>3. CASE u = t /\ c = n + 1
    <3>1. /\ Len(frames'[u]) = c /\ c \in Nat /\ frames'[u][c].link = d /\ d <= c
          /\ frames'[u][c].pc = "leave" /\ frames'[u][c].sb = s
      BY <1>2, <1>3, <2>3 DEF NewFrame
    <3> QED BY <2>3, <3>1 DEF CallFits
  <2> QED BY <2>1, <2>2, <2>3
<1>5. \A u \in Thread : Len(frames'[u]) <= MaxNesting
  BY <1>1, <1>2, <1>3 DEF StackFits
<1> QED BY <1>4, <1>5 DEF StackFits, Call

\* A step after which the links in use were in use, for the same sync block and with the
\* same event, and that enqueues nothing.
LEMMA UseMove ==
  ASSUME OneLinkEach, OneEventEach,
         \A u \in Thread, d \in Depth : InUse(u, d)' =>
           /\ InUse(u, d)
           /\ link'[<<u, d>>].sb = link[<<u, d>>].sb
           /\ link'[<<u, d>>].event = link[<<u, d>>].event
           /\ link[<<u, d>>].event \notin store',
         \A s \in SB : Range(queue'[s]) \subseteq Range(queue[s]),
         created' = created, store' \subseteq created
  PROVE  OneLinkEach' /\ OneEventEach'
<1>1. OneLinkEach'
  BY DEF OneLinkEach, Depth
<1>2. ASSUME NEW t \in Thread, NEW d \in Depth, InUse(t, d)'
      PROVE  /\ link'[<<t, d>>].event \in {OwnEvent[t]} \cup (created' \ store')
             /\ \A u \in Thread, e \in Depth :
                  InUse(u, e)' /\ link'[<<u, e>>].event = link'[<<t, d>>].event => t = u /\ d = e
  <2>1. /\ InUse(t, d) /\ link'[<<t, d>>].event = link[<<t, d>>].event
        /\ link[<<t, d>>].event \notin store'
    BY <1>2
  <2>2. link[<<t, d>>].event \in {OwnEvent[t]} \cup (created \ store)
    BY <2>1 DEF OneEventEach
  <2>3. ASSUME NEW u \in Thread, NEW e \in Depth, InUse(u, e)',
               link'[<<u, e>>].event = link'[<<t, d>>].event
        PROVE  t = u /\ d = e
    <3>1. InUse(u, e) /\ link'[<<u, e>>].event = link[<<u, e>>].event
      BY <2>3
    <3>2. link[<<u, e>>].event = link[<<t, d>>].event
      BY <2>1, <2>3, <3>1
    <3>3. \A v \in Thread, f \in Depth :
            InUse(v, f) /\ link[<<v, f>>].event = link[<<t, d>>].event => t = v /\ d = f
      BY <2>1 DEF OneEventEach
    <3> QED BY <3>1, <3>2, <3>3
  <2> QED BY <2>1, <2>2, <2>3
<1>3. OneEventEach'
  BY <1>2 DEF OneEventEach, Depth
<1> QED BY <1>1, <1>3

LEMMA WaitSharedStep ==
  ASSUME WaitInv, NEW t \in Thread, NEW s \in SB, NEW timed \in TimedWaits,
         WaitShared(t, s, timed)
  PROVE  WaitInv'
<1> DEFINE n == Len(frames[t])
<1>1. /\ TypeOK /\ OwnersEnter /\ StackFits /\ TimedWaits \subseteq BOOLEAN
      /\ LinksCounted /\ OneLinkEach /\ OneEventEach /\ PulseFits /\ NoLostPulse
  BY MonitorWaitAssumption DEF WaitInv
<1>2. PICK d \in AlreadyWaits(t, s) :
        /\ link' = [link EXCEPT ![<<t, d>>].ref = @ + 1]
        /\ PushFrame(t, s, d, timed)
  BY DEF WaitShared
<1>3. /\ owner[s] = t /\ RunsCode(t) /\ UNCHANGED <<monitors, queue, chain, pulse, events, bounds>>
      /\ owner' = owner /\ entries' = entries
  BY DEF WaitShared, monitors
<1>4. /\ Defined /\ n < MaxNesting /\ n \in Nat /\ MaxNesting \in Nat
      /\ \A c \in Call(t) : frames[t][c].pc \in {"block", "reenter"}
  BY <1>1, <1>3, RunsCodeFacts, CallFacts, MonitorWaitAssumption
<1>5. /\ d \in chain[t] /\ d \in Depth /\ link[<<t, d>>].sb = s /\ <<t, d>> \in Link
  BY <1>1, <1>2 DEF AlreadyWaits, TypeOK, Link
<1>6. /\ d <= n /\ d \in 1..n /\ n + 1 \notin chain[t]
  BY <1>4, <1>5 DEF Defined, LinkAlive, Depth
<1>7. /\ frames' \in [Thread -> Seq(Frame)]
      /\ \A u \in Thread : u # t => frames'[u] = frames[u]
      /\ Len(frames'[t]) = n + 1
      /\ \A c \in Call(t) : frames'[t][c] = frames[t][c]
      /\ frames'[t][n + 1] = NewFrame(s, d, timed)
  BY <1>1, <1>2, <1>5, PushFacts
<1>8. /\ link' \in [Link -> [sb : SB \cup {NoSB}, event : Event, ref : Nat]]
      /\ \A l \in Link : /\ link'[l].sb = link[l].sb /\ link'[l].event = link[l].event
                         /\ l # <<t, d>> => link'[l] = link[l]
      /\ link'[<<t, d>>].ref = link[<<t, d>>].ref + 1
  <2>1. /\ link' = [link EXCEPT ![<<t, d>>] = [link[<<t, d>>] EXCEPT !.ref = link[<<t, d>>].ref + 1]]
        /\ link[<<t, d>>] \in [sb : SB \cup {NoSB}, event : Event, ref : Nat]
        /\ link \in [Link -> [sb : SB \cup {NoSB}, event : Event, ref : Nat]]
    BY <1>1, <1>2, <1>5 DEF TypeOK
  <2>2. [link[<<t, d>>] EXCEPT !.ref = link[<<t, d>>].ref + 1]
          \in [sb : SB \cup {NoSB}, event : Event, ref : Nat]
    BY <2>1
  <2>3. /\ link' \in [Link -> [sb : SB \cup {NoSB}, event : Event, ref : Nat]]
        /\ \A l \in Link : l # <<t, d>> => link'[l] = link[l]
        /\ link'[<<t, d>>] = [link[<<t, d>>] EXCEPT !.ref = link[<<t, d>>].ref + 1]
    BY <1>5, <2>1, <2>2
  <2>4. /\ link'[<<t, d>>].sb = link[<<t, d>>].sb /\ link'[<<t, d>>].event = link[<<t, d>>].event
        /\ link'[<<t, d>>].ref = link[<<t, d>>].ref + 1
    BY <2>1, <2>3
  <2> QED BY <2>3, <2>4
<1>9. TypeOK'
  BY <1>1, <1>3, <1>7, <1>8 DEF TypeOK, events, bounds
<1>10. StackFits'
  BY <1>1, <1>2, <1>3, <1>4, <1>5, <1>6, PushFits
<1>11. OwnersEnter' /\ PulseFits'
  BY <1>1, <1>3 DEF OwnersEnter, PulseFits
<1>12. LinkCounted(t, d) /\ d \in Users(t, d) /\ IsFiniteSet(Users(t, d))
  BY <1>1, <1>5, <1>6, UsersFinite DEF LinksCounted, LinkCounted
<1>13. \A e \in Depth : /\ e = d => Users(t, e)' = Users(t, e) \cup {n + 1}
                        /\ e # d => Users(t, e)' = Users(t, e)
  BY <1>4, <1>7, PushUsers
<1>14. ASSUME NEW e \in Depth
       PROVE  LinkCounted(t, e)'
  <2>1. LinkCounted(t, e) /\ <<t, e>> \in Link /\ e \in Nat /\ Len(frames'[t]) \in Nat
    BY <1>1, <1>4, <1>7 DEF LinksCounted, Link, Depth
  <2>2. CASE e = d
    <3>1. Users(t, e)' = Users(t, d) \cup {n + 1} /\ n + 1 \notin Users(t, d)
      BY <1>4, <1>13, <2>2 DEF Users, Call
    <3>2. Cardinality(Users(t, d) \cup {n + 1}) = Cardinality(Users(t, d)) + 1
      BY <1>12, <3>1, FS_AddElement
    <3>3. Cardinality(Users(t, e)') = Cardinality(Users(t, d)) + 1
      BY <3>1, <3>2, Zenon
    <3>4. link'[<<t, e>>].ref = Cardinality(Users(t, e)')
      BY <1>6, <1>8, <1>12, <2>2, <3>3 DEF LinkCounted
    <3>5. ASSUME NEW c \in Users(t, e)'
          PROVE  frames'[t][c].sb = link'[<<t, e>>].sb
      <4>1. CASE c = n + 1
        BY <1>5, <1>7, <1>8, <2>2, <4>1 DEF NewFrame
      <4>2. CASE c \in Users(t, d)
        <5>1. c \in Call(t) /\ frames[t][c].sb = link[<<t, d>>].sb
          BY <1>6, <1>12, <4>2 DEF LinkCounted, Users
        <5> QED BY <1>5, <1>7, <1>8, <2>2, <5>1
      <4> QED BY <3>1, <4>1, <4>2
    <3>6. e <= n /\ e \in Users(t, e)' /\ e \in chain'[t]
      BY <1>3, <1>5, <1>6, <1>12, <2>2, <3>1
    <3>7. e <= Len(frames'[t])
      BY <1>4, <1>7, <2>1, <3>6
    <3> QED BY <2>1, <3>4, <3>5, <3>6, <3>7, CountedNext
  <2>3. CASE e # d /\ e <= n
    <3>1. Users(t, e)' = Users(t, e) /\ link'[<<t, e>>] = link[<<t, e>>] /\ chain' = chain
      BY <1>3, <1>8, <1>13, <2>1, <2>3
    <3>2. Cardinality(Users(t, e)') = Cardinality(Users(t, e))
      BY <3>1, Zenon
    <3>3. \A c \in Users(t, e) : frames'[t][c] = frames[t][c]
      BY <1>7 DEF Users
    <3>4. e <= Len(frames'[t])
      BY <1>4, <1>7, <2>1, <2>3
    <3>5. /\ link'[<<t, e>>].ref = Cardinality(Users(t, e)')
          /\ e \in chain'[t] <=> e \in Users(t, e)'
          /\ Users(t, e)' # {} => e \in Users(t, e)'
          /\ \A c \in Users(t, e)' : frames'[t][c].sb = link'[<<t, e>>].sb
      BY <2>1, <2>3, <3>1, <3>2, <3>3 DEF LinkCounted
    <3> QED BY <2>1, <3>4, <3>5, CountedNext
  <2>4. CASE e = n + 1
    <3>1. link'[<<t, e>>] = DeadLink(t)
      BY <1>4, <1>6, <1>8, <2>1, <2>4 DEF LinkCounted
    <3>2. Users(t, e) = {}
      BY <1>1, <1>4, <2>4 DEF Users, Call, StackFits, CallFits
    <3>3. Users(t, e)' = {}
      BY <1>4, <1>6, <1>13, <2>4, <3>2
    <3>4. Cardinality(Users(t, e)') = 0
      BY <3>3, FS_EmptySet, Zenon
    <3>5. link'[<<t, e>>].ref = 0 /\ e \notin chain'[t]
      BY <1>3, <1>6, <2>4, <3>1 DEF DeadLink
    <3> QED BY <1>7, <2>1, <2>4, <3>3, <3>4, <3>5, CountedNext
  <2>5. CASE e > n + 1
    <3>1. e > Len(frames'[t]) /\ e > n /\ e # d
      BY <1>4, <1>6, <1>7, <2>1, <2>5
    <3>2. link'[<<t, e>>] = DeadLink(t)
      BY <1>8, <2>1, <3>1 DEF LinkCounted
    <3> QED BY <2>1, <3>1, <3>2, DeadNext
  <2> QED BY <1>4, <2>2, <2>3, <2>4, <2>5 DEF Depth
<1>15. ASSUME NEW u \in Thread, NEW e \in Depth
       PROVE  LinkCounted(u, e)'
  <2>1. CASE u # t
    <3>1. SameUse(u) /\ chain'[u] = chain[u] /\ link'[<<u, e>>] = link[<<u, e>>] /\ LinkCounted(u, e)
      BY <1>1, <1>3, <1>7, <1>8, <2>1 DEF SameUse, LinksCounted, Link
    <3> QED BY <3>1, CountedMove
  <2> QED BY <1>14, <2>1
<1>16. LinksCounted'
  BY <1>15 DEF LinksCounted, Depth
<1>17. ASSUME NEW u \in Thread, NEW e \in Depth, InUse(u, e)'
       PROVE  /\ InUse(u, e)
              /\ link'[<<u, e>>].sb = link[<<u, e>>].sb
              /\ link'[<<u, e>>].event = link[<<u, e>>].event
              /\ link[<<u, e>>].event \notin store'
  <2>1. InUse(u, e)
    BY <1>3, <1>4, <1>6, <1>7, <1>17 DEF InUse, Depth
  <2>2. link[<<u, e>>].event \notin store
    <3>1. link[<<u, e>>].event \in {OwnEvent[u]} \cup (created \ store)
      BY <1>1, <2>1 DEF OneEventEach
    <3> QED BY <1>1, <3>1, MonitorWaitAssumption DEF TypeOK
  <2> QED BY <1>3, <1>8, <2>1, <2>2 DEF Link, events
<1>18. OneLinkEach' /\ OneEventEach'
  <2>1. store' \subseteq created /\ created' = created
        /\ \A z \in SB : Range(queue'[z]) \subseteq Range(queue[z])
    BY <1>1, <1>3 DEF OneEventEach, events
  <2> QED BY <1>1, <1>17, <2>1, UseMove
<1>19. \A l \in Link : Heard(l) => Heard(l)'
  BY <1>3, <1>8 DEF Heard, IsQueued, events
<1>20. ASSUME NEW u \in Thread, NEW c \in 1..Len(frames'[u]),
              frames'[u][c].pc \in {"leave", "block"}, NEW k, k = frames'[u][c].link
       PROVE  Heard(<<u, k>>)'
  <2>1. CASE u = t /\ c = n + 1
    <3>1. k = d
      BY <1>7, <1>20, <2>1 DEF NewFrame
    <3>2. d \in Call(t) /\ frames[t][d].link = d /\ frames[t][d].pc = "block"
      BY <1>4, <1>12 DEF Users
    <3>3. Heard(<<t, d>>)
      BY <1>1, <3>2, HeardAll
    <3> QED BY <1>5, <1>19, <2>1, <3>1, <3>3
  <2>2. CASE ~(u = t /\ c = n + 1)
    <3>1. c \in Call(u) /\ frames'[u][c] = frames[u][c] /\ frames[u][c].link \in Depth
      <4>1. c \in Call(u) /\ frames'[u][c] = frames[u][c]
        BY <1>4, <1>7, <1>20, <2>2 DEF Call
      <4> QED BY <1>1, <4>1, CallFacts DEF Frame
    <3>2. Heard(<<u, k>>) /\ <<u, k>> \in Link
      BY <1>1, <1>20, <3>1, HeardAll DEF Link
    <3> QED BY <1>19, <3>2
  <2> QED BY <2>1, <2>2
<1>21. NoLostPulse'
  BY <1>20, HeardNext
<1> QED BY <1>9, <1>10, <1>11, <1>16, <1>18, <1>21 DEF WaitInv

\* The link of a call that has not restored it is in use.
LEMMA UserInUse ==
  ASSUME TypeOK, StackFits, LinksCounted, NEW t \in Thread, NEW c \in Call(t),
         frames[t][c].pc # "reenter", NEW d, d = frames[t][c].link
  PROVE  /\ d \in Depth /\ <<t, d>> \in Link /\ d <= c /\ d <= Len(frames[t])
         /\ c \in Users(t, d) /\ d \in Users(t, d) /\ InUse(t, d)
         /\ frames[t][c].sb = link[<<t, d>>].sb
<1>1. frames[t][c] \in Frame /\ c \in Nat /\ Len(frames[t]) \in Nat
  BY CallFacts
<1>2. d \in Depth /\ d \in Nat
  BY <1>1 DEF Frame, Depth
<1>3. CallFits(t, c) /\ LinkCounted(t, d)
  BY <1>2 DEF StackFits, LinksCounted
<1>4. d <= c /\ c <= Len(frames[t])
  BY <1>3 DEF CallFits, Call
<1>5. d <= Len(frames[t])
  BY <1>1, <1>2, <1>4
<1>6. c \in Users(t, d)
  BY DEF Users
<1> QED BY <1>2, <1>3, <1>4, <1>5, <1>6 DEF LinkCounted, InUse, Link

\* The event of a new link: no link in use has it.
LEMMA NewEvent ==
  ASSUME TypeOK, OneEventEach, NEW t \in Thread, NEW e,
         \/ chain[t] = {} /\ e = OwnEvent[t] /\ UNCHANGED <<store, created>>
         \/ chain[t] # {} /\ TakeEvent(e)
  PROVE  /\ store' \subseteq created' /\ created' \subseteq Pool
         /\ e \in {OwnEvent[t]} \cup (created' \ store')
         /\ \A u \in Thread, d \in Depth : InUse(u, d) =>
              /\ link[<<u, d>>].event # e
              /\ link[<<u, d>>].event \in {OwnEvent[u]} \cup (created' \ store')
<1>1. /\ store \subseteq created /\ created \subseteq Pool
      /\ \A u \in Thread : OwnEvent[u] \notin Pool
      /\ \A u, v \in Thread : OwnEvent[u] = OwnEvent[v] => u = v
  BY MonitorWaitAssumption DEF TypeOK, OneEventEach
<1>2. \A u \in Thread, d \in Depth : InUse(u, d) =>
        link[<<u, d>>].event \in {OwnEvent[u]} \cup (created \ store)
  BY DEF OneEventEach
<1>3. CASE chain[t] = {} /\ e = OwnEvent[t] /\ UNCHANGED <<store, created>>
  <2>1. \A d : ~InUse(t, d)
    BY <1>3 DEF InUse
  <2> QED BY <1>1, <1>2, <1>3, <2>1
<1>4. CASE e \in store /\ store' = store \ {e} /\ created' = created
  BY <1>1, <1>2, <1>4
<1>5. CASE e \in Pool \ created /\ created' = created \cup {e} /\ store' = store
  BY <1>1, <1>2, <1>5
<1> QED BY <1>3, <1>4, <1>5 DEF TakeEvent

LEMMA WaitEnqueueStep ==
  ASSUME WaitInv, NEW t \in Thread, NEW s \in SB, NEW timed \in TimedWaits,
         WaitEnqueue(t, s, timed)
  PROVE  WaitInv'
<1> DEFINE n == Len(frames[t])
<1>1. /\ TypeOK /\ OwnersEnter /\ StackFits /\ timed \in BOOLEAN
      /\ LinksCounted /\ OneLinkEach /\ OneEventEach /\ PulseFits /\ NoLostPulse
  BY MonitorWaitAssumption DEF WaitInv
<1>2. PICK e \in Event :
        /\ \/ chain[t] = {} /\ e = OwnEvent[t] /\ UNCHANGED <<store, created>>
           \/ chain[t] # {} /\ TakeEvent(e)
        /\ link' = [link EXCEPT ![<<t, n + 1>>] = [sb |-> s, event |-> e, ref |-> 1]]
        /\ signalled' = signalled \ {e}
  BY DEF WaitEnqueue
<1>3. /\ owner[s] = t /\ RunsCode(t) /\ AlreadyWaits(t, s) = {}
      /\ chain' = [chain EXCEPT ![t] = @ \cup {n + 1}]
      /\ queue' = [queue EXCEPT ![s] = Append(@, <<t, n + 1>>)]
      /\ PushFrame(t, s, n + 1, timed)
      /\ UNCHANGED <<monitors, pulse, bounds>> /\ owner' = owner /\ entries' = entries
  BY DEF WaitEnqueue, monitors
<1>4. /\ Defined /\ n < MaxNesting /\ n \in Nat /\ MaxNesting \in Nat
  BY <1>1, <1>3, RunsCodeFacts, CallFacts, MonitorWaitAssumption
<1>5. n + 1 \in Depth /\ <<t, n + 1>> \in Link
  BY <1>4 DEF Depth, Link
<1>6. n + 1 \notin chain[t] /\ \A z \in SB : <<t, n + 1>> \notin Range(queue[z])
  <2>1. n + 1 \notin chain[t]
    BY <1>4 DEF Defined, LinkAlive
  <2>2. ASSUME NEW z \in SB, NEW i \in DOMAIN queue[z], queue[z][i] = <<t, n + 1>>
        PROVE  FALSE
    <3>1. LinkAlive(<<t, n + 1>>)
      BY <1>4, <2>2 DEF Defined
    <3> QED BY <1>4, <3>1 DEF LinkAlive
  <2> QED BY <2>1, <2>2 DEF Range
<1>7. /\ frames' \in [Thread -> Seq(Frame)]
      /\ \A u \in Thread : u # t => frames'[u] = frames[u]
      /\ Len(frames'[t]) = n + 1
      /\ \A c \in Call(t) : frames'[t][c] = frames[t][c]
      /\ frames'[t][n + 1] = NewFrame(s, n + 1, timed)
  <2> DEFINE d == n + 1
  <2>1. d \in Depth /\ PushFrame(t, s, d, timed)
    BY <1>3, <1>5
  <2> HIDE DEF d
  <2>2. /\ frames' \in [Thread -> Seq(Frame)]
        /\ \A u \in Thread : u # t => frames'[u] = frames[u]
        /\ Len(frames'[t]) = n + 1
        /\ \A c \in Call(t) : frames'[t][c] = frames[t][c]
        /\ frames'[t][n + 1] = NewFrame(s, d, timed)
    BY <1>1, <2>1, PushFacts
  <2> QED BY <2>2 DEF d
<1>8. /\ link' \in [Link -> [sb : SB \cup {NoSB}, event : Event, ref : Nat]]
      /\ \A l \in Link : l # <<t, n + 1>> => link'[l] = link[l]
      /\ link'[<<t, n + 1>>] = [sb |-> s, event |-> e, ref |-> 1]
  BY <1>1, <1>2, <1>5 DEF TypeOK
<1>9. /\ chain' \in [Thread -> SUBSET Depth] /\ chain'[t] = chain[t] \cup {n + 1}
      /\ \A u \in Thread : u # t => chain'[u] = chain[u]
  BY <1>1, <1>3, <1>5 DEF TypeOK
<1>10. /\ queue' \in [SB -> Seq(Link)]
       /\ \A z \in SB : z # s => queue'[z] = queue[z]
       /\ Range(queue'[s]) = Range(queue[s]) \cup {<<t, n + 1>>}
  <2>1. queue[s] \in Seq(Link) /\ queue \in [SB -> Seq(Link)]
    BY <1>1 DEF TypeOK
  <2>2. /\ Append(queue[s], <<t, n + 1>>) \in Seq(Link)
        /\ Range(Append(queue[s], <<t, n + 1>>)) = Range(queue[s]) \cup {<<t, n + 1>>}
    BY <1>5, <2>1, AppendFacts
  <2>3. queue'[s] = Append(queue[s], <<t, n + 1>>)
    BY <1>3, <2>1
  <2> QED BY <1>3, <2>1, <2>2, <2>3
<1>11. /\ store' \subseteq created' /\ created' \subseteq Pool
       /\ e \in {OwnEvent[t]} \cup (created' \ store')
       /\ \A u \in Thread, d \in Depth : InUse(u, d) =>
            /\ link[<<u, d>>].event # e
            /\ link[<<u, d>>].event \in {OwnEvent[u]} \cup (created' \ store')
  BY <1>1, <1>2, NewEvent
<1>12. TypeOK'
  <2>1. /\ signalled' \subseteq Event /\ store' \subseteq Pool /\ created' \subseteq Pool
    BY <1>1, <1>2, <1>11 DEF TypeOK
  <2> QED BY <1>1, <1>3, <1>7, <1>8, <1>9, <1>10, <2>1 DEF TypeOK, bounds
<1>13. StackFits'
  <2> DEFINE d == n + 1
  <2>1. d \in Depth /\ PushFrame(t, s, d, timed) /\ d <= Len(frames[t]) + 1
    BY <1>3, <1>4, <1>5
  <2> HIDE DEF d
  <2> QED BY <1>1, <1>3, <2>1, PushFits
<1>14. OwnersEnter' /\ PulseFits'
  BY <1>1, <1>3 DEF OwnersEnter, PulseFits
<1>15. \A f \in Depth : /\ f = n + 1 => Users(t, f)' = Users(t, f) \cup {n + 1}
                        /\ f # n + 1 => Users(t, f)' = Users(t, f)
  BY <1>4, <1>7, PushUsers
<1>16. ASSUME NEW f \in Depth
       PROVE  LinkCounted(t, f)'
  <2>1. LinkCounted(t, f) /\ <<t, f>> \in Link /\ f \in Nat /\ Len(frames'[t]) \in Nat
    BY <1>1, <1>4, <1>7 DEF LinksCounted, Link, Depth
  <2>2. CASE f = n + 1
    <3>1. Users(t, f) = {}
      BY <1>1, <1>4, <2>2 DEF Users, Call, StackFits, CallFits
    <3>2. Users(t, f)' = {f}
      BY <1>15, <2>2, <3>1
    <3>3. Cardinality(Users(t, f)') = 1
      BY <3>2, FS_Singleton, Zenon
    <3>4. /\ link'[<<t, f>>].ref = 1 /\ f \in chain'[t]
          /\ \A c \in {f} : frames'[t][c].sb = link'[<<t, f>>].sb
      BY <1>7, <1>8, <1>9, <2>2 DEF NewFrame
    <3> QED BY <1>7, <2>1, <2>2, <3>2, <3>3, <3>4, CountedNext
  <2>3. CASE f <= n
    <3>1. f # n + 1 /\ f <= Len(frames'[t])
      BY <1>4, <1>7, <2>1, <2>3
    <3>2. /\ Users(t, f)' = Users(t, f) /\ link'[<<t, f>>] = link[<<t, f>>]
          /\ f \in chain'[t] <=> f \in chain[t]
      BY <1>8, <1>9, <1>15, <2>1, <3>1
    <3>3. Cardinality(Users(t, f)') = Cardinality(Users(t, f))
      BY <3>2, Zenon
    <3>4. \A c \in Users(t, f) : frames'[t][c] = frames[t][c]
      BY <1>7 DEF Users
    <3>5. /\ link'[<<t, f>>].ref = Cardinality(Users(t, f)')
          /\ f \in chain'[t] <=> f \in Users(t, f)'
          /\ Users(t, f)' # {} => f \in Users(t, f)'
          /\ \A c \in Users(t, f)' : frames'[t][c].sb = link'[<<t, f>>].sb
      BY <2>1, <2>3, <3>2, <3>3, <3>4 DEF LinkCounted
    <3> QED BY <2>1, <3>1, <3>5, CountedNext
  <2>4. CASE f > n + 1
    <3>1. f > Len(frames'[t]) /\ f > n /\ f # n + 1
      BY <1>4, <1>7, <2>1, <2>4
    <3>2. link'[<<t, f>>] = DeadLink(t)
      BY <1>8, <2>1, <3>1 DEF LinkCounted
    <3> QED BY <2>1, <3>1, <3>2, DeadNext
  <2> QED BY <1>4, <2>1, <2>2, <2>3, <2>4
<1>17. ASSUME NEW u \in Thread, NEW f \in Depth
       PROVE  LinkCounted(u, f)'
  <2>1. CASE u # t
    <3>1. SameUse(u) /\ chain'[u] = chain[u] /\ link'[<<u, f>>] = link[<<u, f>>] /\ LinkCounted(u, f)
      BY <1>1, <1>7, <1>8, <1>9, <2>1 DEF SameUse, LinksCounted, Link
    <3> QED BY <3>1, CountedMove
  <2> QED BY <1>16, <2>1
<1>18. LinksCounted'
  BY <1>17 DEF LinksCounted, Depth
<1>19. ASSUME NEW u \in Thread, NEW f \in Depth, InUse(u, f)', ~(u = t /\ f = n + 1)
       PROVE  InUse(u, f) /\ link'[<<u, f>>] = link[<<u, f>>]
  <2>1. <<u, f>> \in Link /\ <<u, f>> # <<t, n + 1>>
    BY <1>19 DEF Link
  <2> QED BY <1>4, <1>7, <1>8, <1>9, <1>19, <2>1 DEF InUse, Depth
<1>20. OneLinkEach'
  <2>1. ASSUME NEW u \in Thread, NEW f \in Depth, NEW g \in Depth, InUse(u, f)', InUse(u, g)',
               link'[<<u, f>>].sb = link'[<<u, g>>].sb
        PROVE  f = g
    <3>1. \A h \in Depth : InUse(t, h) => link[<<t, h>>].sb # s
      BY <1>3 DEF AlreadyWaits, InUse
    <3>2. CASE u # t \/ (f # n + 1 /\ g # n + 1)
      BY <1>1, <1>19, <2>1, <3>2 DEF OneLinkEach
    <3>3. CASE u = t /\ f = n + 1 /\ g # n + 1
      BY <1>8, <1>19, <2>1, <3>1, <3>3
    <3>4. CASE u = t /\ g = n + 1 /\ f # n + 1
      BY <1>8, <1>19, <2>1, <3>1, <3>4
    <3> QED BY <3>2, <3>3, <3>4
  <2>2. ASSUME NEW z \in SB, NEW u \in Thread, NEW f \in Depth,
               <<u, f>> \in Range(queue'[z]), InUse(u, f)'
        PROVE  link'[<<u, f>>].sb = z
    <3>1. CASE u = t /\ f = n + 1
      <4>1. z = s
        BY <1>6, <1>10, <2>2, <3>1
      <4> QED BY <1>8, <3>1, <4>1
    <3>2. CASE ~(u = t /\ f = n + 1)
      <4>1. <<u, f>> \in Range(queue[z])
        BY <1>10, <2>2, <3>2
      <4> QED BY <1>1, <1>19, <2>2, <3>2, <4>1 DEF OneLinkEach
    <3> QED BY <3>1, <3>2
  <2> QED BY <2>1, <2>2 DEF OneLinkEach, Depth
<1>21. OneEventEach'
  <2>1. ASSUME NEW u \in Thread, NEW f \in Depth, InUse(u, f)'
        PROVE  /\ link'[<<u, f>>].event \in {OwnEvent[u]} \cup (created' \ store')
               /\ \/ u = t /\ f = n + 1 /\ link'[<<u, f>>].event = e
                  \/ InUse(u, f) /\ link'[<<u, f>>].event = link[<<u, f>>].event
                     /\ link'[<<u, f>>].event # e
    <3>1. CASE u = t /\ f = n + 1
      BY <1>8, <1>11, <3>1
    <3>2. CASE ~(u = t /\ f = n + 1)
      <4>1. InUse(u, f) /\ link'[<<u, f>>] = link[<<u, f>>]
        BY <1>19, <2>1, <3>2
      <4> QED BY <1>11, <4>1
    <3> QED BY <3>1, <3>2
  <2>2. ASSUME NEW u \in Thread, NEW f \in Depth, InUse(u, f)',
               NEW v \in Thread, NEW g \in Depth, InUse(v, g)',
               link'[<<v, g>>].event = link'[<<u, f>>].event
        PROVE  u = v /\ f = g
    <3>1. CASE link'[<<u, f>>].event = e
      BY <2>1, <2>2, <3>1
    <3>2. CASE link'[<<u, f>>].event # e
      <4>1. /\ InUse(u, f) /\ InUse(v, g)
            /\ link[<<v, g>>].event = link[<<u, f>>].event
        BY <2>1, <2>2, <3>2
      <4>2. \A w \in Thread, h \in Depth :
              InUse(w, h) /\ link[<<w, h>>].event = link[<<u, f>>].event => u = w /\ f = h
        BY <1>1, <4>1 DEF OneEventEach
      <4> QED BY <4>1, <4>2
    <3> QED BY <3>1, <3>2
  <2> QED BY <1>11, <2>1, <2>2 DEF OneEventEach, Depth
<1>22. ASSUME NEW u \in Thread, NEW f \in Depth, InUse(u, f), Heard(<<u, f>>)
       PROVE  Heard(<<u, f>>)'
  <2>1. <<u, f>> \in Link /\ <<u, f>> # <<t, n + 1>>
    BY <1>6, <1>22 DEF Link, InUse
  <2>2. link'[<<u, f>>] = link[<<u, f>>] /\ link[<<u, f>>].event # e
    BY <1>8, <1>11, <1>22, <2>1
  <2>3. IsQueued(<<u, f>>) => IsQueued(<<u, f>>)'
    BY <1>10 DEF IsQueued
  <2> QED BY <1>2, <1>3, <1>22, <2>2, <2>3 DEF Heard
<1>23. ASSUME NEW u \in Thread, NEW c \in 1..Len(frames'[u]),
              frames'[u][c].pc \in {"leave", "block"}, NEW k, k = frames'[u][c].link
       PROVE  Heard(<<u, k>>)'
  <2>1. CASE u = t /\ c = n + 1
    <3>1. k = n + 1
      BY <1>7, <1>23, <2>1 DEF NewFrame
    <3>2. <<u, k>> \in Range(queue'[s])
      BY <1>10, <2>1, <3>1
    <3> QED BY <3>2 DEF Heard, IsQueued
  <2>2. CASE ~(u = t /\ c = n + 1)
    <3>1. c \in Call(u) /\ frames'[u][c] = frames[u][c]
      BY <1>4, <1>7, <1>23, <2>2 DEF Call
    <3>2. Heard(<<u, k>>)
      BY <1>1, <1>23, <3>1, HeardAll
    <3>3. k \in Depth /\ InUse(u, k)
      BY <1>1, <1>23, <3>1, UserInUse
    <3> QED BY <1>22, <3>2, <3>3
  <2> QED BY <2>1, <2>2
<1>24. NoLostPulse'
  BY <1>23, HeardNext
<1> QED BY <1>12, <1>13, <1>14, <1>18, <1>20, <1>21, <1>24 DEF WaitInv

-----------------------------------------------------------------------------
(* A call restores its link.                                               *)

\* The link of a call whose event wait is over.  Its last user is the call whose stack
\* frame holds it.
LEMMA RestoreFacts ==
  ASSUME WaitInv, NEW t \in Thread, InWait(t, "signalled") \/ InWait(t, "unsignalled"),
         NEW d, d = Top(t).link, NEW n, n = Len(frames[t])
  PROVE  /\ frames[t] # <<>> /\ n \in Call(t) /\ n \in Nat \ {0} /\ n \in Depth
         /\ d \in Depth /\ d <= n /\ <<t, d>> \in Link /\ MyLink(t) = <<t, d>>
         /\ n \in Users(t, d) /\ d \in Users(t, d) /\ InUse(t, d)
         /\ Top(t).sb \in SB /\ link[<<t, d>>].sb = Top(t).sb /\ link[<<t, d>>].ref \in Nat \ {0}
         /\ link[<<t, d>>].ref = Cardinality(Users(t, d)) /\ IsFiniteSet(Users(t, d))
         /\ link[<<t, d>>].ref = 1 => d = n /\ Users(t, d) = {n}
         /\ link[<<t, d>>].ref # 1 => d # n
<1>1. TypeOK /\ StackFits /\ LinksCounted /\ frames[t] # <<>> /\ MaxNesting \in Nat
  BY MonitorWaitAssumption DEF WaitInv, InWait
<1>2. /\ n \in Call(t) /\ n \in Nat \ {0} /\ Top(t) = frames[t][n] /\ Top(t) \in Frame
      /\ frames[t][n].pc # "reenter"
  BY <1>1, TopFacts DEF InWait
<1>3. n \in Depth
  BY <1>1, <1>2 DEF StackFits, Depth
<1>4. /\ d \in Depth /\ <<t, d>> \in Link /\ d <= n
      /\ n \in Users(t, d) /\ d \in Users(t, d) /\ InUse(t, d)
      /\ Top(t).sb = link[<<t, d>>].sb
  BY <1>1, <1>2, UserInUse
<1>5. IsFiniteSet(Users(t, d))
  BY <1>1, UsersFinite
<1>6. link[<<t, d>>].ref = Cardinality(Users(t, d)) /\ link[<<t, d>>].ref \in Nat
  BY <1>1, <1>4 DEF LinksCounted, LinkCounted, TypeOK
<1>7. link[<<t, d>>].ref # 0
  BY <1>4, <1>5, <1>6, FS_EmptySet
<1>8. ASSUME link[<<t, d>>].ref = 1
      PROVE  d = n /\ Users(t, d) = {n}
  <2>1. PICK x : Users(t, d) = {x}
    BY <1>5, <1>6, <1>8, FS_Singleton
  <2> QED BY <1>4, <2>1
<1>9. ASSUME d = n
      PROVE  link[<<t, d>>].ref = 1
  <2>1. ASSUME NEW c \in Users(t, d)
        PROVE  c = n
    <3>1. c \in Call(t) /\ frames[t][c].link = n
      BY <1>9, <2>1 DEF Users
    <3>2. n <= c /\ c \in 1..n
      BY <1>1, <3>1 DEF StackFits, CallFits, Call
    <3> QED BY <1>2, <3>2
  <2>2. Users(t, d) = {n}
    BY <1>4, <2>1
  <2>3. Cardinality(Users(t, d)) = 1
    BY <2>2, FS_Singleton, Zenon
  <2> QED BY <1>6, <2>3
<1>10. MyLink(t) = <<t, d>> /\ Top(t).sb \in SB
  BY <1>2 DEF MyLink, Frame
<1> QED BY <1>1, <1>2, <1>3, <1>4, <1>5, <1>6, <1>7, <1>8, <1>9, <1>10

\* RemoveThread takes no other link of a call that still waits.
LEMMA QueueLosesOne ==
  ASSUME WaitInv, NEW t \in Thread, NEW d \in Depth, InUse(t, d),
         NEW s \in SB, link[<<t, d>>].sb = s,
         queue'[s] \in {queue[s], RemoveThread(t, queue[s])},
         \A z \in SB : z # s => queue'[z] = queue[z]
  PROVE  /\ queue'[s] \in Seq(Link)
         /\ \A z \in SB : Range(queue'[z]) \subseteq Range(queue[z])
         /\ \A u \in Thread, k \in Depth :
              InUse(u, k) /\ ~(u = t /\ k = d) /\ IsQueued(<<u, k>>) => IsQueued(<<u, k>>)'
<1>1. queue[s] \in Seq(Link) /\ OneLinkEach
  BY DEF WaitInv, TypeOK
<1>2. /\ queue'[s] \in Seq(Link) /\ Range(queue'[s]) \subseteq Range(queue[s])
      /\ \A l \in Range(queue[s]) : l[1] # t => l \in Range(queue'[s])
      /\ \A l, m \in Range(queue[s]) :
           l \notin Range(queue'[s]) /\ m \notin Range(queue'[s]) => l = m
  BY <1>1, RemoveThreadFacts
<1>3. ASSUME NEW u \in Thread, NEW k \in Depth, InUse(u, k), ~(u = t /\ k = d), IsQueued(<<u, k>>)
      PROVE  IsQueued(<<u, k>>)'
  <2>1. PICK z \in SB : <<u, k>> \in Range(queue[z])
    BY <1>3 DEF IsQueued
  <2>2. CASE z # s
    BY <2>1, <2>2 DEF IsQueued
  <2>3. CASE z = s /\ u # t
    BY <1>2, <2>1, <2>3 DEF IsQueued
  <2>4. CASE z = s /\ u = t
    <3>1. link[<<u, k>>].sb = s
      BY <1>1, <1>3, <2>1, <2>4 DEF OneLinkEach
    <3>2. k = d
      BY <1>1, <1>3, <2>4, <3>1 DEF OneLinkEach
    <3> QED BY <1>3, <2>4, <3>2
  <2> QED BY <2>2, <2>3, <2>4
<1> QED BY <1>2, <1>3

LEMMA RestoreStep ==
  ASSUME WaitInv, NEW t \in Thread, Restore(t)
  PROVE  WaitInv'
<1>1. /\ TypeOK /\ OwnersEnter /\ StackFits
      /\ LinksCounted /\ OneLinkEach /\ OneEventEach /\ PulseFits /\ NoLostPulse
  BY DEF WaitInv
<1>2. PICK d, n, s : d = Top(t).link /\ n = Len(frames[t]) /\ s = link[<<t, d>>].sb
  OBVIOUS
<1>3. InWait(t, "signalled") \/ InWait(t, "unsignalled")
  BY DEF Restore, AtWait
<1>4. /\ frames[t] # <<>> /\ n \in Call(t) /\ n \in Nat \ {0} /\ n \in Depth
      /\ d \in Depth /\ d <= n /\ <<t, d>> \in Link /\ MyLink(t) = <<t, d>>
      /\ n \in Users(t, d) /\ d \in Users(t, d) /\ InUse(t, d)
      /\ s \in SB /\ link[<<t, d>>].ref \in Nat \ {0}
      /\ link[<<t, d>>].ref = Cardinality(Users(t, d)) /\ IsFiniteSet(Users(t, d))
      /\ link[<<t, d>>].ref = 1 => d = n /\ Users(t, d) = {n}
      /\ link[<<t, d>>].ref # 1 => d # n
  BY <1>2, <1>3, RestoreFacts
<1>5. /\ link' = [link EXCEPT ![<<t, d>>].ref = @ - 1]
      /\ \/ /\ link[<<t, d>>].ref = 1
            /\ queue' = [queue EXCEPT ![s] =
                           IF Top(t).pc = "signalled" THEN @ ELSE RemoveThread(t, @)]
            /\ store' = IF link[<<t, d>>].event = OwnEvent[t] THEN store
                        ELSE store \cup {link[<<t, d>>].event}
            /\ chain' = [chain EXCEPT ![t] = @ \ {d}]
         \/ /\ link[<<t, d>>].ref # 1
            /\ UNCHANGED <<queue, store, chain>>
      /\ Goto(t, "reenter")
      /\ UNCHANGED <<monitors, pulse, signalled, created, bounds>>
  BY <1>2, <1>4 DEF Restore
<1>6. /\ frames' \in [Thread -> Seq(Frame)]
      /\ \A u \in Thread : u # t => frames'[u] = frames[u]
      /\ Len(frames'[t]) = n
      /\ \A c \in Call(t) : c # n => frames'[t][c] = frames[t][c]
      /\ frames'[t][n] = [Top(t) EXCEPT !.pc = "reenter"]
  BY <1>1, <1>2, <1>4, <1>5, GotoFacts
<1>7. /\ frames'[t][n].sb = frames[t][n].sb /\ frames'[t][n].link = frames[t][n].link
      /\ frames'[t][n].count = frames[t][n].count /\ frames'[t][n].pc = "reenter"
      /\ frames[t][n].pc \in {"signalled", "unsignalled"} /\ frames[t][n].link = d
  BY <1>1, <1>2, <1>3, <1>4, <1>6, TopFacts DEF Frame, InWait
<1>8. /\ link' \in [Link -> [sb : SB \cup {NoSB}, event : Event, ref : Nat]]
      /\ \A l \in Link : /\ link'[l].sb = link[l].sb /\ link'[l].event = link[l].event
                         /\ l # <<t, d>> => link'[l] = link[l]
      /\ link'[<<t, d>>].ref = link[<<t, d>>].ref - 1
  <2>1. /\ link' = [link EXCEPT ![<<t, d>>] = [link[<<t, d>>] EXCEPT !.ref = link[<<t, d>>].ref - 1]]
        /\ link[<<t, d>>] \in [sb : SB \cup {NoSB}, event : Event, ref : Nat]
        /\ link \in [Link -> [sb : SB \cup {NoSB}, event : Event, ref : Nat]]
    BY <1>1, <1>4, <1>5 DEF TypeOK
  <2>2. [link[<<t, d>>] EXCEPT !.ref = link[<<t, d>>].ref - 1]
          \in [sb : SB \cup {NoSB}, event : Event, ref : Nat]
    <3>1. link[<<t, d>>].ref - 1 \in Nat
      BY <1>4
    <3> QED BY <2>1, <3>1
  <2>3. /\ link' \in [Link -> [sb : SB \cup {NoSB}, event : Event, ref : Nat]]
        /\ \A l \in Link : l # <<t, d>> => link'[l] = link[l]
        /\ link'[<<t, d>>] = [link[<<t, d>>] EXCEPT !.ref = link[<<t, d>>].ref - 1]
    BY <1>4, <2>1, <2>2
  <2>4. /\ link'[<<t, d>>].sb = link[<<t, d>>].sb /\ link'[<<t, d>>].event = link[<<t, d>>].event
        /\ link'[<<t, d>>].ref = link[<<t, d>>].ref - 1
    BY <2>1, <2>3
  <2> QED BY <2>3, <2>4
<1>9. /\ queue' \in [SB -> Seq(Link)]
      /\ \A z \in SB : Range(queue'[z]) \subseteq Range(queue[z])
      /\ \A u \in Thread, k \in Depth :
           InUse(u, k) /\ ~(u = t /\ k = d) /\ IsQueued(<<u, k>>) => IsQueued(<<u, k>>)'
      /\ link[<<t, d>>].ref # 1 => queue' = queue
  <2>1. /\ queue' = [z \in SB |-> queue'[z]] /\ queue \in [SB -> Seq(Link)]
        /\ queue'[s] \in {queue[s], RemoveThread(t, queue[s])}
        /\ \A z \in SB : z # s => queue'[z] = queue[z]
        /\ link[<<t, d>>].ref # 1 => queue' = queue
    BY <1>1, <1>4, <1>5 DEF TypeOK
  <2>2. /\ queue'[s] \in Seq(Link)
        /\ \A z \in SB : Range(queue'[z]) \subseteq Range(queue[z])
        /\ \A u \in Thread, k \in Depth :
             InUse(u, k) /\ ~(u = t /\ k = d) /\ IsQueued(<<u, k>>) => IsQueued(<<u, k>>)'
    <3>1. d \in Depth /\ InUse(t, d) /\ s \in SB /\ link[<<t, d>>].sb = s
      BY <1>2, <1>4
    <3> QED BY <2>1, <3>1, QueueLosesOne
  <2>3. \A z \in SB : queue'[z] \in Seq(Link)
    BY <2>1, <2>2
  <2> QED BY <2>1, <2>2, <2>3
<1>10. /\ chain' \in [Thread -> SUBSET Depth]
       /\ \A u \in Thread : u # t => chain'[u] = chain[u]
       /\ \A f \in Depth : f # d => (f \in chain'[t] <=> f \in chain[t])
       /\ link[<<t, d>>].ref = 1 => d \notin chain'[t]
       /\ link[<<t, d>>].ref # 1 => chain' = chain
  BY <1>1, <1>5 DEF TypeOK
<1>11. /\ store' \subseteq created /\ created' = created /\ created \subseteq Pool
       /\ link[<<t, d>>].ref # 1 => store' = store
       /\ store' \subseteq store \cup ({link[<<t, d>>].event} \ {OwnEvent[t]})
  <2>1. store \subseteq created /\ link[<<t, d>>].event \in {OwnEvent[t]} \cup (created \ store)
    BY <1>1, <1>4 DEF OneEventEach
  <2> QED BY <1>1, <1>5, <2>1 DEF TypeOK
<1>12. TypeOK'
  <2>1. /\ owner' = owner /\ entries' = entries /\ interrupts' = interrupts
        /\ aborts' = aborts /\ storeFailures' = storeFailures /\ pulse' = pulse
        /\ signalled' = signalled /\ store' \subseteq Pool /\ created' \subseteq Pool
    BY <1>5, <1>11 DEF monitors, bounds
  <2> QED BY <1>1, <1>6, <1>8, <1>9, <1>10, <2>1 DEF TypeOK
<1>13. ASSUME NEW u \in Thread, NEW c \in Call(u)
       PROVE  CallFits(u, c)'
  <2>1. CallFits(u, c) /\ owner' = owner
    BY <1>1, <1>5 DEF StackFits, monitors
  <2>2. CASE u = t /\ c = n
    <3>1. frames[t][n].link <= n /\ frames[t][n].count > 0
      BY <1>7, <2>1, <2>2 DEF CallFits
    <3>2. /\ Len(frames'[u]) = c /\ c \in Nat /\ frames'[u][c].pc = "reenter"
          /\ frames'[u][c].link <= c /\ frames'[u][c].count > 0
      BY <1>4, <1>6, <1>7, <2>2, <3>1
    <3> QED BY <3>2 DEF CallFits
  <2>3. CASE ~(u = t /\ c = n)
    BY <1>2, <1>6, <2>1, <2>3 DEF CallFits
  <2> QED BY <2>2, <2>3
<1>14. StackFits' /\ OwnersEnter' /\ PulseFits'
  BY <1>1, <1>2, <1>5, <1>6, <1>13 DEF StackFits, OwnersEnter, PulseFits, Call, monitors
<1>15. ASSUME NEW f \in Depth
       PROVE  /\ f = d => Users(t, f)' = Users(t, f) \ {n}
              /\ f # d => Users(t, f)' = Users(t, f)
  <2>1. \A c : c \in Users(t, f)' <=> c \in 1..n /\ frames'[t][c].link = f
                                     /\ frames'[t][c].pc # "reenter"
    BY <1>6 DEF Users, Call
  <2>2. \A c : c \in Users(t, f) <=> c \in 1..n /\ frames[t][c].link = f
                                    /\ frames[t][c].pc # "reenter"
    BY <1>2 DEF Users, Call
  <2>3. \A c \in 1..n : c # n => frames'[t][c] = frames[t][c]
    BY <1>2, <1>6 DEF Call
  <2>4. \A c : c \in Users(t, f)' <=> c \in Users(t, f) /\ c # n
    BY <1>7, <2>1, <2>2, <2>3
  <2>5. f # d => n \notin Users(t, f)
    BY <1>7, <2>2
  <2> QED BY <2>4, <2>5
<1>16. ASSUME NEW f \in Depth
       PROVE  LinkCounted(t, f)'
  <2>1. /\ LinkCounted(t, f) /\ <<t, f>> \in Link /\ f \in Nat /\ Len(frames'[t]) \in Nat
        /\ Len(frames'[t]) = Len(frames[t])
    BY <1>1, <1>2, <1>4, <1>6 DEF LinksCounted, Link, Depth
  <2>2. CASE f = d
    <3>1. Users(t, f)' = Users(t, d) \ {n}
      BY <1>15, <2>2
    <3>2. Cardinality(Users(t, d) \ {n}) = Cardinality(Users(t, d)) - 1
      BY <1>4, FS_RemoveElement
    <3>3. Cardinality(Users(t, f)') = Cardinality(Users(t, d)) - 1
      BY <3>1, <3>2, Zenon
    <3>4. link'[<<t, f>>].ref = Cardinality(Users(t, f)') /\ f <= Len(frames'[t])
      BY <1>4, <1>6, <1>8, <2>2, <3>3
    <3>5. ASSUME NEW c \in Users(t, f)'
          PROVE  frames'[t][c].sb = link'[<<t, f>>].sb
      <4>1. c \in Call(t) /\ c # n /\ frames[t][c].sb = link[<<t, d>>].sb
        BY <1>2, <1>4, <2>1, <2>2, <3>1, <3>5 DEF LinkCounted, Users
      <4> QED BY <1>6, <1>8, <2>1, <2>2, <4>1
    <3>6. CASE link[<<t, d>>].ref = 1
      <4>1. Users(t, f)' = {} /\ f \notin chain'[t]
        BY <1>4, <1>10, <2>2, <3>1, <3>6
      <4> QED BY <2>1, <3>4, <3>5, <4>1, CountedNext
    <3>7. CASE link[<<t, d>>].ref # 1
      <4>1. f \in Users(t, f)' /\ f \in chain'[t]
        BY <1>4, <1>10, <2>2, <3>1, <3>7 DEF InUse
      <4> QED BY <2>1, <3>4, <3>5, <4>1, CountedNext
    <3> QED BY <3>6, <3>7
  <2>3. CASE f # d /\ f <= n
    <3>1. Users(t, f)' = Users(t, f) /\ link'[<<t, f>>] = link[<<t, f>>]
          /\ (f \in chain'[t] <=> f \in chain[t]) /\ f <= Len(frames'[t])
      BY <1>6, <1>8, <1>10, <1>15, <2>1, <2>3
    <3>2. Cardinality(Users(t, f)') = Cardinality(Users(t, f))
      BY <3>1, Zenon
    <3>3. \A c \in Users(t, f) : frames'[t][c].sb = frames[t][c].sb
      BY <1>6, <1>7 DEF Users
    <3>4. /\ link'[<<t, f>>].ref = Cardinality(Users(t, f)')
          /\ f \in chain'[t] <=> f \in Users(t, f)'
          /\ Users(t, f)' # {} => f \in Users(t, f)'
          /\ \A c \in Users(t, f)' : frames'[t][c].sb = link'[<<t, f>>].sb
      BY <1>2, <2>1, <2>3, <3>1, <3>2, <3>3 DEF LinkCounted
    <3> QED BY <2>1, <3>1, <3>4, CountedNext
  <2>4. CASE f > n
    <3>1. f > Len(frames'[t]) /\ f # d
      BY <1>4, <1>6, <2>1, <2>4 DEF Depth
    <3>2. link'[<<t, f>>] = DeadLink(t)
      BY <1>2, <1>8, <2>1, <2>4, <3>1 DEF LinkCounted
    <3> QED BY <2>1, <3>1, <3>2, DeadNext
  <2> QED BY <1>4, <2>1, <2>2, <2>3, <2>4
<1>17. ASSUME NEW u \in Thread, NEW f \in Depth
       PROVE  LinkCounted(u, f)'
  <2>1. CASE u # t
    <3>1. SameUse(u) /\ chain'[u] = chain[u] /\ link'[<<u, f>>] = link[<<u, f>>] /\ LinkCounted(u, f)
      BY <1>1, <1>6, <1>8, <1>10, <2>1 DEF SameUse, LinksCounted, Link
    <3> QED BY <3>1, CountedMove
  <2> QED BY <1>16, <2>1
<1>18. LinksCounted'
  BY <1>17 DEF LinksCounted, Depth
<1>19. ASSUME NEW u \in Thread, NEW f \in Depth, InUse(u, f)'
       PROVE  /\ InUse(u, f)
              /\ link'[<<u, f>>].sb = link[<<u, f>>].sb
              /\ link'[<<u, f>>].event = link[<<u, f>>].event
              /\ link[<<u, f>>].event \notin store'
  <2>1. InUse(u, f) /\ (link[<<t, d>>].ref = 1 => ~(u = t /\ f = d))
    BY <1>2, <1>6, <1>10, <1>19 DEF InUse
  <2>2. link[<<u, f>>].event \in {OwnEvent[u]} \cup (created \ store)
    BY <1>1, <2>1 DEF OneEventEach
  <2>3. link[<<u, f>>].event \notin store
    BY <1>1, <2>2, MonitorWaitAssumption DEF TypeOK
  <2>4. link[<<t, d>>].ref = 1 => link[<<u, f>>].event # link[<<t, d>>].event
    BY <1>1, <1>4, <2>1 DEF OneEventEach
  <2> QED BY <1>8, <1>11, <2>1, <2>3, <2>4 DEF Link
<1>20. OneLinkEach' /\ OneEventEach'
  BY <1>1, <1>9, <1>11, <1>19, UseMove
<1>21. ASSUME NEW u \in Thread, NEW c \in 1..Len(frames'[u]),
              frames'[u][c].pc \in {"leave", "block"}, NEW k, k = frames'[u][c].link
       PROVE  Heard(<<u, k>>)'
  <2>1. c \in Call(u) /\ frames'[u][c] = frames[u][c] /\ ~(u = t /\ c = n)
    BY <1>2, <1>6, <1>7, <1>21 DEF Call
  <2>2. Heard(<<u, k>>)
    BY <1>1, <1>21, <2>1, HeardAll
  <2>3. k \in Depth /\ InUse(u, k) /\ c \in Users(u, k) /\ <<u, k>> \in Link
    BY <1>1, <1>21, <2>1, UserInUse
  <2>4. IsQueued(<<u, k>>) => IsQueued(<<u, k>>)'
    <3>1. CASE link[<<t, d>>].ref = 1
      <4>1. ~(u = t /\ k = d)
        BY <1>4, <2>1, <2>3, <3>1
      <4> QED BY <1>9, <2>3, <4>1
    <3>2. CASE link[<<t, d>>].ref # 1
      BY <1>9, <3>2 DEF IsQueued
    <3> QED BY <3>1, <3>2
  <2> QED BY <1>5, <1>8, <2>2, <2>3, <2>4 DEF Heard
<1>22. NoLostPulse'
  BY <1>21, HeardNext
<1> QED BY <1>12, <1>14, <1>18, <1>20, <1>22 DEF WaitInv

-----------------------------------------------------------------------------
(* A call is left.                                                         *)

\* The links after it, if nobody uses another one from the frame that goes.
LEMMA PopMove ==
  ASSUME WaitInv, NEW t \in Thread, frames[t] # <<>>, NEW n, n = Len(frames[t]), Return(t),
         UNCHANGED <<chain, pulse, events>>,
         \A f \in Depth : f # n => n \notin Users(t, f),
         \A z \in SB : Range(queue'[z]) \subseteq Range(queue[z]),
         \A u \in Thread, k \in Depth :
           InUse(u, k) /\ ~(u = t /\ k = n) /\ IsQueued(<<u, k>>) => IsQueued(<<u, k>>)'
  PROVE  /\ frames' \in [Thread -> Seq(Frame)]
         /\ link' \in [Link -> [sb : SB \cup {NoSB}, event : Event, ref : Nat]]
         /\ LinksCounted' /\ OneLinkEach' /\ OneEventEach' /\ PulseFits' /\ NoLostPulse'
<1>1. /\ TypeOK /\ StackFits /\ LinksCounted /\ OneLinkEach /\ OneEventEach /\ PulseFits
      /\ NoLostPulse /\ MaxNesting \in Nat
  BY MonitorWaitAssumption DEF WaitInv
<1>2. n \in Nat \ {0} /\ n \in Call(t) /\ n \in Depth
  <2>1. n \in Nat \ {0} /\ n \in Call(t) /\ n <= MaxNesting
    BY <1>1, TopFacts DEF StackFits
  <2> QED BY <1>1, <2>1 DEF Depth
<1>3. /\ frames' \in [Thread -> Seq(Frame)]
      /\ \A u \in Thread : u # t => frames'[u] = frames[u]
      /\ Len(frames'[t]) = n - 1
      /\ \A c \in Call(t) : c # n => frames'[t][c] = frames[t][c]
      /\ link' \in [Link -> [sb : SB \cup {NoSB}, event : Event, ref : Nat]]
      /\ link'[<<t, n>>] = DeadLink(t)
      /\ \A l \in Link : l # <<t, n>> => link'[l] = link[l]
  BY <1>1, <1>2, PopFacts
<1>4. ASSUME NEW f \in Depth, f # n
      PROVE  Users(t, f)' = Users(t, f)
  <2>1. \A c : c \in Users(t, f)' <=> c \in 1..(n - 1) /\ frames'[t][c].link = f
                                     /\ frames'[t][c].pc # "reenter"
    BY <1>3 DEF Users, Call
  <2>2. \A c : c \in Users(t, f) <=> c \in 1..n /\ frames[t][c].link = f
                                    /\ frames[t][c].pc # "reenter"
    BY DEF Users, Call
  <2>3. \A c \in 1..(n - 1) : c \in 1..n /\ c # n /\ frames'[t][c] = frames[t][c]
    BY <1>2, <1>3 DEF Call
  <2>4. \A c \in 1..n : c = n \/ c \in 1..(n - 1)
    BY <1>2
  <2>5. n \notin Users(t, f)
    BY <1>4
  <2>6. \A c : c \in Users(t, f)' <=> c \in Users(t, f)
    BY <2>1, <2>2, <2>3, <2>4, <2>5
  <2> QED BY <2>6
<1>5. ASSUME NEW f \in Depth
      PROVE  LinkCounted(t, f)'
  <2>1. LinkCounted(t, f) /\ <<t, f>> \in Link /\ f \in Nat /\ Len(frames'[t]) \in Nat
    BY <1>1, <1>2, <1>3 DEF LinksCounted, Link, Depth
  <2>2. CASE f < n
    <3>1. /\ Users(t, f)' = Users(t, f) /\ link'[<<t, f>>] = link[<<t, f>>]
          /\ chain'[t] = chain[t] /\ f <= Len(frames'[t]) /\ f <= Len(frames[t])
      BY <1>2, <1>3, <1>4, <2>1, <2>2
    <3>2. Cardinality(Users(t, f)') = Cardinality(Users(t, f))
      BY <3>1, Zenon
    <3>3. \A c \in Users(t, f) : frames'[t][c] = frames[t][c]
      BY <1>3, <2>1, <2>2 DEF Users
    <3>4. /\ link'[<<t, f>>].ref = Cardinality(Users(t, f)')
          /\ f \in chain'[t] <=> f \in Users(t, f)'
          /\ Users(t, f)' # {} => f \in Users(t, f)'
          /\ \A c \in Users(t, f)' : frames'[t][c].sb = link'[<<t, f>>].sb
      BY <2>1, <3>1, <3>2, <3>3 DEF LinkCounted
    <3> QED BY <2>1, <3>1, <3>4, CountedNext
  <2>3. CASE f >= n
    <3>1. f > Len(frames'[t])
      BY <1>2, <1>3, <2>1, <2>3
    <3>2. link'[<<t, f>>] = DeadLink(t)
      <4>1. CASE f = n
        BY <1>3, <4>1
      <4>2. CASE f > n
        BY <1>2, <1>3, <2>1, <4>2 DEF LinkCounted
      <4> QED BY <1>2, <2>1, <2>3, <4>1, <4>2
    <3> QED BY <2>1, <3>1, <3>2, DeadNext
  <2> QED BY <1>2, <2>1, <2>2, <2>3
<1>6. ASSUME NEW u \in Thread, NEW f \in Depth
      PROVE  LinkCounted(u, f)'
  <2>1. CASE u # t
    <3>1. SameUse(u) /\ chain'[u] = chain[u] /\ link'[<<u, f>>] = link[<<u, f>>] /\ LinkCounted(u, f)
      BY <1>1, <1>3, <2>1 DEF SameUse, LinksCounted, Link
    <3> QED BY <3>1, CountedMove
  <2> QED BY <1>5, <2>1
<1>7. LinksCounted'
  BY <1>6 DEF LinksCounted, Depth
<1>8. ASSUME NEW u \in Thread, NEW f \in Depth, InUse(u, f)'
      PROVE  /\ InUse(u, f)
             /\ link'[<<u, f>>].sb = link[<<u, f>>].sb
             /\ link'[<<u, f>>].event = link[<<u, f>>].event
             /\ link[<<u, f>>].event \notin store'
  <2>1. InUse(u, f) /\ ~(u = t /\ f = n)
    BY <1>2, <1>3, <1>8 DEF InUse, Depth
  <2>2. link[<<u, f>>].event \in {OwnEvent[u]} \cup (created \ store)
    BY <1>1, <2>1 DEF OneEventEach
  <2>3. link[<<u, f>>].event \notin store
    BY <1>1, <2>2, MonitorWaitAssumption DEF TypeOK
  <2> QED BY <1>3, <2>1, <2>3 DEF Link, events
<1>9. OneLinkEach' /\ OneEventEach'
  <2>1. store' \subseteq created /\ created' = created
    BY <1>1 DEF OneEventEach, events
  <2> QED BY <1>1, <1>8, <2>1, UseMove
<1>10. ASSUME NEW u \in Thread, NEW c \in 1..Len(frames'[u]),
              frames'[u][c].pc \in {"leave", "block"}, NEW k, k = frames'[u][c].link
       PROVE  Heard(<<u, k>>)'
  <2>1. c \in Call(u) /\ frames'[u][c] = frames[u][c] /\ ~(u = t /\ c >= n)
    BY <1>2, <1>3, <1>10 DEF Call
  <2>2. Heard(<<u, k>>)
    BY <1>1, <1>10, <2>1, HeardAll
  <2>3. k \in Depth /\ InUse(u, k) /\ k <= c /\ <<u, k>> \in Link
    BY <1>1, <1>10, <2>1, UserInUse
  <2>4. ~(u = t /\ k = n)
    BY <1>2, <2>1, <2>3
  <2>5. IsQueued(<<u, k>>) => IsQueued(<<u, k>>)'
    BY <2>3, <2>4
  <2>6. link'[<<u, k>>] = link[<<u, k>>]
    BY <1>3, <2>3, <2>4
  <2> QED BY <2>2, <2>5, <2>6 DEF Heard, events
<1>11. NoLostPulse'
  BY <1>10, HeardNext
<1>12. PulseFits'
  BY <1>1 DEF PulseFits
<1> QED BY <1>3, <1>7, <1>9, <1>11, <1>12

\* The stack after it.
LEMMA PopFits ==
  ASSUME WaitInv, NEW t \in Thread, frames[t] # <<>>, Return(t),
         \A u \in Thread : \A c \in Call(u) :
           frames[u][c].pc = "leave" /\ ~(u = t /\ c = Len(frames[t])) =>
             owner'[frames[u][c].sb] = u
  PROVE  StackFits'
<1>1. TypeOK /\ StackFits /\ MaxNesting \in Nat
  BY MonitorWaitAssumption DEF WaitInv
<1>2. PICK n : n = Len(frames[t])
  OBVIOUS
<1>3. n \in Nat \ {0} /\ n \in Depth
  <2>1. n \in Nat \ {0} /\ n <= MaxNesting
    BY <1>1, <1>2, TopFacts DEF StackFits
  <2> QED BY <1>1, <2>1 DEF Depth
<1>4. /\ \A u \in Thread : u # t => frames'[u] = frames[u]
      /\ Len(frames'[t]) = n - 1
      /\ \A c \in Call(t) : c # n => frames'[t][c] = frames[t][c]
  BY <1>1, <1>2, <1>3, PopFacts
<1>5. ASSUME NEW u \in Thread, NEW c \in 1..Len(frames'[u])
      PROVE  CallFits(u, c)'
  <2>1. /\ c \in Call(u) /\ frames'[u][c] = frames[u][c] /\ ~(u = t /\ c = n)
        /\ c < Len(frames'[u]) => c < Len(frames[u])
    <3>1. CASE u = t
      <4>1. c \in 1..n /\ c # n /\ c < n
        BY <1>3, <1>4, <1>5, <3>1
      <4> QED BY <1>2, <1>4, <3>1, <4>1 DEF Call
    <3>2. CASE u # t
      BY <1>4, <1>5, <3>2 DEF Call
    <3> QED BY <3>1, <3>2
  <2>2. CallFits(u, c)
    BY <1>1, <2>1 DEF StackFits
  <2> QED BY <1>2, <2>1, <2>2 DEF CallFits
<1>6. \A u \in Thread : Len(frames'[u]) <= MaxNesting
  BY <1>1, <1>2, <1>3, <1>4 DEF StackFits
<1> QED BY <1>5, <1>6 DEF StackFits, Call

\* The innermost call wants its monitor back: it uses no link.
LEMMA ReenterFacts ==
  ASSUME WaitInv, NEW t \in Thread, AtWait(t, "reenter"), NEW n, n = Len(frames[t])
  PROVE  /\ frames[t] # <<>> /\ n \in Call(t) /\ Top(t) = frames[t][n] /\ Top(t) \in Frame
         /\ Top(t).pc = "reenter" /\ Top(t).count \in Nat \ {0} /\ Top(t).sb \in SB
         /\ \A f \in Depth : f # n => n \notin Users(t, f)
<1>1. TypeOK /\ StackFits /\ frames[t] # <<>> /\ Top(t).pc = "reenter"
  BY DEF WaitInv, AtWait, InWait
<1>2. n \in Call(t) /\ Top(t) = frames[t][n] /\ Top(t) \in Frame
  BY <1>1, TopFacts
<1>3. CallFits(t, n)
  BY <1>1, <1>2 DEF StackFits
<1> QED BY <1>1, <1>2, <1>3 DEF CallFits, Users, Frame

LEMMA ReenterStep ==
  ASSUME WaitInv, NEW t \in Thread, Reenter(t)
  PROVE  WaitInv'
<1>1. TypeOK /\ OwnersEnter /\ StackFits /\ NoThread \notin Thread
  BY MonitorWaitAssumption DEF WaitInv
<1>2. PICK n, s : n = Len(frames[t]) /\ s = Top(t).sb
  OBVIOUS
<1>3. /\ AtWait(t, "reenter") /\ owner[s] \in {NoThread, t} /\ Return(t)
      /\ owner' = [owner EXCEPT ![s] = t] /\ entries' = [entries EXCEPT ![s] = @ + Top(t).count]
      /\ UNCHANGED <<queue, chain, pulse, events, bounds>>
  BY <1>2 DEF Reenter, Enterable
<1>4. /\ frames[t] # <<>> /\ n \in Call(t) /\ Top(t) = frames[t][n] /\ Top(t) \in Frame
      /\ Top(t).count \in Nat \ {0} /\ s \in SB
      /\ \A f \in Depth : f # n => n \notin Users(t, f)
  BY <1>2, <1>3, ReenterFacts
<1>5. /\ frames' \in [Thread -> Seq(Frame)]
      /\ link' \in [Link -> [sb : SB \cup {NoSB}, event : Event, ref : Nat]]
      /\ LinksCounted' /\ OneLinkEach' /\ OneEventEach' /\ PulseFits' /\ NoLostPulse'
  <2>1. /\ \A z \in SB : Range(queue'[z]) \subseteq Range(queue[z])
        /\ \A u \in Thread, k \in Depth :
             InUse(u, k) /\ ~(u = t /\ k = n) /\ IsQueued(<<u, k>>) => IsQueued(<<u, k>>)'
    BY <1>3 DEF IsQueued
  <2> QED BY <1>2, <1>3, <1>4, <2>1, PopMove
<1>6. entries[s] \in Nat /\ entries' \in [SB -> Nat] /\ owner' \in [SB -> Thread \cup {NoThread}]
  BY <1>1, <1>3, <1>4 DEF TypeOK
<1>7. TypeOK'
  BY <1>1, <1>3, <1>5, <1>6 DEF TypeOK, events, bounds
<1>8. OwnersEnter'
  BY <1>1, <1>3, <1>4, <1>6 DEF OwnersEnter, TypeOK
<1>9. ASSUME NEW u \in Thread, NEW c \in Call(u), frames[u][c].pc = "leave"
      PROVE  owner'[frames[u][c].sb] = u
  <2>1. owner[frames[u][c].sb] = u /\ frames[u][c].sb \in SB
    BY <1>1, <1>9, CallFacts DEF StackFits, CallFits, Frame
  <2> QED BY <1>1, <1>3, <2>1 DEF TypeOK
<1>10. StackFits'
  BY <1>3, <1>4, <1>9, PopFits
<1> QED BY <1>5, <1>7, <1>8, <1>10 DEF WaitInv

LEMMA RudeAbortStep ==
  ASSUME WaitInv, NEW t \in Thread, RudeAbort(t)
  PROVE  WaitInv'
<1>1. TypeOK /\ OwnersEnter /\ StackFits
  BY DEF WaitInv
<1>2. PICK n : n = Len(frames[t])
  OBVIOUS
<1>3. /\ AtWait(t, "reenter") /\ Return(t) /\ aborts' = aborts + 1
      /\ UNCHANGED <<monitors, queue, chain, pulse, events, interrupts, storeFailures>>
  BY DEF RudeAbort
<1>4. /\ frames[t] # <<>> /\ \A f \in Depth : f # n => n \notin Users(t, f)
  BY <1>2, <1>3, ReenterFacts
<1>5. /\ frames' \in [Thread -> Seq(Frame)]
      /\ link' \in [Link -> [sb : SB \cup {NoSB}, event : Event, ref : Nat]]
      /\ LinksCounted' /\ OneLinkEach' /\ OneEventEach' /\ PulseFits' /\ NoLostPulse'
  <2>1. /\ \A z \in SB : Range(queue'[z]) \subseteq Range(queue[z])
        /\ \A u \in Thread, k \in Depth :
             InUse(u, k) /\ ~(u = t /\ k = n) /\ IsQueued(<<u, k>>) => IsQueued(<<u, k>>)'
    BY <1>3 DEF IsQueued
  <2> QED BY <1>2, <1>3, <1>4, <2>1, PopMove
<1>6. TypeOK'
  BY <1>1, <1>3, <1>5 DEF TypeOK, events, monitors
<1>7. OwnersEnter'
  BY <1>1, <1>3 DEF OwnersEnter, monitors
<1>8. StackFits'
  <2>1. \A u \in Thread : \A c \in Call(u) :
          frames[u][c].pc = "leave" => owner'[frames[u][c].sb] = u
    BY <1>1, <1>3 DEF StackFits, CallFits, monitors
  <2> QED BY <1>3, <1>4, <2>1, PopFits
<1> QED BY <1>5, <1>6, <1>7, <1>8 DEF WaitInv

LEMMA RestoreOutOfMemoryStep ==
  ASSUME WaitInv, NEW t \in Thread, RestoreOutOfMemory(t)
  PROVE  WaitInv'
<1>1. TypeOK /\ OwnersEnter /\ StackFits
  BY DEF WaitInv
<1>2. PICK d, n, s : d = Top(t).link /\ n = Len(frames[t]) /\ s = link[<<t, d>>].sb
  OBVIOUS
<1>3. InWait(t, "signalled") \/ InWait(t, "unsignalled")
  BY DEF RestoreOutOfMemory, AtWait
<1>4. /\ frames[t] # <<>> /\ n \in Call(t) /\ n \in Nat \ {0} /\ n \in Depth
      /\ d \in Depth /\ <<t, d>> \in Link /\ MyLink(t) = <<t, d>>
      /\ InUse(t, d) /\ s \in SB
      /\ link[<<t, d>>].ref = 1 => d = n /\ Users(t, d) = {n}
  BY <1>2, <1>3, RestoreFacts
<1>5. /\ link[<<t, d>>].ref = 1 /\ storeFailures' = storeFailures + 1 /\ Return(t)
      /\ queue' = [queue EXCEPT ![s] =
                     IF Top(t).pc = "signalled" THEN @ ELSE RemoveThread(t, @)]
      /\ UNCHANGED <<monitors, chain, pulse, events, interrupts, aborts>>
  BY <1>2, <1>4 DEF RestoreOutOfMemory
<1>6. d = n /\ frames[t][n].link = n
  BY <1>1, <1>2, <1>4, <1>5, TopFacts
<1>7. /\ queue' \in [SB -> Seq(Link)]
      /\ \A z \in SB : Range(queue'[z]) \subseteq Range(queue[z])
      /\ \A u \in Thread, k \in Depth :
           InUse(u, k) /\ ~(u = t /\ k = n) /\ IsQueued(<<u, k>>) => IsQueued(<<u, k>>)'
  <2>1. /\ queue' = [z \in SB |-> queue'[z]] /\ queue \in [SB -> Seq(Link)]
        /\ queue'[s] \in {queue[s], RemoveThread(t, queue[s])}
        /\ \A z \in SB : z # s => queue'[z] = queue[z]
    BY <1>1, <1>4, <1>5 DEF TypeOK
  <2>2. /\ queue'[s] \in Seq(Link)
        /\ \A z \in SB : Range(queue'[z]) \subseteq Range(queue[z])
        /\ \A u \in Thread, k \in Depth :
             InUse(u, k) /\ ~(u = t /\ k = d) /\ IsQueued(<<u, k>>) => IsQueued(<<u, k>>)'
    <3>1. d \in Depth /\ InUse(t, d) /\ s \in SB /\ link[<<t, d>>].sb = s
      BY <1>2, <1>4
    <3> QED BY <2>1, <3>1, QueueLosesOne
  <2>3. \A z \in SB : queue'[z] \in Seq(Link)
    BY <2>1, <2>2
  <2> QED BY <1>6, <2>1, <2>2, <2>3
<1>8. \A f \in Depth : f # n => n \notin Users(t, f)
  BY <1>6 DEF Users
<1>9. /\ frames' \in [Thread -> Seq(Frame)]
      /\ link' \in [Link -> [sb : SB \cup {NoSB}, event : Event, ref : Nat]]
      /\ LinksCounted' /\ OneLinkEach' /\ OneEventEach' /\ PulseFits' /\ NoLostPulse'
  <2>1. /\ frames[t] # <<>> /\ n = Len(frames[t]) /\ Return(t)
        /\ UNCHANGED <<chain, pulse, events>>
    BY <1>2, <1>4, <1>5
  <2> QED BY <1>7, <1>8, <2>1, PopMove
<1>10. TypeOK'
  BY <1>1, <1>5, <1>7, <1>9 DEF TypeOK, events, monitors
<1>11. OwnersEnter'
  BY <1>1, <1>5 DEF OwnersEnter, monitors
<1>12. StackFits'
  <2>1. \A u \in Thread : \A c \in Call(u) :
          frames[u][c].pc = "leave" => owner'[frames[u][c].sb] = u
    BY <1>1, <1>5 DEF StackFits, CallFits, monitors
  <2> QED BY <1>4, <1>5, <2>1, PopFits
<1> QED BY <1>9, <1>10, <1>11, <1>12 DEF WaitInv

-----------------------------------------------------------------------------
(* For any depth of nested waits.                                          *)

LEMMA WaitInvInit == Init => WaitInv
<1> SUFFICES ASSUME Init PROVE WaitInv
  OBVIOUS
<1>1. \A t \in Thread : frames[t] = <<>> /\ Len(frames[t]) = 0 /\ Call(t) = {}
  BY DEF Init, Call
<1>2. TypeOK
  <2>1. \A t \in Thread : DeadLink(t) \in [sb : SB \cup {NoSB}, event : Event, ref : Nat]
    BY DEF DeadLink, Event
  <2>2. link \in [Link -> [sb : SB \cup {NoSB}, event : Event, ref : Nat]]
    BY <2>1 DEF Init, Link
  <2>3. NoPulse \in [at : {"none", "dequeue", "set"}, sb : SB \cup {NoSB},
                     all : BOOLEAN, link : Link \cup {NoLink}]
    BY DEF NoPulse
  <2> QED BY <2>2, <2>3 DEF Init, TypeOK
<1>3. OwnersEnter /\ PulseFits /\ NoLostPulse
  BY <1>1 DEF Init, OwnersEnter, PulseFits, NoLostPulse, NoPulse
<1>4. StackFits
  BY <1>1, MonitorWaitAssumption DEF StackFits
<1>5. \A t \in Thread, d \in Depth : ~InUse(t, d)
  BY DEF Init, InUse
<1>6. OneLinkEach /\ OneEventEach
  BY <1>5 DEF Init, OneLinkEach, OneEventEach
<1>7. ASSUME NEW t \in Thread, NEW d \in Depth
      PROVE  LinkCounted(t, d)
  <2>1. link[<<t, d>>] = DeadLink(t) /\ d > Len(frames[t])
    BY <1>1 DEF Init, Link, Depth
  <2> QED BY <1>1, <2>1 DEF LinkCounted, Depth
<1> QED BY <1>2, <1>3, <1>4, <1>6, <1>7 DEF WaitInv, LinksCounted

LEMMA WaitInvNext == WaitInv /\ [Next]_vars => WaitInv'
<1> SUFFICES ASSUME WaitInv, [Next]_vars PROVE WaitInv'
  OBVIOUS
<1>1. CASE UNCHANGED vars
  <2>1. /\ TypeOK /\ OwnersEnter /\ StackFits
        /\ LinksCounted /\ OneLinkEach /\ OneEventEach /\ PulseFits /\ NoLostPulse
    BY DEF WaitInv
  <2>2. UNCHANGED <<monitors, queue, link, chain, frames, pulse, events, bounds>>
    BY <1>1 DEF vars
  <2>3. TypeOK' /\ OwnersEnter' /\ StackFits' /\ PulseFits'
    BY <2>1, <2>2, StacksMove DEF TypeOK, OwnersEnter, PulseFits, monitors, events, bounds
  <2>4. LinksCounted' /\ OneLinkEach' /\ OneEventEach'
    BY <2>1, <2>2, QuietMove DEF SameUse, events
  <2>5. NoLostPulse'
    BY <2>1, <2>2, HeardMove DEF Heard, IsQueued, events
  <2> QED BY <2>3, <2>4, <2>5 DEF WaitInv
<1>2. CASE Next
  <2>1. PICK t \in Thread : \/ Step(t) \/ Client(t) \/ Reenter(t)
                            \/ WaitTimedOut(t) \/ WaitInterrupted(t) \/ RudeAbort(t)
                            \/ RestoreOutOfMemory(t)
    BY <1>2 DEF Next
  <2>2. CASE Step(t)
    BY <2>2, LeaveMonitorCompletelyStep, WaitSignalledStep, RestoreStep, DequeueThreadStep,
       SetEventStep DEF Step
  <2>3. CASE Client(t)
    BY <2>3, EnterStep, LeaveStep, WaitSharedStep, WaitEnqueueStep, BeginPulseStep DEF Client
  <2> QED BY <2>1, <2>2, <2>3, ReenterStep, WaitTimedOutStep, WaitInterruptedStep,
             RudeAbortStep, RestoreOutOfMemoryStep
<1> QED BY <1>1, <1>2

\* The counts of the links, the queues and the events fit the Wait calls on the stacks,
\* in every state of SyncBlock::Wait, Pulse and PendingSync::Restore.
THEOREM WaitInvariant == Spec => []WaitInv
BY WaitInvInit, WaitInvNext, PTL DEF Spec

\* Every variable has its type.
THEOREM WaitTypes == Spec => []TypeOK
<1>1. WaitInv => TypeOK
  BY DEF WaitInv
<1> QED BY <1>1, WaitInvariant, PTL

\* A pulse that found a waiter is not lost on the way, however deep waits nest: the Reset
\* of another Wait, Restore's RemoveThread and a rude abort leave it alone.
THEOREM NoLostPulseHolds == Spec => []NoLostPulse
<1>1. WaitInv => NoLostPulse
  BY DEF WaitInv
<1> QED BY <1>1, WaitInvariant, PTL

\* No event is in use twice, or in use and in the store, as long as all links are alive.
THEOREM EventsExclusiveHolds == Spec => []EventsExclusive
<1>1. ASSUME WaitInv
      PROVE  EventsExclusive
  <2>1. SUFFICES ASSUME Defined, NEW t \in Thread, NEW u \in Thread, NEW d \in chain[t], NEW e \in chain[u]
                 PROVE  /\ link[<<t, d>>].event \notin store
                        /\ link[<<t, d>>].event = link[<<u, e>>].event => t = u /\ d = e
    BY DEF EventsExclusive
  <2>2. TypeOK /\ OneEventEach
    BY <1>1 DEF WaitInv
  <2>3. d \in Depth /\ e \in Depth /\ InUse(t, d) /\ InUse(u, e)
    BY <2>1, <2>2 DEF Defined, LinkAlive, InUse, TypeOK
  <2>4. link[<<t, d>>].event \in {OwnEvent[t]} \cup (created \ store)
    BY <2>2, <2>3 DEF OneEventEach
  <2>5. link[<<t, d>>].event \notin store
    BY <2>2, <2>4, MonitorWaitAssumption DEF TypeOK
  <2>6. \A v \in Thread, f \in Depth :
          InUse(v, f) /\ link[<<v, f>>].event = link[<<t, d>>].event => t = v /\ d = f
    BY <2>2, <2>3 DEF OneEventEach
  <2> QED BY <2>3, <2>5, <2>6
<1> QED BY <1>1, WaitInvariant, PTL

-----------------------------------------------------------------------------
(* Waits that do not nest.                                                 *)

\* A queued link belongs to a call on that sync block that still waits, whose event is
\* not set and that nobody is about to signal.
QueuedWaits(s, t) ==
  /\ frames[t] # <<>> /\ frames[t][1].sb = s
  /\ frames[t][1].pc \in {"leave", "block", "unsignalled"}
  /\ OwnEvent[t] \notin signalled
  /\ \A u \in Thread : pulse[u].at = "set" => pulse[u].link # <<t, 1>>

FlatQueues ==
  \A s \in SB : /\ IsInjective(queue[s])
                /\ \A t \in Thread : <<t, 1>> \in Range(queue[s]) => QueuedWaits(s, t)

\* A call waits with the link in its own frame and with the thread's event.
FlatCall(t) ==
  frames[t] # <<>> =>
    /\ frames[t][1].link = 1
    /\ link[<<t, 1>>].sb = frames[t][1].sb /\ link[<<t, 1>>].event = OwnEvent[t]

\* The link a pulsing thread has dequeued is the one of a call on the same sync block, as
\* long as no rude abort ended that call.
PulsedWaits(u, t) ==
  /\ pulse[u].link = <<t, 1>>
  /\ frames[t] # <<>> => frames[t][1].sb = pulse[u].sb
  /\ aborts = 0 => frames[t] # <<>>

\* Who pulses owns the monitor and waits for nothing.
FlatPulse(u) ==
  pulse[u].at # "none" =>
    /\ pulse[u].sb \in SB /\ owner[pulse[u].sb] = u /\ frames[u] = <<>>
    /\ pulse[u].at = "set" => \E t \in Thread : PulsedWaits(u, t)

FlatInv ==
  /\ WaitInv /\ FlatQueues /\ aborts <= MaxRudeAborts
  /\ \A t \in Thread : FlatCall(t) /\ FlatPulse(t)

Flat == FlatQueues /\ aborts <= MaxRudeAborts /\ \A t \in Thread : FlatCall(t) /\ FlatPulse(t)

\* Stacks that hold one call at most.
LEMMA FlatStack ==
  ASSUME TypeOK, StackFits, MaxNesting = 1, NEW t \in Thread
  PROVE  /\ frames[t] \in Seq(Frame)
         /\ frames[t] # <<>> => /\ Len(frames[t]) = 1 /\ Top(t) = frames[t][1]
                                /\ frames[t][1] \in Frame /\ Call(t) = {1}
         /\ RunsCode(t) => frames[t] = <<>>
         /\ Depth = {1} /\ 1 \in Depth /\ <<t, 1>> \in Link
         /\ \A l \in Link : \E u \in Thread : l = <<u, 1>>
<1>1. frames[t] \in Seq(Frame) /\ Len(frames[t]) \in Nat
  BY CallFacts
<1>2. ASSUME frames[t] # <<>>
      PROVE  Len(frames[t]) = 1 /\ Top(t) = frames[t][1] /\ frames[t][1] \in Frame /\ Call(t) = {1}
  <2>1. Len(frames[t]) \in Nat \ {0} /\ Top(t) = frames[t][Len(frames[t])] /\ Top(t) \in Frame
    BY <1>2, TopFacts
  <2>2. Len(frames[t]) <= 1
    BY DEF StackFits
  <2>3. Len(frames[t]) = 1
    <3>1. \A i \in Nat \ {0} : i <= 1 => i = 1
      OBVIOUS
    <3> QED BY <2>1, <2>2, <3>1
  <2> QED BY <2>1, <2>3 DEF Call
<1>3. RunsCode(t) => frames[t] = <<>>
  BY <1>2 DEF RunsCode
<1>4. Depth = {1}
  BY DEF Depth
<1> QED BY <1>1, <1>2, <1>3, <1>4 DEF Link

LEMMA FlatEnter ==
  ASSUME FlatInv, MaxNesting = 1, NEW t \in Thread, NEW s \in SB, Enter(t, s)
  PROVE  Flat'
<1>1. TypeOK /\ StackFits /\ FlatQueues /\ aborts <= MaxRudeAborts
      /\ \A u \in Thread : FlatCall(u) /\ FlatPulse(u)
  BY DEF FlatInv, WaitInv
<1>2. /\ owner' = [owner EXCEPT ![s] = t] /\ owner[s] \in {NoThread, t} /\ NoThread \notin Thread
      /\ UNCHANGED <<queue, link, chain, frames, pulse, events, bounds>>
  BY MonitorWaitAssumption DEF Enter, Enterable
<1>3. FlatQueues'
  BY <1>1, <1>2 DEF FlatQueues, QueuedWaits, events
<1>4. aborts' <= MaxRudeAborts
  BY <1>1, <1>2 DEF bounds
<1>5. ASSUME NEW u \in Thread
      PROVE  FlatCall(u)' /\ FlatPulse(u)'
  <2>1. FlatCall(u)'
    BY <1>1, <1>2 DEF FlatCall
  <2>2. pulse[u].at # "none" => owner'[pulse[u].sb] = u
    BY <1>1, <1>2 DEF FlatPulse, TypeOK
  <2>3. FlatPulse(u)'
    BY <1>1, <1>2, <2>2 DEF FlatPulse, PulsedWaits, bounds
  <2> QED BY <2>1, <2>3
<1> QED BY <1>3, <1>4, <1>5 DEF Flat

LEMMA FlatLeave ==
  ASSUME FlatInv, MaxNesting = 1, NEW t \in Thread, NEW s \in SB, Leave(t, s)
  PROVE  Flat'
<1>1. TypeOK /\ StackFits /\ FlatQueues /\ aborts <= MaxRudeAborts
      /\ \A u \in Thread : FlatCall(u) /\ FlatPulse(u)
  BY DEF FlatInv, WaitInv
<1>2. /\ owner' = [owner EXCEPT ![s] = IF entries[s] = 1 THEN NoThread ELSE t] /\ owner[s] = t
      /\ pulse[t].at = "none"
      /\ UNCHANGED <<queue, link, chain, frames, pulse, events, bounds>>
  BY DEF Leave, RunsCode
<1>3. FlatQueues'
  BY <1>1, <1>2 DEF FlatQueues, QueuedWaits, events
<1>4. aborts' <= MaxRudeAborts
  BY <1>1, <1>2 DEF bounds
<1>5. ASSUME NEW u \in Thread
      PROVE  FlatCall(u)' /\ FlatPulse(u)'
  <2>1. FlatCall(u)'
    BY <1>1, <1>2 DEF FlatCall
  <2>2. pulse[u].at # "none" => owner'[pulse[u].sb] = u
    BY <1>1, <1>2 DEF FlatPulse, TypeOK
  <2>3. FlatPulse(u)'
    BY <1>1, <1>2, <2>2 DEF FlatPulse, PulsedWaits, bounds
  <2> QED BY <2>1, <2>3
<1> QED BY <1>3, <1>4, <1>5 DEF Flat

LEMMA FlatBeginPulse ==
  ASSUME FlatInv, MaxNesting = 1, NEW t \in Thread, NEW s \in SB, NEW all \in PulseAlls,
         BeginPulse(t, s, all)
  PROVE  Flat'
<1>1. TypeOK /\ StackFits /\ FlatQueues /\ aborts <= MaxRudeAborts
      /\ \A u \in Thread : FlatCall(u) /\ FlatPulse(u)
  BY DEF FlatInv, WaitInv
<1>2. /\ owner[s] = t /\ frames[t] = <<>>
      /\ UNCHANGED <<monitors, queue, link, chain, frames, events, bounds>>
  BY <1>1, FlatStack DEF BeginPulse
<1>3. /\ pulse'[t].at = "dequeue" /\ pulse'[t].sb = s
      /\ \A u \in Thread : u # t => pulse'[u] = pulse[u]
  BY <1>1 DEF BeginPulse, TypeOK
<1>4. FlatQueues'
  BY <1>1, <1>2, <1>3 DEF FlatQueues, QueuedWaits, events
<1>5. aborts' <= MaxRudeAborts
  BY <1>1, <1>2 DEF bounds
<1>6. ASSUME NEW u \in Thread
      PROVE  FlatCall(u)' /\ FlatPulse(u)'
  <2>1. FlatCall(u)'
    BY <1>1, <1>2 DEF FlatCall
  <2>2. FlatPulse(u)'
    BY <1>1, <1>2, <1>3 DEF FlatPulse, PulsedWaits, bounds, monitors
  <2> QED BY <2>1, <2>2
<1> QED BY <1>4, <1>5, <1>6 DEF Flat

LEMMA FlatDequeue ==
  ASSUME FlatInv, MaxNesting = 1, NEW t \in Thread, DequeueThread(t)
  PROVE  Flat'
<1>1. TypeOK /\ StackFits /\ FlatQueues /\ aborts <= MaxRudeAborts
      /\ \A u \in Thread : FlatCall(u) /\ FlatPulse(u)
  BY DEF FlatInv, WaitInv
<1>2. PICK s : s = pulse[t].sb
  OBVIOUS
<1>3. /\ pulse[t].at = "dequeue" /\ s \in SB /\ owner[s] = t /\ frames[t] = <<>>
      /\ UNCHANGED <<monitors, link, chain, frames, events, bounds>>
  BY <1>1, <1>2 DEF DequeueThread, FlatPulse
<1>4. aborts' <= MaxRudeAborts
  BY <1>1, <1>3 DEF bounds
<1>5. \A u \in Thread : FlatCall(u)'
  BY <1>1, <1>3 DEF FlatCall
<1>6. CASE queue' = queue /\ pulse' = [pulse EXCEPT ![t] = NoPulse]
  <2>1. pulse'[t].at = "none" /\ \A u \in Thread : u # t => pulse'[u] = pulse[u]
    BY <1>1, <1>6 DEF TypeOK, NoPulse
  <2>2. FlatQueues'
    BY <1>1, <1>3, <1>6, <2>1 DEF FlatQueues, QueuedWaits, events
  <2>3. \A u \in Thread : FlatPulse(u)'
    BY <1>1, <1>3, <2>1 DEF FlatPulse, PulsedWaits, bounds, monitors
  <2> QED BY <1>4, <1>5, <2>2, <2>3 DEF Flat
<1>7. CASE /\ queue[s] # <<>> /\ queue' = [queue EXCEPT ![s] = Tail(@)]
           /\ pulse' = [pulse EXCEPT ![t].at = "set", ![t].link = Head(queue[s])]
  <2>1. queue[s] \in Seq(Link) /\ IsInjective(queue[s])
    BY <1>1, <1>3 DEF TypeOK, FlatQueues
  <2>2. /\ Head(queue[s]) \in Link /\ Head(queue[s]) \in Range(queue[s])
        /\ Range(Tail(queue[s])) \subseteq Range(queue[s])
        /\ IsInjective(Tail(queue[s])) /\ Head(queue[s]) \notin Range(Tail(queue[s]))
    BY <1>7, <2>1, TailFacts
  <2>3. PICK v \in Thread : Head(queue[s]) = <<v, 1>>
    BY <1>1, <2>2, FlatStack
  <2>4. QueuedWaits(s, v)
    BY <1>1, <1>3, <2>2, <2>3 DEF FlatQueues
  <2>5. queue'[s] = Tail(queue[s]) /\ \A z \in SB : z # s => queue'[z] = queue[z]
    BY <1>1, <1>3, <1>7 DEF TypeOK
  <2>6. /\ pulse'[t].at = "set" /\ pulse'[t].link = <<v, 1>> /\ pulse'[t].sb = s
        /\ \A u \in Thread : u # t => pulse'[u] = pulse[u]
    BY <1>1, <1>2, <1>7, <2>3 DEF TypeOK
  <2>7. ASSUME NEW z \in SB, NEW u \in Thread, <<u, 1>> \in Range(queue'[z])
        PROVE  QueuedWaits(z, u)'
    <3>1. <<u, 1>> \in Range(queue[z]) /\ (z = s => u # v)
      BY <2>2, <2>3, <2>5, <2>7
    <3>2. QueuedWaits(z, u)
      BY <1>1, <3>1 DEF FlatQueues
    <3>3. u # v
      BY <2>4, <3>1, <3>2 DEF QueuedWaits
    <3> QED BY <1>3, <2>6, <3>2, <3>3 DEF QueuedWaits, events
  <2>8. \A z \in SB : IsInjective(queue'[z])
    BY <1>1, <2>2, <2>5 DEF FlatQueues
  <2>9. FlatQueues'
    BY <2>7, <2>8 DEF FlatQueues
  <2>10. ASSUME NEW u \in Thread
         PROVE  FlatPulse(u)'
    <3>1. CASE u = t
      <4>1. PulsedWaits(u, v)'
        BY <1>3, <2>4, <2>6, <3>1 DEF PulsedWaits, QueuedWaits
      <4> QED BY <1>3, <2>6, <3>1, <4>1 DEF FlatPulse, monitors
    <3>2. CASE u # t
      BY <1>1, <1>3, <2>6, <3>2 DEF FlatPulse, PulsedWaits, bounds, monitors
    <3> QED BY <3>1, <3>2
  <2> QED BY <1>4, <1>5, <2>9, <2>10 DEF Flat
<1> QED BY <1>2, <1>6, <1>7 DEF DequeueThread

LEMMA FlatSetEvent ==
  ASSUME FlatInv, MaxNesting = 1, NEW t \in Thread, SetEvent(t)
  PROVE  Flat'
<1>1. TypeOK /\ StackFits /\ FlatQueues /\ aborts <= MaxRudeAborts
      /\ \A u \in Thread : FlatCall(u) /\ FlatPulse(u)
  BY DEF FlatInv, WaitInv
<1>2. /\ pulse[t].at = "set" /\ Defined /\ signalled' = signalled \cup {link[pulse[t].link].event}
      /\ UNCHANGED <<monitors, queue, link, chain, frames, store, created, bounds>>
  BY DEF SetEvent
<1>3. PICK v \in Thread : pulse[t].link = <<v, 1>>
  BY <1>1, <1>2 DEF FlatPulse, PulsedWaits
<1>4. link[<<v, 1>>].event = OwnEvent[v]
  <2>1. LinkAlive(<<v, 1>>)
    BY <1>2, <1>3 DEF Defined
  <2>2. frames[v] # <<>>
    BY <2>1 DEF LinkAlive
  <2> QED BY <1>1, <2>2 DEF FlatCall
<1>5. /\ \A u \in Thread : u # t => pulse'[u] = pulse[u]
      /\ pulse'[t] = IF pulse[t].all THEN [pulse[t] EXCEPT !.at = "dequeue", !.link = NoLink]
                     ELSE NoPulse
  BY <1>1 DEF SetEvent, TypeOK
<1>6. pulse'[t].at # "set" /\ (pulse'[t].at # "none" => pulse'[t].sb = pulse[t].sb)
  <2>1. CASE pulse[t].all
    <3>1. pulse'[t] = [pulse[t] EXCEPT !.at = "dequeue", !.link = NoLink]
      BY <1>5, <2>1
    <3>2. pulse[t] \in [at : {"none", "dequeue", "set"}, sb : SB \cup {NoSB},
                        all : BOOLEAN, link : Link \cup {NoLink}]
      BY <1>1 DEF TypeOK
    <3> QED BY <3>1, <3>2
  <2>2. CASE ~pulse[t].all
    BY <1>5, <2>2 DEF NoPulse
  <2> QED BY <2>1, <2>2
<1>7. FlatQueues'
  <2>1. ASSUME NEW z \in SB, NEW u \in Thread, <<u, 1>> \in Range(queue'[z])
        PROVE  QueuedWaits(z, u)'
    <3>1. QueuedWaits(z, u)
      BY <1>1, <1>2, <2>1 DEF FlatQueues
    <3>2. u # v
      BY <1>2, <1>3, <3>1 DEF QueuedWaits
    <3>3. OwnEvent[u] \notin signalled'
      BY <1>2, <1>3, <1>4, <3>1, <3>2, MonitorWaitAssumption DEF QueuedWaits
    <3> QED BY <1>2, <1>5, <1>6, <3>1, <3>3 DEF QueuedWaits
  <2> QED BY <1>1, <1>2, <2>1 DEF FlatQueues
<1>8. aborts' <= MaxRudeAborts
  BY <1>1, <1>2 DEF bounds
<1>9. ASSUME NEW u \in Thread
      PROVE  FlatCall(u)' /\ FlatPulse(u)'
  <2>1. FlatCall(u)'
    BY <1>1, <1>2 DEF FlatCall
  <2>2. CASE u = t
    BY <1>1, <1>2, <1>6, <2>1, <2>2 DEF FlatPulse, monitors
  <2>3. CASE u # t
    BY <1>1, <1>2, <1>5, <2>1, <2>3 DEF FlatPulse, PulsedWaits, bounds, monitors
  <2> QED BY <2>2, <2>3
<1> QED BY <1>7, <1>8, <1>9 DEF Flat

\* A step of a call that stays on the stack.
LEMMA FlatGoto ==
  ASSUME FlatInv, NEW t \in Thread, frames[t] # <<>>, frames'[t] # <<>>,
         \A u \in Thread : u # t => frames'[u] = frames[u],
         frames'[t][1].sb = frames[t][1].sb, frames'[t][1].link = frames[t][1].link,
         \A u \in Thread : /\ link'[<<u, 1>>].sb = link[<<u, 1>>].sb
                           /\ link'[<<u, 1>>].event = link[<<u, 1>>].event,
         UNCHANGED <<pulse, signalled, aborts>>,
         \A u \in Thread : pulse[u].at # "none" => owner'[pulse[u].sb] = owner[pulse[u].sb],
         \A z \in SB : IsInjective(queue'[z]) /\ Range(queue'[z]) \subseteq Range(queue[z]),
         \A z \in SB : <<t, 1>> \in Range(queue'[z]) =>
                         frames'[t][1].pc \in {"leave", "block", "unsignalled"}
  PROVE  Flat'
<1>1. FlatQueues /\ aborts <= MaxRudeAborts /\ \A u \in Thread : FlatCall(u) /\ FlatPulse(u)
  BY DEF FlatInv
<1>2. ASSUME NEW z \in SB, NEW u \in Thread, <<u, 1>> \in Range(queue'[z])
      PROVE  QueuedWaits(z, u)'
  <2>1. QueuedWaits(z, u)
    BY <1>1, <1>2 DEF FlatQueues
  <2>2. CASE u = t
    BY <1>2, <2>1, <2>2 DEF QueuedWaits
  <2>3. CASE u # t
    BY <2>1, <2>3 DEF QueuedWaits
  <2> QED BY <2>2, <2>3
<1>3. FlatQueues'
  BY <1>2 DEF FlatQueues
<1>4. ASSUME NEW u \in Thread
      PROVE  FlatCall(u)'
  <2>1. CASE u = t
    BY <1>1, <2>1 DEF FlatCall
  <2>2. CASE u # t
    BY <1>1, <2>2 DEF FlatCall
  <2> QED BY <2>1, <2>2
<1>5. ASSUME NEW u \in Thread
      PROVE  FlatPulse(u)'
  <2>1. CASE pulse[u].at = "none"
    BY <2>1 DEF FlatPulse
  <2>2. CASE pulse[u].at # "none"
    <3>1. /\ pulse[u].sb \in SB /\ owner[pulse[u].sb] = u /\ frames[u] = <<>> /\ u # t
          /\ pulse[u].at = "set" => \E v \in Thread : PulsedWaits(u, v)
      BY <1>1, <2>2 DEF FlatPulse
    <3>2. ASSUME NEW v \in Thread, PulsedWaits(u, v)
          PROVE  PulsedWaits(u, v)'
      <4>1. CASE v = t
        BY <3>2, <4>1 DEF PulsedWaits
      <4>2. CASE v # t
        BY <3>2, <4>2 DEF PulsedWaits
      <4> QED BY <4>1, <4>2
    <3> QED BY <2>2, <3>1, <3>2 DEF FlatPulse
  <2> QED BY <2>1, <2>2
<1> QED BY <1>1, <1>3, <1>4, <1>5 DEF Flat

\* The end of an event wait.
LEMMA FlatBlockEnds ==
  ASSUME FlatInv, MaxNesting = 1, NEW t \in Thread, InWait(t, "block"),
         NEW to \in {"signalled", "unsignalled"}, Goto(t, to),
         to = "signalled" => link[MyLink(t)].event \in signalled,
         UNCHANGED <<monitors, queue, link, pulse, events, aborts>>
  PROVE  Flat'
<1>1. /\ TypeOK /\ StackFits /\ FlatQueues /\ \A u \in Thread : FlatCall(u) /\ FlatPulse(u)
      /\ frames[t] # <<>>
  BY DEF FlatInv, WaitInv, InWait
<1>2. Len(frames[t]) = 1 /\ Top(t) = frames[t][1] /\ frames[t][1] \in Frame /\ Call(t) = {1}
  BY <1>1, FlatStack
<1>3. /\ frames' \in [Thread -> Seq(Frame)]
      /\ \A u \in Thread : u # t => frames'[u] = frames[u]
      /\ Len(frames'[t]) = 1
      /\ frames'[t][1] = [Top(t) EXCEPT !.pc = to]
  BY <1>1, <1>2, GotoFacts
<1>4. /\ frames'[t] # <<>> /\ frames'[t][1].sb = frames[t][1].sb
      /\ frames'[t][1].link = frames[t][1].link /\ frames'[t][1].pc = to
  BY <1>2, <1>3 DEF Frame
<1>5. ASSUME NEW z \in SB, <<t, 1>> \in Range(queue'[z])
      PROVE  to = "unsignalled"
  <2>1. OwnEvent[t] \notin signalled
    BY <1>1, <1>5 DEF FlatQueues, QueuedWaits
  <2>2. MyLink(t) = <<t, 1>> /\ link[<<t, 1>>].event = OwnEvent[t]
    BY <1>1, <1>2 DEF MyLink, FlatCall
  <2> QED BY <2>1, <2>2
<1>6. \A z \in SB : <<t, 1>> \in Range(queue'[z]) =>
                      frames'[t][1].pc \in {"leave", "block", "unsignalled"}
  BY <1>4, <1>5
<1>7. \A z \in SB : IsInjective(queue'[z]) /\ Range(queue'[z]) \subseteq Range(queue[z])
  BY <1>1 DEF FlatQueues
<1>8. /\ UNCHANGED <<pulse, signalled, aborts>>
      /\ \A u \in Thread : /\ link'[<<u, 1>>].sb = link[<<u, 1>>].sb
                           /\ link'[<<u, 1>>].event = link[<<u, 1>>].event
      /\ \A u \in Thread : pulse[u].at # "none" => owner'[pulse[u].sb] = owner[pulse[u].sb]
  BY DEF events, monitors
<1> QED BY <1>1, <1>3, <1>4, <1>6, <1>7, <1>8, FlatGoto

LEMMA FlatWaitSignalled ==
  ASSUME FlatInv, MaxNesting = 1, NEW t \in Thread, WaitSignalled(t)
  PROVE  Flat'
<1>1. /\ InWait(t, "block") /\ Goto(t, "signalled") /\ link[MyLink(t)].event \in signalled
      /\ UNCHANGED <<monitors, queue, link, pulse, events, aborts>>
  BY DEF WaitSignalled, AtWait, bounds
<1> QED BY <1>1, FlatBlockEnds

LEMMA FlatWaitTimedOut ==
  ASSUME FlatInv, MaxNesting = 1, NEW t \in Thread, WaitTimedOut(t)
  PROVE  Flat'
<1>1. /\ InWait(t, "block") /\ Goto(t, "unsignalled")
      /\ UNCHANGED <<monitors, queue, link, pulse, events, aborts>>
  BY DEF WaitTimedOut, AtWait, bounds
<1> QED BY <1>1, FlatBlockEnds

LEMMA FlatWaitInterrupted ==
  ASSUME FlatInv, MaxNesting = 1, NEW t \in Thread, WaitInterrupted(t)
  PROVE  Flat'
<1>1. /\ InWait(t, "block") /\ Goto(t, "unsignalled")
      /\ UNCHANGED <<monitors, queue, link, pulse, events, aborts>>
  BY DEF WaitInterrupted, AtWait
<1> QED BY <1>1, FlatBlockEnds

LEMMA FlatLeaveMonitorCompletely ==
  ASSUME FlatInv, MaxNesting = 1, NEW t \in Thread, LeaveMonitorCompletely(t)
  PROVE  Flat'
<1>1. /\ TypeOK /\ StackFits /\ FlatQueues /\ \A u \in Thread : FlatCall(u) /\ FlatPulse(u)
      /\ frames[t] # <<>> /\ Top(t).pc = "leave" /\ pulse[t].at = "none"
      /\ owner' = [owner EXCEPT ![Top(t).sb] = NoThread]
      /\ UNCHANGED <<queue, link, chain, pulse, events, bounds>>
  BY DEF FlatInv, WaitInv, LeaveMonitorCompletely, AtWait, InWait
<1>2. Len(frames[t]) = 1 /\ Top(t) = frames[t][1] /\ frames[t][1] \in Frame /\ Call(t) = {1}
  BY <1>1, FlatStack
<1>3. /\ frames' \in [Thread -> Seq(Frame)]
      /\ \A u \in Thread : u # t => frames'[u] = frames[u]
      /\ Len(frames'[t]) = 1
      /\ frames'[t][1] = [Top(t) EXCEPT !.count = entries[Top(t).sb], !.pc = "block"]
  BY <1>1, <1>2, LeaveTopFacts
<1>4. /\ frames'[t] # <<>> /\ frames'[t][1].sb = frames[t][1].sb
      /\ frames'[t][1].link = frames[t][1].link /\ frames'[t][1].pc = "block"
  BY <1>2, <1>3 DEF Frame
<1>5. ASSUME NEW u \in Thread, pulse[u].at # "none"
      PROVE  owner'[pulse[u].sb] = owner[pulse[u].sb]
  <2>1. u # t /\ pulse[u].sb \in SB /\ owner[pulse[u].sb] = u
    BY <1>1, <1>5 DEF FlatPulse
  <2>2. owner[Top(t).sb] = t
    BY <1>1, <1>2 DEF StackFits, CallFits
  <2> QED BY <1>1, <2>1, <2>2 DEF TypeOK
<1>6. \A z \in SB : IsInjective(queue'[z]) /\ Range(queue'[z]) \subseteq Range(queue[z])
  BY <1>1 DEF FlatQueues
<1>7. /\ UNCHANGED <<pulse, signalled, aborts>>
      /\ \A u \in Thread : /\ link'[<<u, 1>>].sb = link[<<u, 1>>].sb
                           /\ link'[<<u, 1>>].event = link[<<u, 1>>].event
  BY <1>1 DEF events, bounds
<1> QED BY <1>1, <1>3, <1>4, <1>5, <1>6, <1>7, FlatGoto

LEMMA FlatRestore ==
  ASSUME FlatInv, MaxNesting = 1, NEW t \in Thread, Restore(t)
  PROVE  Flat'
<1>1. /\ WaitInv /\ TypeOK /\ StackFits /\ FlatQueues
      /\ \A u \in Thread : FlatCall(u) /\ FlatPulse(u)
      /\ InWait(t, "signalled") \/ InWait(t, "unsignalled")
  BY DEF FlatInv, WaitInv, Restore, AtWait
<1>2. frames[t] # <<>>
  BY <1>1 DEF InWait
<1>3. /\ Len(frames[t]) = 1 /\ Top(t) = frames[t][1] /\ frames[t][1] \in Frame /\ Call(t) = {1}
      /\ <<t, 1>> \in Link /\ frames[t][1].link = 1 /\ MyLink(t) = <<t, 1>>
  BY <1>1, <1>2, FlatStack DEF FlatCall, MyLink
<1>4. PICK s : s = frames[t][1].sb
  OBVIOUS
<1>5. /\ s \in SB /\ link[<<t, 1>>].ref = 1 /\ link[<<t, 1>>].sb = s
  <2>1. PICK d, n : d = Top(t).link /\ n = Len(frames[t])
    OBVIOUS
  <2>2. d = 1 /\ n = 1
    BY <1>3, <2>1
  <2>3. /\ Top(t).sb \in SB /\ link[<<t, d>>].sb = Top(t).sb /\ link[<<t, d>>].ref \in Nat \ {0}
        /\ link[<<t, d>>].ref # 1 => d # n
    BY <1>1, <2>1, RestoreFacts
  <2> QED BY <1>3, <1>4, <2>2, <2>3
<1>6. /\ link' = [link EXCEPT ![<<t, 1>>].ref = @ - 1]
      /\ queue' = [queue EXCEPT ![s] = IF Top(t).pc = "signalled" THEN @ ELSE RemoveThread(t, @)]
      /\ Goto(t, "reenter") /\ UNCHANGED <<monitors, pulse, signalled, created, bounds>>
  BY <1>3, <1>5 DEF Restore
<1>7. /\ frames' \in [Thread -> Seq(Frame)]
      /\ \A u \in Thread : u # t => frames'[u] = frames[u]
      /\ Len(frames'[t]) = 1
      /\ frames'[t][1] = [Top(t) EXCEPT !.pc = "reenter"]
  BY <1>1, <1>2, <1>3, <1>6, GotoFacts
<1>8. /\ frames'[t] # <<>> /\ frames'[t][1].sb = frames[t][1].sb
      /\ frames'[t][1].link = frames[t][1].link
  BY <1>3, <1>7 DEF Frame
<1>9. \A u \in Thread : /\ link'[<<u, 1>>].sb = link[<<u, 1>>].sb
                        /\ link'[<<u, 1>>].event = link[<<u, 1>>].event
  <2>1. \A u \in Thread : <<u, 1>> \in Link /\ link[<<u, 1>>] \in [sb : SB \cup {NoSB}, event : Event, ref : Nat]
    BY <1>1, FlatStack DEF TypeOK
  <2> QED BY <1>1, <1>6, <2>1 DEF TypeOK
<1>10. /\ \A z \in SB : z # s => queue'[z] = queue[z]
       /\ Top(t).pc = "signalled" => queue'[s] = queue[s]
       /\ Top(t).pc # "signalled" => queue'[s] = RemoveThread(t, queue[s])
  BY <1>1, <1>5, <1>6 DEF TypeOK
<1>11. queue[s] \in Seq(Link) /\ IsInjective(queue[s])
  BY <1>1, <1>5 DEF TypeOK, FlatQueues
<1>12. /\ Range(RemoveThread(t, queue[s])) \subseteq Range(queue[s])
       /\ IsInjective(RemoveThread(t, queue[s]))
       /\ <<t, 1>> \notin Range(RemoveThread(t, queue[s]))
  <2>1. /\ Range(RemoveThread(t, queue[s])) \subseteq Range(queue[s])
        /\ IsInjective(RemoveThread(t, queue[s]))
        /\ (\E l \in Range(queue[s]) : l[1] = t) =>
             \E l \in Range(queue[s]) : l[1] = t /\ l \notin Range(RemoveThread(t, queue[s]))
    BY <1>11, RemoveThreadFacts
  <2>2. ASSUME <<t, 1>> \in Range(RemoveThread(t, queue[s]))
        PROVE  FALSE
    <3>1. \E l \in Range(queue[s]) : l[1] = t
      BY <2>1, <2>2
    <3>2. PICK l \in Range(queue[s]) : l[1] = t /\ l \notin Range(RemoveThread(t, queue[s]))
      BY <2>1, <3>1
    <3>3. l \in Link
      BY <1>11 DEF Range
    <3>4. PICK u \in Thread : l = <<u, 1>>
      BY <1>1, <3>3, FlatStack
    <3> QED BY <2>2, <3>2, <3>4
  <2> QED BY <2>1, <2>2
<1>13. \A z \in SB : IsInjective(queue'[z]) /\ Range(queue'[z]) \subseteq Range(queue[z])
  BY <1>1, <1>10, <1>12 DEF FlatQueues
<1>14. \A z \in SB : <<t, 1>> \notin Range(queue'[z])
  <2>1. ASSUME NEW z \in SB, <<t, 1>> \in Range(queue'[z])
        PROVE  FALSE
    <3>1. <<t, 1>> \in Range(queue[z])
      BY <1>13, <2>1
    <3>2. QueuedWaits(z, t)
      BY <1>1, <3>1 DEF FlatQueues
    <3>3. z = s /\ Top(t).pc # "signalled"
      BY <1>3, <1>4, <3>2 DEF QueuedWaits
    <3> QED BY <1>10, <1>12, <2>1, <3>3
  <2> QED BY <2>1
<1>15. /\ UNCHANGED <<pulse, signalled, aborts>>
       /\ \A u \in Thread : pulse[u].at # "none" => owner'[pulse[u].sb] = owner[pulse[u].sb]
  BY <1>6 DEF bounds, monitors
<1> QED BY <1>2, <1>7, <1>8, <1>9, <1>13, <1>14, <1>15, FlatGoto

\* A call that wants its monitor back is left.
LEMMA FlatPop ==
  ASSUME FlatInv, MaxNesting = 1, NEW t \in Thread, AtWait(t, "reenter"), Return(t),
         UNCHANGED <<queue, pulse, events>>, aborts' <= MaxRudeAborts,
         aborts' = 0 => aborts = 0,
         \A u \in Thread : pulse[u].at # "none" => owner'[pulse[u].sb] = owner[pulse[u].sb],
         \A u \in Thread : pulse[u].at = "set" /\ pulse[u].link = <<t, 1>> => aborts' # 0
  PROVE  Flat'
<1>1. /\ TypeOK /\ StackFits /\ FlatQueues /\ \A u \in Thread : FlatCall(u) /\ FlatPulse(u)
      /\ frames[t] # <<>> /\ Top(t).pc = "reenter"
  BY DEF FlatInv, WaitInv, AtWait, InWait
<1>2. Len(frames[t]) = 1 /\ Top(t) = frames[t][1] /\ 1 \in Depth
  BY <1>1, FlatStack
<1>3. /\ frames' \in [Thread -> Seq(Frame)] /\ Len(frames'[t]) = 0
      /\ \A u \in Thread : u # t => frames'[u] = frames[u]
      /\ \A l \in Link : l # <<t, 1>> => link'[l] = link[l]
  <2>1. /\ frames' \in [Thread -> Seq(Frame)] /\ Len(frames'[t]) = Len(frames[t]) - 1
        /\ \A u \in Thread : u # t => frames'[u] = frames[u]
        /\ \A l \in Link : l # <<t, Len(frames[t])>> => link'[l] = link[l]
    BY <1>1, <1>2, PopFacts
  <2> QED BY <1>2, <2>1
<1>4. frames'[t] = <<>>
  BY <1>3, EmptySeq
<1>5. ASSUME NEW z \in SB, NEW u \in Thread, <<u, 1>> \in Range(queue'[z])
      PROVE  QueuedWaits(z, u)'
  <2>1. QueuedWaits(z, u)
    BY <1>1, <1>5 DEF FlatQueues
  <2>2. u # t
    BY <1>1, <1>2, <2>1 DEF QueuedWaits
  <2> QED BY <1>3, <2>1, <2>2 DEF QueuedWaits, events
<1>6. FlatQueues'
  BY <1>1, <1>5 DEF FlatQueues
<1>7. ASSUME NEW u \in Thread
      PROVE  FlatCall(u)'
  <2>1. CASE u = t
    BY <1>4, <2>1 DEF FlatCall
  <2>2. CASE u # t
    <3>1. link'[<<u, 1>>] = link[<<u, 1>>] /\ frames'[u] = frames[u]
      BY <1>2, <1>3, <2>2 DEF Link
    <3> QED BY <1>1, <3>1 DEF FlatCall
  <2> QED BY <2>1, <2>2
<1>8. ASSUME NEW u \in Thread
      PROVE  FlatPulse(u)'
  <2>1. CASE pulse[u].at = "none"
    BY <2>1 DEF FlatPulse
  <2>2. CASE pulse[u].at # "none"
    <3>1. /\ pulse[u].sb \in SB /\ owner[pulse[u].sb] = u /\ frames[u] = <<>> /\ u # t
          /\ pulse[u].at = "set" => \E v \in Thread : PulsedWaits(u, v)
      BY <1>1, <2>2 DEF FlatPulse
    <3>2. ASSUME NEW v \in Thread, pulse[u].at = "set", PulsedWaits(u, v)
          PROVE  PulsedWaits(u, v)'
      <4>1. CASE v = t
        BY <1>4, <3>2, <4>1 DEF PulsedWaits
      <4>2. CASE v # t
        BY <1>3, <3>2, <4>2 DEF PulsedWaits
      <4> QED BY <4>1, <4>2
    <3> QED BY <1>3, <2>2, <3>1, <3>2 DEF FlatPulse
  <2> QED BY <2>1, <2>2
<1> QED BY <1>6, <1>7, <1>8 DEF Flat

LEMMA FlatReenter ==
  ASSUME FlatInv, MaxNesting = 1, NEW t \in Thread, Reenter(t)
  PROVE  Flat'
<1>1. /\ TypeOK /\ StackFits /\ FlatQueues /\ aborts <= MaxRudeAborts
      /\ \A u \in Thread : FlatCall(u) /\ FlatPulse(u) /\ NoThread \notin Thread
  BY MonitorWaitAssumption DEF FlatInv, WaitInv
<1>2. PICK s : s = Top(t).sb
  OBVIOUS
<1>3. /\ AtWait(t, "reenter") /\ owner[s] \in {NoThread, t} /\ Return(t)
      /\ owner' = [owner EXCEPT ![s] = t] /\ frames[t] # <<>>
      /\ UNCHANGED <<queue, chain, pulse, events, bounds>>
  BY <1>2 DEF Reenter, Enterable, AtWait, InWait
<1>4. s = frames[t][1].sb
  BY <1>1, <1>2, <1>3, FlatStack
<1>5. ASSUME NEW u \in Thread, pulse[u].at # "none"
      PROVE  pulse[u].sb # s /\ owner'[pulse[u].sb] = owner[pulse[u].sb]
  <2>1. u # t /\ owner[pulse[u].sb] = u /\ pulse[u].sb \in SB
    BY <1>1, <1>3, <1>5 DEF FlatPulse
  <2>2. pulse[u].sb # s
    BY <1>1, <1>3, <2>1
  <2> QED BY <1>1, <1>3, <2>1, <2>2 DEF TypeOK
<1>6. ASSUME NEW u \in Thread, pulse[u].at = "set", pulse[u].link = <<t, 1>>
      PROVE  FALSE
  <2>1. PICK v \in Thread : PulsedWaits(u, v)
    BY <1>1, <1>6 DEF FlatPulse
  <2>2. v = t
    BY <1>6, <2>1 DEF PulsedWaits
  <2>3. pulse[u].sb = s
    BY <1>3, <1>4, <2>1, <2>2 DEF PulsedWaits
  <2> QED BY <1>5, <1>6, <2>3
<1>7. aborts' = aborts
  BY <1>3 DEF bounds
<1>8. UNCHANGED <<queue, pulse, events>>
  BY <1>3
<1> QED BY <1>1, <1>3, <1>5, <1>6, <1>7, <1>8, FlatPop

LEMMA FlatRudeAbort ==
  ASSUME FlatInv, MaxNesting = 1, NEW t \in Thread, RudeAbort(t)
  PROVE  Flat'
<1>1. /\ AtWait(t, "reenter") /\ Return(t) /\ aborts < MaxRudeAborts /\ aborts' = aborts + 1
      /\ UNCHANGED <<monitors, queue, chain, pulse, events, interrupts, storeFailures>>
  BY DEF RudeAbort
<1>2. aborts \in Nat /\ MaxRudeAborts \in Nat
  BY MonitorWaitAssumption DEF FlatInv, WaitInv, TypeOK
<1>3. aborts' <= MaxRudeAborts /\ aborts' # 0
  BY <1>1, <1>2
<1>4. /\ UNCHANGED <<queue, pulse, events>>
      /\ \A u \in Thread : pulse[u].at # "none" => owner'[pulse[u].sb] = owner[pulse[u].sb]
  BY <1>1 DEF monitors
<1> QED BY <1>1, <1>3, <1>4, FlatPop

LEMMA FlatWaitEnqueue ==
  ASSUME FlatInv, MaxNesting = 1, NEW t \in Thread, NEW s \in SB, NEW timed \in TimedWaits,
         WaitEnqueue(t, s, timed)
  PROVE  Flat'
<1>1. /\ TypeOK /\ StackFits /\ FlatQueues /\ aborts <= MaxRudeAborts /\ timed \in BOOLEAN
      /\ \A u \in Thread : FlatCall(u) /\ FlatPulse(u)
  BY MonitorWaitAssumption DEF FlatInv, WaitInv
<1>2. RunsCode(t) /\ Defined /\ pulse[t].at = "none" /\ owner[s] = t
  BY DEF WaitEnqueue, RunsCode
<1>3. /\ frames[t] = <<>> /\ Len(frames[t]) = 0 /\ Len(frames[t]) + 1 = 1
      /\ 1 \in Depth /\ <<t, 1>> \in Link /\ Depth = {1}
  <2>1. frames[t] = <<>> /\ 1 \in Depth /\ <<t, 1>> \in Link /\ Depth = {1}
    BY <1>1, <1>2, FlatStack
  <2>2. Len(frames[t]) = 0
    BY <2>1
  <2> QED BY <2>1, <2>2
<1>4. chain[t] = {}
  <2>1. \A d \in chain[t] : d \in {1} /\ d <= Len(frames[t])
    BY <1>1, <1>2, <1>3 DEF TypeOK, Defined, LinkAlive
  <2>2. \A d \in chain[t] : FALSE
    BY <1>3, <2>1
  <2> QED BY <2>2
<1>5. /\ link' = [link EXCEPT ![<<t, 1>>] = [sb |-> s, event |-> OwnEvent[t], ref |-> 1]]
      /\ signalled' = signalled \ {OwnEvent[t]}
      /\ queue' = [queue EXCEPT ![s] = Append(@, <<t, 1>>)]
      /\ PushFrame(t, s, 1, timed)
      /\ UNCHANGED <<monitors, pulse, bounds>>
  BY <1>3, <1>4 DEF WaitEnqueue
<1>6. /\ frames' \in [Thread -> Seq(Frame)]
      /\ \A u \in Thread : u # t => frames'[u] = frames[u]
      /\ Len(frames'[t]) = 1 /\ frames'[t][1] = NewFrame(s, 1, timed)
  <2>1. PICK d : d = 1
    OBVIOUS
  <2>2. d \in Depth /\ PushFrame(t, s, d, timed)
    BY <1>3, <1>5, <2>1
  <2>3. /\ frames' \in [Thread -> Seq(Frame)]
        /\ \A u \in Thread : u # t => frames'[u] = frames[u]
        /\ Len(frames'[t]) = Len(frames[t]) + 1
        /\ frames'[t][Len(frames[t]) + 1] = NewFrame(s, d, timed)
    BY <1>1, <2>2, PushFacts
  <2> QED BY <1>3, <2>1, <2>3
<1>7. /\ frames'[t] # <<>> /\ frames'[t][1].sb = s /\ frames'[t][1].link = 1
      /\ frames'[t][1].pc = "leave"
  <2>1. Len(frames'[t]) # 0
    BY <1>6
  <2>2. frames'[t] # <<>>
    BY <2>1
  <2>3. frames'[t][1] = [sb |-> s, link |-> 1, count |-> 0, timed |-> timed, pc |-> "leave"]
    BY <1>6 DEF NewFrame
  <2> QED BY <2>2, <2>3
<1>8. /\ link'[<<t, 1>>].sb = s /\ link'[<<t, 1>>].event = OwnEvent[t]
      /\ \A u \in Thread : u # t => link'[<<u, 1>>] = link[<<u, 1>>]
  BY <1>1, <1>3, <1>5 DEF TypeOK, Link
<1>9. \A z \in SB : <<t, 1>> \notin Range(queue[z])
  BY <1>1, <1>3 DEF FlatQueues, QueuedWaits
<1>10. /\ \A z \in SB : z # s => queue'[z] = queue[z]
       /\ Range(queue'[s]) = Range(queue[s]) \cup {<<t, 1>>} /\ IsInjective(queue'[s])
  <2>1. queue[s] \in Seq(Link) /\ IsInjective(queue[s])
    BY <1>1 DEF TypeOK, FlatQueues
  <2>2. /\ Range(Append(queue[s], <<t, 1>>)) = Range(queue[s]) \cup {<<t, 1>>}
        /\ IsInjective(Append(queue[s], <<t, 1>>))
    BY <1>3, <1>9, <2>1, AppendFacts
  <2>3. queue'[s] = Append(queue[s], <<t, 1>>)
    BY <1>1, <1>5 DEF TypeOK
  <2> QED BY <1>1, <1>5, <2>2, <2>3 DEF TypeOK
<1>11. \A u \in Thread : pulse[u].at = "set" => pulse[u].link # <<t, 1>>
  <2>1. ~LinkAlive(<<t, 1>>)
    BY <1>3 DEF LinkAlive
  <2> QED BY <1>2, <2>1 DEF Defined
<1>12. ASSUME NEW z \in SB, NEW u \in Thread, <<u, 1>> \in Range(queue'[z])
       PROVE  QueuedWaits(z, u)'
  <2>1. CASE u = t
    <3>1. z = s
      BY <1>9, <1>10, <1>12, <2>1
    <3> QED BY <1>5, <1>7, <1>11, <2>1, <3>1 DEF QueuedWaits
  <2>2. CASE u # t
    <3>1. <<u, 1>> \in Range(queue[z])
      BY <1>10, <1>12, <2>2
    <3>2. QueuedWaits(z, u)
      BY <1>1, <3>1 DEF FlatQueues
    <3> QED BY <1>5, <1>6, <2>2, <3>2 DEF QueuedWaits
  <2> QED BY <2>1, <2>2
<1>13. FlatQueues'
  BY <1>1, <1>10, <1>12 DEF FlatQueues
<1>14. aborts' <= MaxRudeAborts
  BY <1>1, <1>5 DEF bounds
<1>15. ASSUME NEW u \in Thread
       PROVE  FlatCall(u)'
  <2>1. CASE u = t
    BY <1>7, <1>8, <2>1 DEF FlatCall
  <2>2. CASE u # t
    BY <1>1, <1>6, <1>8, <2>2 DEF FlatCall
  <2> QED BY <2>1, <2>2
<1>16. ASSUME NEW u \in Thread
       PROVE  FlatPulse(u)'
  <2>1. CASE pulse[u].at = "none"
    BY <1>5, <2>1 DEF FlatPulse
  <2>2. CASE pulse[u].at # "none"
    <3>1. /\ pulse[u].sb \in SB /\ owner[pulse[u].sb] = u /\ frames[u] = <<>> /\ u # t
          /\ pulse[u].at = "set" => \E v \in Thread : PulsedWaits(u, v)
      BY <1>1, <1>2, <2>2 DEF FlatPulse
    <3>2. ASSUME NEW v \in Thread, pulse[u].at = "set", PulsedWaits(u, v)
          PROVE  PulsedWaits(u, v)'
      <4>1. v # t
        BY <1>11, <3>2 DEF PulsedWaits
      <4> QED BY <1>5, <1>6, <3>2, <4>1 DEF PulsedWaits, bounds
    <3> QED BY <1>5, <1>6, <2>2, <3>1, <3>2 DEF FlatPulse, monitors
  <2> QED BY <2>1, <2>2
<1> QED BY <1>13, <1>14, <1>15, <1>16 DEF Flat

\* Without nested waits no link is shared, and every call waits with the thread's event.
LEMMA FlatNever ==
  ASSUME FlatInv, MaxNesting = 1, NEW t \in Thread
  PROVE  /\ \A s \in SB, timed \in TimedWaits : ~WaitShared(t, s, timed)
         /\ ~RestoreOutOfMemory(t)
<1>1. TypeOK /\ StackFits /\ FlatCall(t)
  BY DEF FlatInv, WaitInv
<1>2. ASSUME NEW s \in SB, NEW timed \in TimedWaits, WaitShared(t, s, timed)
      PROVE  FALSE
  <2>1. PICK d : d \in AlreadyWaits(t, s)
    BY <1>2 DEF WaitShared
  <2>2. RunsCode(t) /\ Defined
    BY <1>2 DEF WaitShared, RunsCode
  <2>3. frames[t] = <<>> /\ Depth = {1}
    BY <1>1, <2>2, FlatStack
  <2>4. d \in chain[t] /\ d = 1
    BY <1>1, <2>1, <2>3 DEF AlreadyWaits, TypeOK
  <2>5. d <= Len(frames[t])
    BY <2>2, <2>4 DEF Defined, LinkAlive
  <2>6. Len(frames[t]) = 0
    BY <2>3
  <2> QED BY <2>4, <2>5, <2>6
<1>3. ASSUME RestoreOutOfMemory(t)
      PROVE  FALSE
  <2>1. link[MyLink(t)].event # OwnEvent[t] /\ frames[t] # <<>>
    BY <1>3 DEF RestoreOutOfMemory, AtWait, InWait
  <2>2. Top(t) = frames[t][1]
    BY <1>1, <2>1, FlatStack
  <2>3. MyLink(t) = <<t, 1>> /\ link[<<t, 1>>].event = OwnEvent[t]
    BY <1>1, <2>1, <2>2 DEF MyLink, FlatCall
  <2> QED BY <2>1, <2>3
<1> QED BY <1>2, <1>3

LEMMA FlatInvInit == Init => FlatInv
<1> SUFFICES ASSUME Init PROVE FlatInv
  OBVIOUS
<1>1. WaitInv
  BY WaitInvInit
<1>2. FlatQueues
  <2>1. ASSUME NEW s \in SB
        PROVE  queue[s] = <<>> /\ Range(queue[s]) = {} /\ IsInjective(queue[s])
    <3>1. queue[s] = <<>>
      BY DEF Init
    <3>2. DOMAIN queue[s] = {}
      BY <3>1
    <3> QED BY <3>1, <3>2 DEF Range, IsInjective
  <2> QED BY <2>1 DEF FlatQueues
<1>3. aborts <= MaxRudeAborts
  BY MonitorWaitAssumption DEF Init
<1>4. \A t \in Thread : FlatCall(t) /\ FlatPulse(t)
  BY DEF Init, FlatCall, FlatPulse, NoPulse
<1> QED BY <1>1, <1>2, <1>3, <1>4 DEF FlatInv

LEMMA FlatInvNext ==
  ASSUME MaxNesting = 1, FlatInv, [Next]_vars
  PROVE  FlatInv'
<1>1. WaitInv'
  BY WaitInvNext DEF FlatInv
<1>2. CASE UNCHANGED vars
  <2>1. UNCHANGED <<monitors, queue, link, chain, frames, pulse, events, bounds>>
    BY <1>2 DEF vars
  <2>2. FlatQueues'
    BY <2>1 DEF FlatInv, FlatQueues, QueuedWaits, events
  <2>3. aborts' <= MaxRudeAborts
    BY <2>1 DEF FlatInv, bounds
  <2>4. ASSUME NEW t \in Thread
        PROVE  FlatCall(t)' /\ FlatPulse(t)'
    BY <2>1 DEF FlatInv, FlatCall, FlatPulse, PulsedWaits, monitors, bounds
  <2> QED BY <1>1, <2>2, <2>3, <2>4 DEF FlatInv
<1>3. CASE Next
  <2>1. PICK t \in Thread : \/ Step(t) \/ Client(t) \/ Reenter(t)
                            \/ WaitTimedOut(t) \/ WaitInterrupted(t) \/ RudeAbort(t)
                            \/ RestoreOutOfMemory(t)
    BY <1>3 DEF Next
  <2>2. ASSUME Step(t) PROVE Flat'
    BY <2>2, FlatLeaveMonitorCompletely, FlatWaitSignalled, FlatRestore, FlatDequeue,
       FlatSetEvent DEF Step
  <2>3. ASSUME Client(t) PROVE Flat'
    <3>1. PICK s \in SB : \/ Enter(t, s) \/ Leave(t, s)
                          \/ \E timed \in TimedWaits : WaitShared(t, s, timed)
                          \/ \E timed \in TimedWaits : WaitEnqueue(t, s, timed)
                          \/ \E all \in PulseAlls : BeginPulse(t, s, all)
      BY <2>3 DEF Client
    <3> QED BY <3>1, FlatEnter, FlatLeave, FlatNever, FlatWaitEnqueue, FlatBeginPulse
  <2>4. Flat'
    BY <2>1, <2>2, <2>3, FlatReenter, FlatWaitTimedOut, FlatWaitInterrupted, FlatRudeAbort,
       FlatNever
  <2> QED BY <1>1, <2>4 DEF Flat, FlatInv
<1> QED BY <1>2, <1>3

\* Queues, calls and pulses fit together when no code that waits runs inside of a Wait.
THEOREM FlatInvariant ==
  ASSUME MaxNesting = 1
  PROVE  Spec => []FlatInv
<1>1. FlatInv /\ [Next]_vars => FlatInv'
  BY FlatInvNext
<1> QED BY <1>1, FlatInvInit, PTL DEF Spec

\* Then a queue holds only links of calls that still wait, each once: RemoveThread and
\* DequeueThread leave no pointer into a stack frame that is gone.
THEOREM NoDanglingLinkHolds ==
  ASSUME MaxNesting = 1
  PROVE  Spec => []NoDanglingLink
<1>1. ASSUME FlatInv
      PROVE  NoDanglingLink
  <2>1. TypeOK /\ StackFits /\ FlatQueues /\ \A t \in Thread : FlatCall(t)
    BY <1>1 DEF FlatInv, WaitInv
  <2>2. ASSUME NEW s \in SB, NEW l \in Range(queue[s])
        PROVE  \E c \in Call(l[1]) :
                 /\ frames[l[1]][c].link = l[2] /\ frames[l[1]][c].sb = s
                 /\ frames[l[1]][c].pc \in {"leave", "block", "unsignalled"}
    <3>1. queue[s] \in Seq(Link)
      BY <2>1 DEF TypeOK
    <3>2. l \in Link
      BY <3>1 DEF Range
    <3>3. PICK t \in Thread : l = <<t, 1>>
      BY <2>1, <3>2, FlatStack DEF Link
    <3>4. QueuedWaits(s, t)
      BY <2>1, <2>2, <3>3 DEF FlatQueues
    <3>5. 1 \in Call(t) /\ frames[t][1].link = 1
      BY <2>1, <3>4, FlatStack DEF QueuedWaits, FlatCall
    <3> QED BY <3>3, <3>4, <3>5 DEF QueuedWaits
  <2> QED BY <2>1, <2>2 DEF NoDanglingLink, FlatQueues
<1> QED BY <1>1, FlatInvariant, PTL

\* And a wait that ended as signalled has been dequeued by the signalling thread.
THEOREM RemovedBySignallerHolds ==
  ASSUME MaxNesting = 1
  PROVE  Spec => []RemovedBySignaller
<1>1. ASSUME FlatInv
      PROVE  RemovedBySignaller
  <2>1. TypeOK /\ StackFits /\ FlatQueues /\ \A t \in Thread : FlatCall(t)
    BY <1>1 DEF FlatInv, WaitInv
  <2>2. ASSUME NEW t \in Thread, InWait(t, "signalled"), IsQueued(MyLink(t))
        PROVE  FALSE
    <3>1. frames[t] # <<>> /\ Top(t).pc = "signalled"
      BY <2>2 DEF InWait
    <3>2. Top(t) = frames[t][1]
      BY <2>1, <3>1, FlatStack
    <3>3. MyLink(t) = <<t, 1>>
      BY <2>1, <3>1, <3>2 DEF MyLink, FlatCall
    <3>4. PICK s \in SB : <<t, 1>> \in Range(queue[s])
      BY <2>2, <3>3 DEF IsQueued
    <3>5. QueuedWaits(s, t)
      BY <2>1, <3>4 DEF FlatQueues
    <3> QED BY <3>1, <3>2, <3>5 DEF QueuedWaits
  <2> QED BY <2>2 DEF RemovedBySignaller
<1> QED BY <1>1, FlatInvariant, PTL

\* Without rude aborts, the link a pulsing thread still has to read is alive and belongs to
\* a Wait on the monitor it owns.
THEOREM PulsedLinkAliveHolds ==
  ASSUME MaxNesting = 1, MaxRudeAborts = 0
  PROVE  Spec => []PulsedLinkAlive
<1>1. ASSUME FlatInv
      PROVE  PulsedLinkAlive
  <2>1. /\ TypeOK /\ StackFits /\ aborts <= MaxRudeAborts
        /\ \A t \in Thread : FlatCall(t) /\ FlatPulse(t)
    BY <1>1 DEF FlatInv, WaitInv
  <2>2. aborts = 0
    BY <2>1 DEF TypeOK
  <2>3. ASSUME NEW u \in Thread, pulse[u].at = "set"
        PROVE  /\ LinkAlive(pulse[u].link)
               /\ link[pulse[u].link].sb = pulse[u].sb /\ owner[pulse[u].sb] = u
    <3>1. /\ owner[pulse[u].sb] = u /\ \E t \in Thread : PulsedWaits(u, t)
      BY <2>1, <2>3 DEF FlatPulse
    <3>2. PICK t \in Thread : PulsedWaits(u, t)
      BY <3>1
    <3>3. /\ pulse[u].link = <<t, 1>> /\ frames[t] # <<>> /\ frames[t][1].sb = pulse[u].sb
      BY <2>2, <3>2 DEF PulsedWaits
    <3>4. Len(frames[t]) = 1
      BY <2>1, <3>3, FlatStack
    <3>5. LinkAlive(<<t, 1>>)
      <4>1. 1 <= Len(frames[t])
        BY <3>4
      <4>2. <<t, 1>>[1] = t /\ <<t, 1>>[2] = 1
        OBVIOUS
      <4> QED BY <4>1, <4>2 DEF LinkAlive
    <3>6. link[<<t, 1>>].sb = pulse[u].sb
      BY <2>1, <3>3 DEF FlatCall
    <3> QED BY <3>1, <3>3, <3>5, <3>6
  <2> QED BY <2>3 DEF PulsedLinkAlive
<1> QED BY <1>1, FlatInvariant, PTL
==============================================================================
