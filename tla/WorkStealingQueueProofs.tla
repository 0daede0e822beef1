------------------------ MODULE WorkStealingQueueProofs ----------------------
(***************************************************************************)
(* The local queue of a worker hands out every item once, loses none and   *)
(* reports empty only what it has given away, for arrays of any size that  *)
(* double, indices that are masked at the largest integer, and any number  *)
(* of calls.                                                               *)
(*                                                                         *)
(* Items are followed by index, not by array slot: index i stands for slot *)
(* And(i, mask), and indices less than a length apart have different slots *)
(* (AndInjective), so growing and masking move the items but not the order *)
(* of the indices (GrowItems, ResetItems).  Low to High - 1 are the indices*)
(* that may hold items; the owner moves the tail before it knows whether   *)
(* the item is its, a thief the head, hence the many names for the ends of *)
(* this range.  Stock says that the items not handed out are in it, each   *)
(* once; Within, that nothing is outside of it; Denials, that what a call  *)
(* has passed over was handed out or is being handed out.                  *)
(*                                                                         *)
(* The head must not pass the largest index (NoOverflow).  TrySteal does   *)
(* not test for it, hence the hypothesis HeadSafe.  Where it does not hold *)
(* a second thief can make the head negative, and NothingLost is false.    *)
(***************************************************************************)
EXTENDS WorkStealingQueueProps, TLAPS

-----------------------------------------------------------------------------
(* Masked indices.                                                         *)

\* Quotient and remainder.
LEMMA DivMod ==
  ASSUME NEW i \in Int, NEW k \in Nat, 0 < k
  PROVE  (i % k) \in 0..k - 1 /\ \E q \in Int : i = q * k + (i % k)
<1> DEFINE Eq(q) == i = q * k + (i % k)
<1>1. (i % k) \in 0..k - 1
  OBVIOUS
<1>2. (i \div k) \in Int /\ Eq(i \div k)
  OBVIOUS
<1> HIDE DEF Eq
<1>3. \E q \in Int : Eq(q)
  BY <1>2
<1> QED BY <1>1, <1>3 DEF Eq

\* Two multiples that are closer than one step are the same.
LEMMA SameMultiple ==
  ASSUME NEW q \in Int, NEW r \in Int, NEW k \in Nat, 0 < k,
         q * k - r * k < k, r * k - q * k < k
  PROVE  q = r
<1>1. CASE q > r
  <2>1. q - r >= 1
    BY <1>1
  <2>2. (q - r) * k >= k
    BY <2>1
  <2> QED BY <2>2
<1>2. CASE q < r
  <2>1. r - q >= 1
    BY <1>2
  <2>2. (r - q) * k >= k
    BY <2>1
  <2> QED BY <2>2
<1> QED BY <1>1, <1>2

\* A masked index is a slot of the array.
LEMMA AndRange ==
  ASSUME NEW i \in Int, NEW m \in Nat
  PROVE  And(i, m) \in 0..m
BY DivMod DEF And

\* Indices of one array's length apart or less have different slots.
LEMMA AndInjective ==
  ASSUME NEW i \in Int, NEW j \in Int, NEW m \in Nat, And(i, m) = And(j, m),
         i - j <= m, j - i <= m
  PROVE  i = j
<1>0. m + 1 \in Nat /\ 0 < m + 1
  OBVIOUS
<1>1. PICK q \in Int : i = q * (m + 1) + (i % (m + 1))
  BY <1>0, DivMod, Zenon
<1>2. PICK r \in Int : j = r * (m + 1) + (j % (m + 1))
  BY <1>0, DivMod, Zenon
<1>3. (i % (m + 1)) = (j % (m + 1)) /\ (i % (m + 1)) \in Int
  BY DivMod DEF And
<1> DEFINE A == q * (m + 1)
           B == r * (m + 1)
<1>4. A \in Int /\ B \in Int /\ i - j = A - B
  BY <1>1, <1>2, <1>3
<1>5. A - B < m + 1 /\ B - A < m + 1
  BY <1>4
<1>6. q = r
  BY <1>5, SameMultiple
<1> QED BY <1>1, <1>2, <1>3, <1>6

\* An index within the array is its own slot.
LEMMA AndSmall ==
  ASSUME NEW m \in Nat, NEW i \in 0..m
  PROVE  And(i, m) = i
BY DEF And

\* Below an index whose bits are all set, the slots go down with the index.
LEMMA AndBelow ==
  ASSUME NEW x \in Int, NEW m \in Nat, And(x, m) = m, NEW d \in 0..m
  PROVE  And(x - d, m) = m - d
<1>0. m + 1 \in Nat /\ 0 < m + 1 /\ x - d \in Int
  OBVIOUS
<1>1. PICK q \in Int : x = q * (m + 1) + (x % (m + 1))
  BY <1>0, DivMod, Zenon
<1>2. x = q * (m + 1) + m
  BY <1>1 DEF And
<1>3. PICK r \in Int : x - d = r * (m + 1) + ((x - d) % (m + 1))
  BY <1>0, DivMod, Zenon
<1>4. ((x - d) % (m + 1)) \in 0..m
  BY DivMod
<1> DEFINE A == q * (m + 1)
           B == r * (m + 1)
<1>5. A \in Int /\ B \in Int /\ A + m - d = B + ((x - d) % (m + 1))
  BY <1>2, <1>3, <1>4
<1>6. A - B < m + 1 /\ B - A < m + 1
  BY <1>4, <1>5
<1>7. q = r
  BY <1>6, SameMultiple
<1> QED BY <1>5, <1>7 DEF And

\* The last index before the overflow has all bits set.
LEMMA AndMax ==
  ASSUME QueueAssumption
  PROVE  And(MaxIndex, InitialSize - 1) = InitialSize - 1
<1> DEFINE k == InitialSize
<1>1. k \in Nat /\ 0 < k /\ MaxIndex \in Nat /\ ((MaxIndex + 1) % k) = 0
  BY DEF QueueAssumption
<1>2. PICK q \in Int : MaxIndex + 1 = q * k + 0
  <2>1. MaxIndex + 1 \in Int
    BY <1>1
  <2>2. \E q \in Int : MaxIndex + 1 = q * k + ((MaxIndex + 1) % k)
    BY <1>1, <2>1, DivMod, Zenon
  <2> QED BY <1>1, <2>2
<1>3. PICK r \in Int : MaxIndex = r * k + (MaxIndex % k)
  BY <1>1, DivMod
<1>4. (MaxIndex % k) \in 0..k - 1
  BY <1>1, DivMod
<1> DEFINE A == (q - 1) * k
           B == r * k
<1>5. A \in Int /\ B \in Int /\ A + k - 1 = B + (MaxIndex % k)
  BY <1>1, <1>2, <1>3, <1>4
<1>6. A - B < k /\ B - A < k
  BY <1>1, <1>4, <1>5
<1>7. q - 1 = r
  BY <1>1, <1>6, SameMultiple
<1>8. (MaxIndex % k) = k - 1
  BY <1>1, <1>4, <1>5, <1>7
<1> QED BY <1>1, <1>8 DEF And

\* Arithmetic that does not leave the range is exact, and it never rounds up.
LEMMA Int32Exact ==
  ASSUME QueueAssumption, NEW x \in -(MaxIndex + 1)..MaxIndex
  PROVE  Int32(x) = x
BY DEF Int32, QueueAssumption

LEMMA Int32Below ==
  ASSUME QueueAssumption, NEW x \in Nat
  PROVE  Int32(x) \in Int /\ Int32(x) <= x
<1> DEFINE k == 2 * (MaxIndex + 1)
           y == x + MaxIndex + 1
<1>1. k \in Nat /\ 0 < k /\ y \in Nat /\ MaxIndex \in Nat
  BY DEF QueueAssumption
<1>2. (y % k) \in Int /\ (y % k) <= y
  <2>1. (y % k) \in 0..k - 1
    BY <1>1, DivMod
  <2>2. PICK q \in Int : y = q * k + (y % k)
    BY <1>1, DivMod
  <2>3. q >= 0
    <3> SUFFICES ASSUME q < 0 PROVE FALSE
      OBVIOUS
    <3>1. q * k <= (-1) * k
      BY <1>1
    <3> QED BY <3>1, <2>1, <2>2, <1>1
  <2>4. q * k >= 0
    BY <2>3, <1>1
  <2> QED BY <2>1, <2>2, <2>4, <1>1
<1> QED BY <1>1, <1>2 DEF Int32

-----------------------------------------------------------------------------
(* The invariant.                                                          *)

OwnerPCs == {"idle", "lockReset", "resetHead", "resetTail", "room", "store", "publish",
             "lockGrow", "grow", "pop", "exchange", "compare", "read", "clear",
             "lockPop", "recheck", "search", "lockFound", "found"}
ThiefPCs == {"idle", "canSteal", "canStealTail", "tryEnter", "advance", "claim",
             "steal", "stolen"}

\* The owner is in LocalPush.
Pushing == {"lockReset", "resetHead", "resetTail", "room", "store", "publish",
            "lockGrow", "grow"}

\* The owner has lowered the tail in LocalPopCore; Undecided: a thief may have been
\* faster.
Popping   == {"compare", "read", "clear", "lockPop", "recheck"}
Undecided == {"compare", "lockPop", "recheck"}

\* A thief has raised the head in TrySteal.
Claiming == {"claim", "steal", "stolen"}

\* The tail as the reset of the indices leaves it.
Tail == IF pc[Owner] = "resetTail" THEN mask ELSE tail

\* A thief has the lock and claims an item; it has seen that the claim is good.
Claimed == lock \in Thieves /\ pc[lock] \in Claiming
Granted == lock \in Thieves /\ pc[lock] \in {"steal", "stolen"}

\* A thief claims the index below the head, the owner the one at the tail.  Items have
\* indices from Low to below High.
Low  == IF Claimed THEN head - 1 ELSE head
High == IF pc[Owner] \in Popping \cup {"publish"} THEN Tail + 1 ELSE Tail

\* High, with the slot of an item that is about to be stored.
Reach == IF pc[Owner] \in Popping \cup {"store", "publish"} THEN Tail + 1 ELSE Tail

\* Where the queue ends for a thief that claims an item.
End == IF pc[Owner] \in Undecided THEN Tail + 1 ELSE Tail

\* The items pushed, with the one that is stored and not published yet; the most that
\* may be queued after the current push.
Last == IF pc[Owner] = "publish" THEN pushed + 1 ELSE pushed
Most == IF pc[Owner] \in {"store", "publish"} THEN pushed + 1 ELSE pushed

PlacesFit == pc[Owner] \in OwnerPCs /\ \A t \in Thieves : pc[t] \in ThiefPCs

LockFits ==
  /\ pc[Owner] \in {"resetHead", "resetTail", "grow", "recheck", "found"} => lock = Owner
  /\ lock = Owner =>
       pc[Owner] \in {"resetHead", "resetTail", "grow", "recheck", "found",
                      "store", "publish", "read", "clear"}
  /\ \A t \in Thieves : (lock = t) <=> (pc[t] \in Claiming \cup {"advance"})

\* The index the owner and a thief work with.
AtFits ==
  /\ pc[Owner] \in (Pushing \ {"resetTail"}) \cup Popping => at[Owner] = tail
  /\ pc[Owner] = "exchange" => at[Owner] = tail - 1 /\ 0 < tail
  /\ pc[Owner] \in {"lockReset", "resetHead", "resetTail"} => tail = MaxIndex
  /\ pc[Owner] \in {"room", "store", "publish", "lockGrow", "grow"} => tail < MaxIndex
  /\ pc[Owner] = "search" => at[Owner] <= tail - 2
  /\ pc[Owner] \in {"lockFound", "found"} => at[Owner] \in tail - mask..tail - 2

ClaimFits == \A t \in Thieves : pc[t] \in Claiming => at[t] = head - 1

\* Head and tail have not crossed, except by what is claimed, and what lies between
\* them fits the array.  Once the array has grown, the tail stays far from the end.
IndexFits ==
  /\ head \in 0..MaxIndex /\ tail \in 0..MaxIndex /\ 0 < mask
  /\ 0 <= Low /\ Low <= End
  /\ Granted => head <= End
  /\ Reach - head <= mask /\ Reach - head <= Most
  /\ pc[Owner] \in Pushing => pushed < MaxPushes
  /\ pc[Owner] \in Popping \cup {"pop", "exchange"} => 0 < pushed
  /\ mask # InitialSize - 1 => Reach <= Most /\ pc[Owner] # "resetTail"

\* The array has each item that is pushed and not handed out, once.
Stock ==
  /\ \A a \in 0..mask : array[a] # Null => takes[array[a]] = 0 /\ array[a] <= Last
  /\ \A a, b \in 0..mask : array[a] # Null /\ array[a] = array[b] => a = b
  /\ \A n \in 1..Last : takes[n] = 0 => \E a \in 0..mask : array[a] = n
  /\ \A n \in Item : n > pushed => takes[n] = 0

\* Its items lie between the indices.
Within == \A a \in 0..mask : array[a] # Null => \E i \in Low..High - 1 : And(i, mask) = a

\* What a thread has stored or read is in its slot (or, in LocalFindAndPop, gone).
HandFits ==
  /\ pc[Owner] = "publish" => Slot(at[Owner]) = pushed + 1
  /\ pc[Owner] = "clear" => obj[Owner] # Null /\ Slot(at[Owner]) = obj[Owner]
  /\ pc[Owner] \in {"lockFound", "found"} =>
       obj[Owner] # Null /\ Slot(at[Owner]) \in {Null, obj[Owner]}
  /\ pc[Owner] = "search" => obj[Owner] # Null
  /\ \A t \in Thieves : pc[t] = "stolen" => obj[t] # Null /\ Slot(at[t]) = obj[t]

\* The item is about to be taken by the owner or a thief.
Covered(n) ==
  \/ pc[Owner] \in Popping /\ Slot(at[Owner]) = n
  \/ \E t \in Thieves : pc[t] \in Claiming /\ Slot(at[t]) = n

\* What a call did not find, or will not look at, is about to be taken; LocalPush starts
\* afresh, since its caller announces the queue.
DeniedFits  == \A n \in denied \cap Queued : Covered(n)
SkippedFits ==
  \A t \in Thieves : pc[t] = "canStealTail" =>
    \A i \in Low..High - 1 : Slot(i) \in present[t] /\ i < at[t] => Covered(Slot(i))
Denials == pc[Owner] \notin Pushing => DeniedFits /\ SkippedFits

QueueInv ==
  /\ TypeOK /\ TakenOnce /\ PlacesFit /\ LockFits /\ AtFits /\ ClaimFits /\ IndexFits
  /\ Stock /\ Within /\ HandFits /\ Denials

\* No thief is about to move the head past the largest index.
NoOverflow == \A t \in Thieves : pc[t] = "advance" => head < MaxIndex

-----------------------------------------------------------------------------
(* Control: the places of the threads and the lock.                        *)

LEMMA ThreadFacts ==
  ASSUME QueueAssumption
  PROVE  /\ Owner \in Thread /\ Thieves \subseteq Thread /\ Owner \notin Thieves
         /\ NoThread \notin Thread /\ NoThread \notin Thieves /\ NoThread # Owner
BY DEF QueueAssumption, Thread

LEMMA GotoFacts ==
  ASSUME TypeOK, NEW t \in Thread, NEW l, Goto(t, l)
  PROVE  pc'[t] = l /\ \A u \in Thread : u # t => pc'[u] = pc[u]
BY DEF TypeOK, Goto

LEMMA OwnerControl ==
  ASSUME QueueAssumption, QueueInv, OwnerStep
  PROVE  PlacesFit' /\ LockFits'
<1>0. /\ Owner \in Thread /\ Thieves \subseteq Thread /\ Owner \notin Thieves
      /\ NoThread \notin Thieves /\ NoThread # Owner
  BY ThreadFacts
<1>1. TypeOK /\ PlacesFit /\ LockFits
  BY DEF QueueInv
<1> USE <1>0, <1>1 DEF PlacesFit, LockFits, OwnerPCs, Claiming
<1>2. CASE LocalPush
  BY <1>2, GotoFacts DEF LocalPush
<1>3. CASE LockReset
  BY <1>3, GotoFacts DEF LockReset
<1>4. CASE ResetHead
  BY <1>4, GotoFacts DEF ResetHead
<1>5. CASE ResetTail
  BY <1>5, GotoFacts DEF ResetTail
<1>6. CASE Room
  BY <1>6, GotoFacts DEF Room
<1>7. CASE Store
  BY <1>7, GotoFacts DEF Store
<1>8. CASE Publish
  BY <1>8, GotoFacts DEF Publish
<1>9. CASE LockGrow
  BY <1>9, GotoFacts DEF LockGrow
<1>10. CASE Grow
  BY <1>10, GotoFacts DEF Grow
<1>11. CASE LocalPop
  BY <1>11, GotoFacts DEF LocalPop
<1>12. CASE LocalPopCore
  BY <1>12, GotoFacts DEF LocalPopCore, ReturnNull
<1>13. CASE Exchange
  BY <1>13, GotoFacts DEF Exchange
<1>14. CASE Compare
  BY <1>14, GotoFacts DEF Compare
<1>15. CASE Read
  BY <1>15, GotoFacts DEF Read
<1>16. CASE Clear
  BY <1>16, GotoFacts DEF Clear, Return
<1>17. CASE LockPop
  BY <1>17, GotoFacts DEF LockPop
<1>18. CASE Recheck
  BY <1>18, GotoFacts DEF Recheck, ReturnNull
<1>19. CASE \E n \in 1..pushed : LocalFindAndPop(n)
  BY <1>19, GotoFacts DEF LocalFindAndPop
<1>20. CASE Search
  BY <1>20, GotoFacts DEF Search
<1>21. CASE LockFound
  BY <1>21, GotoFacts DEF LockFound
<1>22. CASE Found
  BY <1>22, GotoFacts DEF Found, Return
<1> QED BY <1>2, <1>3, <1>4, <1>5, <1>6, <1>7, <1>8, <1>9, <1>10, <1>11, <1>12, <1>13,
           <1>14, <1>15, <1>16, <1>17, <1>18, <1>19, <1>20, <1>21, <1>22 DEF OwnerStep

LEMMA ThiefControl ==
  ASSUME QueueAssumption, QueueInv, NEW t \in Thieves, ThiefStep(t)
  PROVE  PlacesFit' /\ LockFits'
<1>0. /\ Owner \in Thread /\ Thieves \subseteq Thread /\ Owner \notin Thieves
      /\ NoThread \notin Thieves /\ NoThread # Owner
  BY ThreadFacts
<1>1. TypeOK /\ PlacesFit /\ LockFits
  BY DEF QueueInv
<1> USE <1>0, <1>1 DEF PlacesFit, LockFits, ThiefPCs, Claiming
<1>2. CASE TrySteal(t)
  BY <1>2, GotoFacts DEF TrySteal
<1>3. CASE CanSteal(t)
  BY <1>3, GotoFacts DEF CanSteal
<1>4. CASE CanStealTail(t)
  BY <1>4, GotoFacts DEF CanStealTail, ReturnNull
<1>5. CASE TryEnter(t)
  BY <1>5, GotoFacts DEF TryEnter, Miss
<1>6. CASE Advance(t)
  BY <1>6, GotoFacts DEF Advance
<1>7. CASE Claim(t)
  BY <1>7, GotoFacts DEF Claim, Miss
<1>8. CASE Steal(t)
  BY <1>8, GotoFacts DEF Steal
<1>9. CASE Stolen(t)
  BY <1>9, GotoFacts DEF Stolen, Return
<1> QED BY <1>2, <1>3, <1>4, <1>5, <1>6, <1>7, <1>8, <1>9 DEF ThiefStep

-----------------------------------------------------------------------------
(* The indices.                                                            *)

LEMMA ConstantFacts ==
  ASSUME QueueAssumption
  PROVE  /\ MaxIndex \in Nat /\ InitialSize \in Nat /\ MaxPushes \in Nat
         /\ 1 < InitialSize /\ InitialSize <= MaxIndex
BY DEF QueueAssumption

\* A step of the owner leaves the thieves alone, and what a thief claims.
LEMMA OwnerFrame ==
  ASSUME QueueAssumption, QueueInv, OwnerStep
  PROVE  /\ \A t \in Thieves : pc'[t] = pc[t] /\ at'[t] = at[t] /\ obj'[t] = obj[t]
         /\ Claimed => lock' = lock /\ head' = head /\ mask' = mask
         /\ Claimed' = Claimed /\ Granted' = Granted
<1>0. /\ Owner \in Thread /\ Thieves \subseteq Thread /\ Owner \notin Thieves
      /\ NoThread \notin Thieves /\ NoThread # Owner
  BY ThreadFacts
<1>1. TypeOK /\ LockFits
  BY DEF QueueInv
<1>2. \A t \in Thieves : pc'[t] = pc[t] /\ at'[t] = at[t] /\ obj'[t] = obj[t]
  <2> USE <1>0, <1>1, GotoFacts DEF TypeOK
  <2>1. CASE LocalPush \/ LockReset \/ ResetHead \/ ResetTail \/ Room \/ Store \/ Publish
    BY <2>1 DEF LocalPush, LockReset, ResetHead, ResetTail, Room, Store, Publish
  <2>2. CASE LockGrow \/ Grow \/ LocalPop \/ LocalPopCore \/ Exchange \/ Compare
    BY <2>2 DEF LockGrow, Grow, LocalPop, LocalPopCore, ReturnNull, Exchange, Compare
  <2>3. CASE Read \/ Clear \/ LockPop \/ Recheck
    BY <2>3 DEF Read, Clear, Return, LockPop, Recheck, ReturnNull
  <2>4. CASE \E n \in 1..pushed : LocalFindAndPop(n)
    BY <2>4 DEF LocalFindAndPop
  <2>5. CASE Search \/ LockFound \/ Found
    BY <2>5 DEF Search, LockFound, Found, Return
  <2> QED BY <2>1, <2>2, <2>3, <2>4, <2>5 DEF OwnerStep
<1>3. /\ lock \in Thieves => lock' = lock /\ head' = head /\ mask' = mask
      /\ lock' \in Thieves => lock' = lock
  <2> USE <1>0, <1>1 DEF LockFits
  <2>1. CASE LocalPush \/ LockReset \/ ResetHead \/ ResetTail \/ Room \/ Store \/ Publish
    BY <2>1 DEF LocalPush, LockReset, ResetHead, ResetTail, Room, Store, Publish
  <2>2. CASE LockGrow \/ Grow \/ LocalPop \/ LocalPopCore \/ Exchange \/ Compare
    BY <2>2 DEF LockGrow, Grow, LocalPop, LocalPopCore, ReturnNull, Exchange, Compare
  <2>3. CASE Read \/ Clear \/ LockPop \/ Recheck
    BY <2>3 DEF Read, Clear, Return, LockPop, Recheck, ReturnNull
  <2>4. CASE \E n \in 1..pushed : LocalFindAndPop(n)
    BY <2>4 DEF LocalFindAndPop
  <2>5. CASE Search \/ LockFound \/ Found
    BY <2>5 DEF Search, LockFound, Found, Return
  <2> QED BY <2>1, <2>2, <2>3, <2>4, <2>5 DEF OwnerStep
<1> QED BY <1>2, <1>3 DEF Claimed, Granted

LEMMA OwnerIndices ==
  ASSUME QueueAssumption, MaxPushes <= MaxIndex, QueueInv, OwnerStep
  PROVE  AtFits' /\ ClaimFits' /\ IndexFits'
<1>0. /\ Owner \in Thread /\ NoThread \notin Thieves /\ NoThread # Owner
      /\ Owner \notin Thieves
  BY ThreadFacts
<1>1. TypeOK /\ AtFits /\ ClaimFits /\ IndexFits
  BY DEF QueueInv
<1>a. /\ mask \in Nat /\ head \in Int /\ tail \in Int /\ pushed \in Nat
      /\ at[Owner] \in Int
      /\ pc[Owner] \in OwnerPCs /\ at \in [Thread -> Int]
  BY <1>0, <1>1 DEF TypeOK, PlacesFit, QueueInv
<1>b. /\ \A t \in Thieves : pc'[t] = pc[t] /\ at'[t] = at[t]
      /\ Claimed => lock' = lock /\ head' = head /\ mask' = mask
      /\ Claimed' = Claimed /\ Granted' = Granted
  BY OwnerFrame
<1>c. /\ MaxIndex \in Nat /\ InitialSize \in Nat /\ MaxPushes \in Nat
      /\ 1 < InitialSize /\ InitialSize <= MaxIndex
  BY ConstantFacts
<1>d. lock \in {Owner, NoThread} => ~Claimed /\ ~Granted
  BY <1>0 DEF Claimed, Granted
<1>e. pc[Owner] \in {"resetHead", "resetTail", "grow", "recheck", "found"} => lock = Owner
  BY DEF QueueInv, LockFits
<1>f. ClaimFits'
  <2> SUFFICES ASSUME NEW t \in Thieves, pc'[t] \in Claiming
               PROVE  at'[t] = head' - 1
    BY DEF ClaimFits
  <2>1. pc[t] \in Claiming
    BY <1>b
  <2>2. lock = t
    BY <2>1 DEF QueueInv, LockFits
  <2>3. Claimed
    BY <2>1, <2>2 DEF Claimed
  <2> QED BY <1>1, <1>b, <2>1, <2>3 DEF ClaimFits
<1> USE <1>0, <1>a, <1>c
<1> USE DEF Pushing, Popping, Undecided, Tail, Low, End, Reach, Most, AtFits, IndexFits
<1>2. CASE LocalPush
  <2>1. /\ pc[Owner] = "idle" /\ pushed < MaxPushes
        /\ pc'[Owner] = IF tail = MaxIndex THEN "lockReset" ELSE "room"
        /\ at'[Owner] = tail
        /\ UNCHANGED <<mask, head, tail, pushed>>
    BY <1>1, <1>2, GotoFacts DEF LocalPush, History
  <2> QED BY <1>1, <1>b, <1>f, <2>1
<1>3. CASE LockReset
  <2>1. /\ pc[Owner] = "lockReset" /\ pc'[Owner] = "resetHead"
        /\ UNCHANGED <<mask, head, tail, pushed, at>>
    BY <1>1, <1>3, GotoFacts DEF LockReset, History
  <2> QED BY <1>1, <1>b, <1>f, <2>1
<1>4. CASE ResetHead
  <2>1. /\ pc[Owner] = "resetHead" /\ pc'[Owner] = "resetTail"
        /\ head' = And(head, mask)
        /\ UNCHANGED <<mask, tail, pushed, at>>
    BY <1>1, <1>4, GotoFacts DEF ResetHead, History
  <2>2. ~Claimed /\ ~Granted
    BY <2>1, <1>d, <1>e
  <2>3. tail = MaxIndex /\ mask = InitialSize - 1 /\ MaxIndex - head \in 0..mask
    BY <1>1, <2>1, <2>2
  <2>4. And(MaxIndex - (MaxIndex - head), mask) = mask - (MaxIndex - head)
    BY <2>3, AndBelow, AndMax
  <2>5. head' = mask - (MaxIndex - head)
    BY <2>1, <2>4
  <2> QED BY <1>1, <1>b, <1>f, <2>1, <2>2, <2>3, <2>5
<1>5. CASE ResetTail
  <2>1. /\ pc[Owner] = "resetTail" /\ pc'[Owner] = "room"
        /\ tail' = And(tail, mask) /\ at'[Owner] = And(tail, mask)
        /\ UNCHANGED <<mask, head, pushed>>
    BY <1>1, <1>5, GotoFacts DEF ResetTail, History
  <2>2. ~Claimed /\ ~Granted
    BY <2>1, <1>d, <1>e
  <2>3. And(tail, mask) = mask /\ mask = InitialSize - 1
    BY <1>1, <2>1, AndMax
  <2> QED BY <1>1, <1>b, <1>f, <2>1, <2>2, <2>3
<1>6. CASE Room
  <2>1. /\ pc[Owner] = "room"
        /\ pc'[Owner] = IF at[Owner] < Int32(head + mask) THEN "store" ELSE "lockGrow"
        /\ UNCHANGED <<mask, head, tail, pushed, at>>
    BY <1>1, <1>6, GotoFacts DEF Room, History
  <2>2. Int32(head + mask) \in Int /\ Int32(head + mask) <= head + mask
    BY <1>1, Int32Below
  <2> QED BY <1>1, <1>b, <1>f, <2>1, <2>2
<1>7. CASE Store
  <2>1. /\ pc[Owner] = "store" /\ pc'[Owner] = "publish"
        /\ UNCHANGED <<mask, head, tail, pushed, at>>
    BY <1>1, <1>7, GotoFacts DEF Store, History
  <2> QED BY <1>1, <1>b, <1>f, <2>1
<1>8. CASE Publish
  <2>1. /\ pc[Owner] = "publish" /\ pc'[Owner] = "idle"
        /\ tail' = at[Owner] + 1 /\ pushed' = pushed + 1
        /\ UNCHANGED <<mask, head>>
    BY <1>1, <1>8, GotoFacts DEF Publish
  <2> QED BY <1>1, <1>b, <1>f, <2>1
<1>9. CASE LockGrow
  <2>1. /\ pc[Owner] = "lockGrow" /\ pc'[Owner] = "grow"
        /\ UNCHANGED <<mask, head, tail, pushed, at>>
    BY <1>1, <1>9, GotoFacts DEF LockGrow, History
  <2> QED BY <1>1, <1>b, <1>f, <2>1
<1>10. CASE Grow
  <2>1. pc[Owner] = "grow" /\ pc'[Owner] = "store" /\ pushed' = pushed
    BY <1>1, <1>10, GotoFacts DEF Grow, History
  <2>2. ~Claimed /\ ~Granted
    BY <2>1, <1>d, <1>e
  <2>3. tail - head \in 0..mask
    BY <1>1, <2>1, <2>2
  <2>4. Int32(tail - head) = tail - head
    BY <1>1, <2>3, Int32Exact
  <2>5. CASE tail - head >= mask
    <3>1. /\ mask' = 2 * mask + 1 /\ head' = 0 /\ tail' = tail - head
          /\ at'[Owner] = tail - head
      BY <1>10, <2>4, <2>5 DEF Grow
    <3> QED BY <1>1, <1>b, <1>f, <2>1, <2>2, <2>3, <2>5, <3>1
  <2>6. CASE ~(tail - head >= mask)
    <3>1. UNCHANGED <<mask, head, tail, at>>
      BY <1>10, <2>4, <2>6 DEF Grow
    <3> QED BY <1>1, <1>b, <1>f, <2>1, <2>2, <2>3, <2>6, <3>1
  <2> QED BY <2>5, <2>6
<1>11. CASE LocalPop
  <2>1. /\ pc[Owner] = "idle"
        /\ (pc'[Owner] = "pop" /\ head < tail) \/ pc'[Owner] = "idle"
        /\ UNCHANGED <<mask, head, tail, pushed, at>>
    BY <1>1, <1>11, GotoFacts DEF LocalPop
  <2> QED BY <1>1, <1>b, <1>f, <2>1
<1>12. CASE LocalPopCore
  <2>1. pc[Owner] = "pop" /\ UNCHANGED <<mask, head, tail, pushed>>
    BY <1>12 DEF LocalPopCore
  <2>2. CASE head >= tail
    <3>1. pc'[Owner] = "idle"
      BY <1>1, <1>12, <2>2, GotoFacts DEF LocalPopCore, ReturnNull
    <3> QED BY <1>1, <1>b, <1>f, <2>1, <3>1
  <2>3. CASE ~(head >= tail)
    <3>1. pc'[Owner] = "exchange" /\ at'[Owner] = tail - 1
      BY <1>1, <1>12, <2>3, GotoFacts DEF LocalPopCore
    <3> QED BY <1>1, <1>b, <1>f, <2>1, <2>3, <3>1
  <2> QED BY <2>2, <2>3
<1>13. CASE Exchange
  <2>1. /\ pc[Owner] = "exchange" /\ pc'[Owner] = "compare" /\ tail' = at[Owner]
        /\ UNCHANGED <<mask, head, pushed, at>>
    BY <1>1, <1>13, GotoFacts DEF Exchange, History
  <2> QED BY <1>1, <1>b, <1>f, <2>1
<1>14. CASE Compare
  <2>1. /\ pc[Owner] = "compare"
        /\ pc'[Owner] = IF head <= at[Owner] THEN "read" ELSE "lockPop"
        /\ UNCHANGED <<mask, head, tail, pushed, at>>
    BY <1>1, <1>14, GotoFacts DEF Compare, History
  <2> QED BY <1>1, <1>b, <1>f, <2>1
<1>15. CASE Read
  <2>1. /\ pc[Owner] = "read" /\ pc'[Owner] \in {"pop", "clear"}
        /\ UNCHANGED <<mask, head, tail, pushed, at>>
    BY <1>1, <1>15, GotoFacts DEF Read, History
  <2> QED BY <1>1, <1>b, <1>f, <2>1
<1>16. CASE Clear
  <2>1. /\ pc[Owner] = "clear" /\ pc'[Owner] = "idle"
        /\ UNCHANGED <<mask, head, tail, pushed, at>>
    BY <1>1, <1>16, GotoFacts DEF Clear, Return
  <2> QED BY <1>1, <1>b, <1>f, <2>1
<1>17. CASE LockPop
  <2>1. /\ pc[Owner] = "lockPop" /\ pc'[Owner] = "recheck"
        /\ UNCHANGED <<mask, head, tail, pushed, at>>
    BY <1>1, <1>17, GotoFacts DEF LockPop, History
  <2> QED BY <1>1, <1>b, <1>f, <2>1
<1>18. CASE Recheck
  <2>1. pc[Owner] = "recheck" /\ UNCHANGED <<mask, head, pushed, at>>
    BY <1>18 DEF Recheck
  <2>2. CASE head <= at[Owner]
    <3>1. pc'[Owner] = "read" /\ tail' = tail
      BY <1>1, <1>18, <2>2, GotoFacts DEF Recheck
    <3> QED BY <1>1, <1>b, <1>d, <1>e, <1>f, <2>1, <2>2, <3>1
  <2>3. CASE ~(head <= at[Owner])
    <3>1. pc'[Owner] = "idle" /\ tail' = at[Owner] + 1
      BY <1>1, <1>18, <2>3, GotoFacts DEF Recheck, ReturnNull
    <3> QED BY <1>1, <1>b, <1>d, <1>e, <1>f, <2>1, <2>3, <3>1
  <2> QED BY <2>2, <2>3
<1>19. CASE \E n \in 1..pushed : LocalFindAndPop(n)
  <2>1. pc[Owner] = "idle" /\ 0 < pushed /\ UNCHANGED <<mask, head, tail, pushed>>
    BY <1>19 DEF LocalFindAndPop
  <2>2. \/ pc'[Owner] \in {"idle", "pop"}
        \/ pc'[Owner] = "search" /\ at'[Owner] = tail - 2
    BY <1>1, <1>19, GotoFacts DEF LocalFindAndPop
  <2> QED BY <1>1, <1>b, <1>f, <2>1, <2>2
<1>20. CASE Search
  <2>1. pc[Owner] = "search" /\ UNCHANGED <<mask, head, tail, pushed>>
    BY <1>20 DEF Search, History
  <2>2. \/ pc'[Owner] = "idle"
        \/ pc'[Owner] = "lockFound" /\ at'[Owner] = at[Owner] /\ head <= at[Owner]
        \/ pc'[Owner] = "search" /\ at'[Owner] = Int32(at[Owner] - 1) /\ head <= at[Owner]
    BY <1>1, <1>20, GotoFacts DEF Search
  <2>3. head <= at[Owner] => Int32(at[Owner] - 1) = at[Owner] - 1
    BY <1>1, <2>1, Int32Exact
  <2> QED BY <1>1, <1>b, <1>f, <2>1, <2>2, <2>3
<1>21. CASE LockFound
  <2>1. /\ pc[Owner] = "lockFound" /\ pc'[Owner] = "found"
        /\ UNCHANGED <<mask, head, tail, pushed, at>>
    BY <1>1, <1>21, GotoFacts DEF LockFound, History
  <2> QED BY <1>1, <1>b, <1>f, <2>1
<1>22. CASE Found
  <2>1. /\ pc[Owner] = "found" /\ pc'[Owner] = "idle" /\ UNCHANGED <<mask, pushed, at>>
    BY <1>1, <1>22, GotoFacts DEF Found, Return
  <2>2. /\ tail' = tail
        /\ \/ head' = head
           \/ at[Owner] = head /\ head' = head + 1
    BY <1>1, <1>22, <2>1 DEF Found
  <2> QED BY <1>1, <1>b, <1>d, <1>e, <1>f, <2>1, <2>2
<1> QED BY <1>2, <1>3, <1>4, <1>5, <1>6, <1>7, <1>8, <1>9, <1>10, <1>11, <1>12, <1>13,
           <1>14, <1>15, <1>16, <1>17, <1>18, <1>19, <1>20, <1>21, <1>22 DEF OwnerStep

\* A step of a thief leaves the owner alone, and the other thieves.
LEMMA ThiefFrame ==
  ASSUME QueueAssumption, QueueInv, NEW t \in Thieves, ThiefStep(t)
  PROVE  /\ pc'[Owner] = pc[Owner] /\ at'[Owner] = at[Owner] /\ obj'[Owner] = obj[Owner]
         /\ \A u \in Thieves : u # t =>
              pc'[u] = pc[u] /\ at'[u] = at[u] /\ obj'[u] = obj[u]
         /\ UNCHANGED <<mask, tail, pushed, finds>>
         /\ lock \notin {t, NoThread} => lock' = lock /\ head' = head
<1>0. Owner \in Thread /\ Thieves \subseteq Thread /\ Owner \notin Thieves
  BY ThreadFacts
<1>1. TypeOK /\ LockFits
  BY DEF QueueInv
<1> USE <1>0, <1>1, GotoFacts DEF TypeOK
<1>2. CASE TrySteal(t) \/ CanSteal(t) \/ CanStealTail(t) \/ TryEnter(t)
  BY <1>2 DEF TrySteal, CanSteal, CanStealTail, ReturnNull, TryEnter, Miss, History
<1>3. CASE Advance(t) \/ Claim(t) \/ Steal(t) \/ Stolen(t)
  BY <1>3 DEF Advance, Claim, Miss, Steal, Stolen, Return, History, LockFits, Claiming
<1> QED BY <1>2, <1>3 DEF ThiefStep

\* What each step of a thief does to the head and to the claim.
LEMMA ThiefMoves ==
  ASSUME QueueAssumption, QueueInv, NoOverflow, NEW t \in Thieves, ThiefStep(t)
  PROVE  \/ /\ UNCHANGED head /\ Claimed' = Claimed /\ Granted' = Granted
            /\ lock' = t => pc'[t] \notin Claiming \/ pc[t] \in Claiming
            /\ pc'[t] \in Claiming => at'[t] = at[t] /\ pc[t] \in Claiming
         \/ /\ pc[t] = "advance" /\ ~Claimed /\ head < MaxIndex
            /\ head' = head + 1 /\ at'[t] = head /\ Claimed' /\ ~Granted'
         \/ /\ pc[t] = "claim" /\ Claimed /\ at[t] < tail
            /\ UNCHANGED head /\ at'[t] = at[t] /\ Claimed' /\ Granted'
         \/ /\ pc[t] = "claim" /\ Claimed /\ at[t] >= tail
            /\ head' = at[t] /\ ~Claimed' /\ ~Granted' /\ pc'[t] = "idle"
         \/ /\ pc[t] = "steal" /\ Claimed /\ Granted /\ Slot(at[t]) = Null
            /\ UNCHANGED head /\ ~Claimed' /\ ~Granted' /\ pc'[t] = "canSteal"
         \/ /\ pc[t] = "stolen" /\ Claimed /\ Granted
            /\ UNCHANGED head /\ ~Claimed' /\ ~Granted' /\ pc'[t] = "idle"
<1>0. /\ t \in Thread /\ NoThread \notin Thieves
      /\ \A u \in Thieves : (lock = u) <=> (pc[u] \in Claiming \cup {"advance"})
  BY ThreadFacts DEF QueueInv, LockFits
<1>1. TypeOK
  BY DEF QueueInv
<1>2. \A u \in Thieves : u # t => pc'[u] = pc[u]
  BY ThiefFrame
<1>a. head \in 0..MaxIndex /\ tail \in Int /\ at[t] \in Int /\ MaxIndex \in Nat
  BY <1>0, <1>1, ConstantFacts DEF TypeOK, QueueInv, IndexFits
<1> USE <1>0, <1>1, <1>2, GotoFacts DEF Claimed, Granted, Claiming
<1>3. CASE TrySteal(t)
  BY <1>3 DEF TrySteal
<1>4. CASE CanSteal(t)
  BY <1>4 DEF CanSteal
<1>5. CASE CanStealTail(t)
  BY <1>5 DEF CanStealTail, ReturnNull
<1>6. CASE TryEnter(t)
  BY <1>6 DEF TryEnter, Miss
<1>7. CASE Advance(t)
  <2>1. head < MaxIndex
    BY <1>7 DEF Advance, NoOverflow
  <2>2. Int32(head + 1) = head + 1
    BY <1>a, <2>1, Int32Exact
  <2> QED BY <1>7, <2>1, <2>2 DEF Advance, TypeOK
<1>8. CASE Claim(t)
  <2>1. CASE at[t] < tail
    BY <1>8, <2>1 DEF Claim
  <2>2. CASE ~(at[t] < tail)
    BY <1>a, <1>8, <2>2 DEF Claim, Miss
  <2> QED BY <2>1, <2>2
<1>9. CASE Steal(t)
  BY <1>9 DEF Steal
<1>10. CASE Stolen(t)
  BY <1>10 DEF Stolen, Return
<1> QED BY <1>3, <1>4, <1>5, <1>6, <1>7, <1>8, <1>9, <1>10 DEF ThiefStep

LEMMA ThiefIndices ==
  ASSUME QueueAssumption, QueueInv, NoOverflow, NEW t \in Thieves, ThiefStep(t)
  PROVE  AtFits' /\ ClaimFits' /\ IndexFits'
<1>0. /\ Owner \in Thread /\ t \in Thread /\ MaxIndex \in Nat /\ InitialSize \in Nat
      /\ NoThread \notin Thieves
  BY ThreadFacts, ConstantFacts
<1>1. TypeOK /\ AtFits /\ ClaimFits /\ IndexFits /\ LockFits
  BY DEF QueueInv
<1>2. /\ pc'[Owner] = pc[Owner] /\ at'[Owner] = at[Owner]
      /\ \A u \in Thieves : u # t => pc'[u] = pc[u] /\ at'[u] = at[u]
      /\ UNCHANGED <<mask, tail, pushed>>
      /\ lock \notin {t, NoThread} => lock' = lock /\ head' = head
  BY ThiefFrame
<1>a. /\ mask \in Nat /\ head \in Int /\ tail \in Int /\ pushed \in Nat /\ at[t] \in Int
  BY <1>0, <1>1 DEF TypeOK
<1>3. AtFits'
  BY <1>1, <1>2 DEF AtFits
<1>4. ClaimFits'
  <2>1. ASSUME NEW u \in Thieves, u # t, pc'[u] \in Claiming
        PROVE  at'[u] = head' - 1
    <3>1. pc[u] \in Claiming /\ at'[u] = at[u]
      BY <1>2, <2>1
    <3>2. lock = u
      BY <1>1, <3>1 DEF LockFits
    <3> QED BY <1>0, <1>1, <1>2, <2>1, <3>1, <3>2 DEF ClaimFits
  <2>2. ASSUME pc'[t] \in Claiming
        PROVE  at'[t] = head' - 1
    <3>1. pc[t] \in Claiming => at[t] = head - 1
      BY <1>1 DEF ClaimFits
    <3> QED BY <1>a, <2>2, <3>1, ThiefMoves DEF Claiming
  <2> QED BY <2>1, <2>2 DEF ClaimFits
<1>5. pc[t] = "claim" => at[t] = head - 1
  BY <1>1 DEF ClaimFits, Claiming
<1>6. Claimed => pc[Owner] # "resetTail"
  BY <1>1, ThreadFacts DEF Claimed, LockFits
<1>7. IndexFits'
  <2> USE <1>0, <1>a, <1>1, <1>2
  <2> USE DEF Pushing, Popping, Undecided, Tail, Low, End, Reach, Most, IndexFits
  <2>1. CASE /\ UNCHANGED head /\ Claimed' = Claimed /\ Granted' = Granted
    BY <2>1
  <2>2. CASE ~Claimed /\ head < MaxIndex /\ head' = head + 1 /\ Claimed' /\ ~Granted'
    BY <2>2
  <2>3. CASE pc[t] = "claim" /\ Claimed /\ at[t] < tail /\ UNCHANGED head /\ Claimed' /\ Granted'
    BY <1>5, <1>6, <2>3
  <2>4. CASE pc[t] = "claim" /\ Claimed /\ at[t] >= tail /\ head' = at[t] /\ ~Claimed' /\ ~Granted'
    BY <1>5, <1>6, <2>4
  <2>5. CASE Claimed /\ Granted /\ UNCHANGED head /\ ~Claimed' /\ ~Granted'
    BY <2>5
  <2> QED BY <2>1, <2>2, <2>3, <2>4, <2>5, ThiefMoves
<1> QED BY <1>3, <1>4, <1>7

-----------------------------------------------------------------------------
(* The items.                                                              *)

\* The item at index i leaves the array and is handed out.
HandOut(i) ==
  /\ array' = [array EXCEPT ![And(i, mask)] = Null]
  /\ takes' = [takes EXCEPT ![Slot(i)] = @ + 1]

\* An item that keeps its slot and lies between the new indices is still in stock.
LEMMA ItemsKept ==
  ASSUME TypeOK, Stock, Within, TakenOnce, UNCHANGED <<array, mask, takes>>, Last' = Last,
         pushed' \in Int, pushed <= pushed',
         \A i \in Low..High - 1 : Slot(i) # Null => i \in (Low..High - 1)'
  PROVE  Stock' /\ Within' /\ TakenOnce'
<1>1. TakenOnce'
  BY DEF TakenOnce
<1>2. Stock'
  BY DEF Stock, TypeOK, Item
<1>3. Within'
  <2> SUFFICES ASSUME NEW a \in 0..mask, array[a] # Null
               PROVE  \E i \in (Low..High - 1)' : And(i, mask) = a
    BY DEF Within
  <2>1. PICK i \in Low..High - 1 : And(i, mask) = a
    BY DEF Within
  <2>2. Slot(i) # Null
    BY <2>1 DEF Slot
  <2> QED BY <2>1, <2>2
<1> QED BY <1>1, <1>2, <1>3

\* So are the other items when one is handed out, and that one for the first time.
LEMMA ItemOut ==
  ASSUME QueueAssumption, TypeOK, Stock, Within, TakenOnce,
         NEW i \in Int, Slot(i) # Null, HandOut(i),
         UNCHANGED <<mask, pushed>>, Last' = Last, Last <= MaxPushes, Slot(i) <= pushed,
         \A j \in Low..High - 1 :
           Slot(j) # Null /\ And(j, mask) # And(i, mask) => j \in (Low..High - 1)'
  PROVE  Stock' /\ Within' /\ TakenOnce'
<1> DEFINE s == And(i, mask)
           n == array[s]
<1>0. /\ mask \in Nat /\ s \in 0..mask /\ pushed \in 0..MaxPushes
      /\ array \in [0..mask -> Item \cup {Null}] /\ takes \in [Item -> Nat]
  BY AndRange DEF TypeOK
<1>1. n \in Item /\ n # Null
  BY <1>0 DEF Slot
<1>2. \A a \in 0..mask : array'[a] = IF a = s THEN Null ELSE array[a]
  BY <1>0 DEF HandOut
<1>3. \A m \in Item : takes'[m] = IF m = n THEN takes[n] + 1 ELSE takes[m]
  BY <1>0, <1>1 DEF HandOut, Slot
<1>4. takes[n] = 0 /\ n <= pushed
  BY <1>0, <1>1 DEF Stock, Slot
<1>5. Last \in Int
  BY <1>0 DEF Last
<1> HIDE DEF s, n
<1>6. \A a \in 0..mask : array[a] = n => a = s
  BY <1>0, <1>1 DEF Stock, n
<1>7. TakenOnce'
  BY <1>0, <1>3, <1>4 DEF TakenOnce
<1>8. Stock'
  <2>1. \A a \in 0..mask : array'[a] # Null =>
          takes'[array'[a]] = 0 /\ array'[a] <= Last
    <3> SUFFICES ASSUME NEW a \in 0..mask, array'[a] # Null
                 PROVE  takes'[array'[a]] = 0 /\ array'[a] <= Last
      OBVIOUS
    <3>1. a # s /\ array'[a] = array[a] /\ array[a] \in Item /\ array[a] # Null
      BY <1>0, <1>2
    <3>2. array[a] # n
      BY <1>6, <3>1
    <3>3. takes[array[a]] = 0 /\ array[a] <= Last
      BY <3>1 DEF Stock
    <3> QED BY <1>3, <3>1, <3>2, <3>3
  <2>2. \A a, b \in 0..mask : array'[a] # Null /\ array'[a] = array'[b] => a = b
    BY <1>2 DEF Stock
  <2>3. \A m \in 1..Last : takes'[m] = 0 => \E a \in 0..mask : array'[a] = m
    <3> SUFFICES ASSUME NEW m \in 1..Last, takes'[m] = 0
                 PROVE  \E a \in 0..mask : array'[a] = m
      OBVIOUS
    <3>1. m \in Item
      BY <1>5, ConstantFacts DEF Item
    <3>2. m # n /\ takes[m] = 0
      BY <1>0, <1>3, <1>4, <3>1
    <3>3. PICK a \in 0..mask : array[a] = m
      BY <3>2 DEF Stock
    <3>4. a # s
      BY <3>2, <3>3 DEF n
    <3> QED BY <1>2, <3>3, <3>4
  <2>4. \A m \in Item : m > pushed => takes'[m] = 0
    BY <1>0, <1>1, <1>3, <1>4 DEF Stock, Item
  <2> QED BY <2>1, <2>2, <2>3, <2>4 DEF Stock
<1>9. Within'
  <2> SUFFICES ASSUME NEW a \in 0..mask, array'[a] # Null
               PROVE  \E j \in (Low..High - 1)' : And(j, mask) = a
    BY DEF Within
  <2>1. a # s /\ array[a] # Null
    BY <1>2
  <2>2. PICK j \in Low..High - 1 : And(j, mask) = a
    BY <2>1 DEF Within
  <2>3. Slot(j) # Null /\ And(j, mask) # And(i, mask)
    BY <2>1, <2>2 DEF Slot, s
  <2> QED BY <2>2, <2>3
<1> QED BY <1>7, <1>8, <1>9

\* Below the head and from the tail on there is no item: the slot that LocalPush writes
\* is free.
LEMMA FreeSlot ==
  ASSUME QueueAssumption, QueueInv, pc[Owner] = "store"
  PROVE  Slot(at[Owner]) = Null
<1>1. /\ mask \in Nat /\ head \in Int /\ tail \in Int
      /\ at[Owner] = tail /\ High = tail /\ Low \in {head, head - 1} /\ tail + 1 - head <= mask
  BY DEF QueueInv, TypeOK, AtFits, IndexFits, Pushing, Popping, High, Low, Reach, Tail
<1>2. And(tail, mask) \in 0..mask
  BY <1>1, AndRange
<1> SUFFICES ASSUME array[And(tail, mask)] # Null PROVE FALSE
  BY <1>1 DEF Slot
<1>3. PICK i \in Low..High - 1 : And(i, mask) = And(tail, mask)
  BY <1>2 DEF QueueInv, Within
<1>4. i \in Int /\ i < tail /\ tail - i <= mask /\ i - tail <= mask
  BY <1>1, <1>3
<1> QED BY <1>1, <1>3, <1>4, AndInjective

\* The array grows: each item moves down by the head.
LEMMA GrowItems ==
  ASSUME QueueAssumption, QueueInv, Grow
  PROVE  Stock' /\ Within' /\ TakenOnce'
<1>0. /\ Owner \in Thread /\ Owner \notin Thieves
      /\ TypeOK /\ Stock /\ Within /\ TakenOnce /\ AtFits /\ IndexFits
  BY ThreadFacts DEF QueueInv
<1>1. /\ pc[Owner] = "grow" /\ pc'[Owner] = "store" /\ UNCHANGED <<pushed, takes, lock>>
  BY <1>0, GotoFacts DEF Grow, History
<1>2. ~Claimed /\ ~Claimed'
  BY <1>0, <1>1 DEF QueueInv, LockFits, Claimed
<1>3. /\ mask \in Nat /\ head \in 0..MaxIndex /\ tail \in 0..MaxIndex /\ MaxIndex \in Nat
      /\ pushed \in 0..MaxPushes
      /\ Low = head /\ High = tail /\ tail - head \in 0..mask /\ Last = pushed
      /\ Last' = pushed /\ Low' = head' /\ High' = tail'
  BY <1>0, <1>1, <1>2, ConstantFacts
     DEF TypeOK, IndexFits, Low, High, Tail, Reach, End, Undecided, Popping, Last
<1>4. Int32(tail - head) = tail - head
  BY <1>3, Int32Exact
<1>5. CASE ~(tail - head >= mask)
  <2>1. UNCHANGED <<array, mask, head, tail>>
    BY <1>4, <1>5 DEF Grow
  <2> QED BY <1>0, <1>1, <1>3, <2>1, ItemsKept
<1>6. CASE tail - head >= mask
  <2>1. /\ mask' = 2 * mask + 1 /\ head' = 0 /\ tail' = tail - head
        /\ array' = [i \in 0..2 * mask + 1 |-> IF i <= mask THEN Slot(i + head) ELSE Null]
    BY <1>4, <1>6 DEF Grow
  <2>2. ASSUME NEW i \in 0..mask PROVE And(i + head, mask) \in 0..mask
    <3>1. i + head \in Int
      BY <1>3
    <3> QED BY <1>3, <3>1, AndRange
  <2>3. \A a \in 0..mask' :
          array'[a] = IF a <= mask THEN array[And(a + head, mask)] ELSE Null
    BY <1>3, <2>1 DEF Slot
  <2>4. ASSUME NEW a \in 0..mask', array'[a] # Null
        PROVE  a \in 0..mask /\ array'[a] = array[And(a + head, mask)]
    BY <1>3, <2>1, <2>3, <2>4
  <2>5. \A a \in 0..mask' : array'[a] # Null => takes[array'[a]] = 0 /\ array'[a] <= pushed
    BY <1>0, <1>3, <2>2, <2>4 DEF Stock
  <2>6. \A a, b \in 0..mask' : array'[a] # Null /\ array'[a] = array'[b] => a = b
    <3> SUFFICES ASSUME NEW a \in 0..mask', NEW b \in 0..mask',
                        array'[a] # Null, array'[a] = array'[b]
                 PROVE  a = b
      OBVIOUS
    <3>1. /\ a \in 0..mask /\ b \in 0..mask
          /\ array'[a] = array[And(a + head, mask)] /\ array'[b] = array[And(b + head, mask)]
      BY <2>4
    <3>2. And(a + head, mask) = And(b + head, mask)
      BY <1>0, <2>2, <3>1 DEF Stock
    <3>3. /\ a + head \in Int /\ b + head \in Int
          /\ (a + head) - (b + head) <= mask /\ (b + head) - (a + head) <= mask
      BY <1>3, <3>1
    <3>4. a + head = b + head
      BY <1>3, <3>2, <3>3, AndInjective
    <3> QED BY <1>3, <3>1, <3>4
  <2>7. ASSUME NEW a \in 0..mask, array[a] # Null
        PROVE  \E b \in 0..tail - head - 1 : b \in 0..mask' /\ array'[b] = array[a]
    <3>1. PICK i \in head..tail - 1 : And(i, mask) = a
      BY <1>0, <1>3, <2>7 DEF Within
    <3>2. PICK b \in Int : b = i - head
      BY <1>3, <3>1
    <3>3. b \in 0..tail - head - 1 /\ b \in 0..mask /\ b \in 0..mask' /\ b + head = i
      BY <1>3, <2>1, <3>1, <3>2
    <3>4. array'[b] = array[And(b + head, mask)]
      BY <1>3, <2>3, <3>3
    <3> QED BY <3>1, <3>3, <3>4
  <2>8. \A n \in 1..pushed : takes[n] = 0 => \E a \in 0..mask' : array'[a] = n
    <3> SUFFICES ASSUME NEW n \in 1..pushed, takes[n] = 0
                 PROVE  \E a \in 0..mask' : array'[a] = n
      OBVIOUS
    <3>1. PICK a \in 0..mask : array[a] = n
      BY <1>0, <1>3 DEF Stock
    <3>2. n # Null
      BY <1>3 DEF Null
    <3> QED BY <2>7, <3>1, <3>2
  <2>9. Stock'
    <3>1. \A n \in Item : n > pushed => takes[n] = 0
      BY <1>0 DEF Stock
    <3> QED BY <1>1, <1>3, <2>5, <2>6, <2>8, <3>1 DEF Stock
  <2>10. Within'
    <3> SUFFICES ASSUME NEW a \in 0..mask', array'[a] # Null
                 PROVE  \E i \in 0..tail - head - 1 : And(i, mask') = a
      BY <1>3, <2>1 DEF Within
    <3>1. a \in 0..mask /\ array'[a] = array[And(a + head, mask)]
      BY <2>4
    <3>2. PICK i \in head..tail - 1 : And(i, mask) = And(a + head, mask)
      BY <1>0, <1>3, <2>2, <3>1 DEF Within
    <3>3. i \in Int /\ a + head \in Int /\ i - (a + head) <= mask /\ (a + head) - i <= mask
      BY <1>3, <3>1, <3>2
    <3>4. i = a + head
      BY <1>3, <3>2, <3>3, AndInjective
    <3>5. a \in 0..tail - head - 1 /\ mask' \in Nat /\ a \in 0..mask'
      BY <1>3, <2>1, <3>1, <3>2, <3>4
    <3>6. And(a, mask') = a
      BY <3>5, AndSmall
    <3> QED BY <3>5, <3>6
  <2>11. TakenOnce'
    BY <1>0, <1>1 DEF TakenOnce
  <2> QED BY <2>9, <2>10, <2>11
<1> QED BY <1>5, <1>6

\* The masks of the reset map an index to its slot, and keep the slots of the items.
LEMMA ResetItems ==
  ASSUME QueueAssumption, MaxPushes <= MaxIndex, QueueInv, ResetHead
  PROVE  Stock' /\ Within' /\ TakenOnce'
<1>0. /\ Owner \in Thread /\ Owner \notin Thieves
      /\ TypeOK /\ Stock /\ Within /\ TakenOnce /\ AtFits /\ IndexFits
  BY ThreadFacts DEF QueueInv
<1>1. /\ pc[Owner] = "resetHead" /\ pc'[Owner] = "resetTail"
      /\ head' = And(head, mask) /\ UNCHANGED <<array, mask, tail, pushed, takes, lock>>
  BY <1>0, GotoFacts DEF ResetHead, History
<1>2. ~Claimed /\ ~Claimed'
  BY <1>0, <1>1 DEF QueueInv, LockFits, Claimed
<1>3. /\ mask \in Nat /\ head \in 0..MaxIndex /\ MaxIndex \in Nat /\ mask = InitialSize - 1
      /\ Low = head /\ High = MaxIndex /\ Low' = And(head, mask) /\ High' = mask
      /\ MaxIndex - head \in 0..mask /\ Last' = Last /\ tail = MaxIndex
  BY <1>0, <1>1, <1>2, ConstantFacts
     DEF TypeOK, IndexFits, AtFits, Low, High, Tail, Reach, End, Undecided, Popping, Pushing,
         Most, Last
<1>4. ASSUME NEW i \in head..MaxIndex
      PROVE  And(i, mask) = mask - (MaxIndex - i)
  <2>1. PICK d \in 0..mask : d = MaxIndex - i
    BY <1>3
  <2>2. And(MaxIndex, mask) = mask
    BY <1>3, AndMax
  <2>3. And(MaxIndex - d, mask) = mask - d
    BY <1>3, <2>2, AndBelow
  <2>4. MaxIndex - d = i
    BY <1>3, <2>1
  <2> QED BY <2>1, <2>3, <2>4
<1>5. Low' = mask - (MaxIndex - head)
  BY <1>3, <1>4
<1>6. Stock' /\ TakenOnce'
  BY <1>0, <1>1, <1>3 DEF Stock, TakenOnce
<1>7. Within'
  <2> SUFFICES ASSUME NEW a \in 0..mask, array[a] # Null
               PROVE  \E i \in Low'..mask - 1 : And(i, mask) = a
    BY <1>1, <1>3 DEF Within
  <2>1. PICK i \in head..MaxIndex - 1 : And(i, mask) = a
    BY <1>0, <1>3 DEF Within
  <2>2. a = mask - (MaxIndex - i)
    BY <1>3, <1>4, <2>1
  <2>3. a \in Low'..mask - 1
    BY <1>3, <1>5, <2>1, <2>2
  <2>4. And(a, mask) = a
    BY <1>3, AndSmall
  <2> QED BY <2>3, <2>4
<1> QED BY <1>6, <1>7

LEMMA OwnerItems ==
  ASSUME QueueAssumption, MaxPushes <= MaxIndex, QueueInv, OwnerStep
  PROVE  Stock' /\ Within' /\ TakenOnce'
<1>0. /\ Owner \in Thread /\ NoThread \notin Thieves /\ NoThread # Owner
      /\ Owner \notin Thieves
  BY ThreadFacts
<1>1. /\ TypeOK /\ Stock /\ Within /\ TakenOnce /\ AtFits /\ IndexFits /\ HandFits
  BY DEF QueueInv
<1>a. /\ mask \in Nat /\ head \in Int /\ tail \in Int /\ pushed \in Nat
      /\ at[Owner] \in Int /\ pc[Owner] \in OwnerPCs
  BY <1>0, <1>1 DEF TypeOK, PlacesFit, QueueInv
<1>b. Claimed' = Claimed
  BY OwnerFrame
<1>c. pc[Owner] \in {"resetHead", "resetTail", "grow", "recheck", "found"} => ~Claimed
  BY <1>0 DEF QueueInv, LockFits, Claimed
<1>d. ASSUME UNCHANGED <<array, mask, takes>>, Last' = Last,
             pushed' \in Int, pushed <= pushed', Low' = Low, High' = High
      PROVE  Stock' /\ Within' /\ TakenOnce'
  BY <1>1, <1>d, ItemsKept
<1> USE <1>0, <1>a
<1> USE DEF Popping, Tail, Low, High, Last
<1>2. CASE LocalPush \/ LockReset \/ Room \/ LockGrow \/ LocalPop
  <2>1. /\ pc[Owner] \in {"idle", "lockReset", "room", "lockGrow"}
        /\ pc'[Owner] \in {"idle", "lockReset", "resetHead", "room", "store", "lockGrow", "grow",
                           "pop"}
        /\ UNCHANGED <<array, mask, head, tail, pushed, takes>>
    BY <1>1, <1>2, GotoFacts DEF LocalPush, LockReset, Room, LockGrow, LocalPop, History
  <2> QED BY <1>b, <1>d, <2>1
<1>3. CASE ResetHead
  BY <1>3, ResetItems
<1>4. CASE ResetTail
  <2>1. /\ pc[Owner] = "resetTail" /\ pc'[Owner] = "room" /\ tail' = And(tail, mask)
        /\ UNCHANGED <<array, mask, head, pushed, takes>>
    BY <1>1, <1>4, GotoFacts DEF ResetTail, History
  <2>2. And(tail, mask) = mask
    BY <1>1, <2>1, AndMax DEF AtFits, IndexFits
  <2> QED BY <1>b, <1>d, <2>1, <2>2
<1>5. CASE Store
  <2>1. /\ pc[Owner] = "store" /\ pc'[Owner] = "publish" /\ at[Owner] = tail
        /\ UNCHANGED <<mask, head, tail, pushed, takes>> /\ pushed + 1 \in Item
        /\ array' = [array EXCEPT ![And(at[Owner], mask)] = pushed + 1]
    BY <1>1, <1>5, GotoFacts, ConstantFacts
       DEF Store, History, AtFits, IndexFits, Pushing, Item
  <2> DEFINE s == And(at[Owner], mask)
  <2>2. s \in 0..mask /\ array[s] = Null
    BY <2>1, AndRange, FreeSlot DEF Slot
  <2>3. \A a \in 0..mask : array'[a] = IF a = s THEN pushed + 1 ELSE array[a]
    BY <1>1, <2>1, <2>2 DEF TypeOK
  <2>4. /\ Last = pushed /\ Last' = pushed + 1 /\ Low' = Low /\ High = tail
        /\ High' = tail + 1
    BY <1>b, <2>1
  <2>5. Low \in Int /\ Low <= tail
    BY <1>1, <2>1 DEF IndexFits, End, Undecided
  <2> HIDE DEF s
  <2>6. Stock'
    <3>1. \A a \in 0..mask : array[a] # Null => takes[array[a]] = 0 /\ array[a] <= pushed
      BY <1>1, <2>4 DEF Stock
    <3>2. takes[pushed + 1] = 0
      BY <1>1, <2>1 DEF Stock
    <3>3. \A a \in 0..mask : array'[a] # Null =>
            takes[array'[a]] = 0 /\ array'[a] <= pushed + 1
      <4> SUFFICES ASSUME NEW a \in 0..mask, array'[a] # Null
                   PROVE  takes[array'[a]] = 0 /\ array'[a] <= pushed + 1
        OBVIOUS
      <4>1. CASE a = s
        BY <2>3, <3>2, <4>1
      <4>2. CASE a # s
        <5>1. array[a] \in Int /\ array'[a] = array[a]
          BY <1>1, <2>3, <4>2, ConstantFacts DEF TypeOK, Item, Null
        <5> QED BY <3>1, <5>1
      <4> QED BY <4>1, <4>2
    <3>4. \A a, b \in 0..mask : array'[a] # Null /\ array'[a] = array'[b] => a = b
      <4>1. \A a \in 0..mask : array[a] # pushed + 1
        BY <3>1 DEF Null
      <4> QED BY <1>1, <2>3, <4>1 DEF Stock
    <3>5. \A n \in 1..pushed + 1 : takes[n] = 0 => \E a \in 0..mask : array'[a] = n
      <4> SUFFICES ASSUME NEW n \in 1..pushed + 1, takes[n] = 0
                   PROVE  \E a \in 0..mask : array'[a] = n
        OBVIOUS
      <4>1. CASE n = pushed + 1
        BY <2>2, <2>3, <4>1
      <4>2. CASE n # pushed + 1
        <5>1. PICK a \in 0..mask : array[a] = n
          BY <1>1, <2>4, <4>2 DEF Stock
        <5>2. a # s
          BY <2>2, <5>1 DEF Null
        <5> QED BY <2>3, <5>1, <5>2
      <4> QED BY <4>1, <4>2
    <3>6. \A n \in Item : n > pushed => takes[n] = 0
      BY <1>1 DEF Stock
    <3> QED BY <2>1, <2>4, <3>3, <3>4, <3>5, <3>6 DEF Stock
  <2>7. Within'
    <3> SUFFICES ASSUME NEW a \in 0..mask, array'[a] # Null
                 PROVE  \E i \in Low..tail : And(i, mask) = a
      BY <2>1, <2>4 DEF Within
    <3>1. CASE a = s
      BY <2>1, <2>5, <3>1 DEF s
    <3>2. CASE a # s
      <4>1. PICK i \in Low..tail - 1 : And(i, mask) = a
        BY <1>1, <2>3, <2>4, <3>2 DEF Within
      <4> QED BY <2>5, <4>1
    <3> QED BY <3>1, <3>2
  <2>8. TakenOnce'
    BY <1>1, <2>1 DEF TakenOnce
  <2> QED BY <2>6, <2>7, <2>8
<1>6. CASE Publish
  <2>1. /\ pc[Owner] = "publish" /\ pc'[Owner] = "idle" /\ tail' = tail + 1
        /\ pushed' = pushed + 1 /\ UNCHANGED <<array, mask, head, takes>>
    BY <1>1, <1>6, GotoFacts DEF Publish, AtFits, Pushing
  <2> QED BY <1>b, <1>d, <2>1
<1>7. CASE Grow
  BY <1>7, GrowItems
<1>8. CASE LocalPopCore \/ (\E n \in 1..pushed : LocalFindAndPop(n)) \/ Search \/ LockFound
  <2>1. /\ pc[Owner] \in {"pop", "idle", "search", "lockFound"}
        /\ pc'[Owner] \in {"idle", "exchange", "pop", "search", "lockFound", "found"}
        /\ UNCHANGED <<array, mask, head, tail, pushed, takes>>
    BY <1>1, <1>8, GotoFacts
       DEF LocalPopCore, ReturnNull, LocalFindAndPop, Search, LockFound, History
  <2> QED BY <1>b, <1>d, <2>1
<1>9. CASE Exchange
  <2>1. /\ pc[Owner] = "exchange" /\ pc'[Owner] = "compare" /\ tail' = tail - 1
        /\ UNCHANGED <<array, mask, head, pushed, takes>>
    BY <1>1, <1>9, GotoFacts DEF Exchange, AtFits, History
  <2> QED BY <1>b, <1>d, <2>1
<1>10. CASE Compare \/ LockPop
  <2>1. /\ pc[Owner] \in {"compare", "lockPop"} /\ pc'[Owner] \in {"read", "lockPop", "recheck"}
        /\ UNCHANGED <<array, mask, head, tail, pushed, takes>>
    BY <1>1, <1>10, GotoFacts DEF Compare, LockPop, History
  <2> QED BY <1>b, <1>d, <2>1
<1>11. CASE Read
  <2>1. /\ pc[Owner] = "read" /\ at[Owner] = tail
        /\ pc'[Owner] = IF Slot(at[Owner]) = Null THEN "pop" ELSE "clear"
        /\ UNCHANGED <<array, mask, head, tail, pushed, takes>>
    BY <1>1, <1>11, GotoFacts DEF Read, AtFits, History
  <2>2. \A i \in Low..High - 1 : Slot(i) # Null => i \in (Low..High - 1)'
    BY <1>b, <2>1
  <2>3. Last' = Last
    BY <2>1
  <2> QED BY <1>1, <2>1, <2>2, <2>3, ItemsKept
<1>12. CASE Clear
  <2>1. /\ pc[Owner] = "clear" /\ pc'[Owner] = "idle" /\ at[Owner] = tail
        /\ Slot(at[Owner]) # Null /\ Slot(at[Owner]) = obj[Owner]
        /\ UNCHANGED <<mask, head, tail, pushed>>
    BY <1>1, <1>12, GotoFacts DEF Clear, Return, AtFits, HandFits
  <2>2. HandOut(at[Owner])
    BY <1>12, <2>1 DEF Clear, Return, HandOut
  <2>3. \A j \in Low..High - 1 :
          And(j, mask) # And(at[Owner], mask) => j \in (Low..High - 1)'
    BY <1>b, <2>1
  <2>4. Last' = Last /\ Last <= MaxPushes /\ Slot(at[Owner]) <= pushed
    <3>1. And(at[Owner], mask) \in 0..mask
      BY AndRange
    <3> QED BY <1>1, <2>1, <3>1 DEF TypeOK, Stock, Slot
  <2> QED BY <1>1, <2>1, <2>2, <2>3, <2>4, ItemOut
<1>13. CASE Recheck
  <2>1. /\ pc[Owner] = "recheck" /\ at[Owner] = tail
        /\ UNCHANGED <<array, mask, head, pushed, takes>>
        /\ \/ pc'[Owner] = "read" /\ tail' = tail
           \/ pc'[Owner] = "idle" /\ tail' = tail + 1
    BY <1>1, <1>13, GotoFacts DEF Recheck, ReturnNull, AtFits
  <2> QED BY <1>b, <1>d, <2>1
<1>14. CASE Found
  <2>1. /\ pc[Owner] = "found" /\ pc'[Owner] = "idle" /\ UNCHANGED <<mask, pushed>>
        /\ at[Owner] \in tail - mask..tail - 2
    BY <1>1, <1>14, GotoFacts DEF Found, Return, AtFits
  <2>2. Last' = Last
    BY <2>1
  <2>3. CASE Slot(at[Owner]) = Null
    <3>1. UNCHANGED <<array, head, tail, takes>>
      BY <1>14, <2>3 DEF Found
    <3> QED BY <1>b, <1>d, <2>1, <2>2, <3>1
  <2>4. CASE Slot(at[Owner]) # Null
    <3>1. /\ Slot(at[Owner]) = obj[Owner] /\ tail' = tail
          /\ head' = IF at[Owner] = head THEN head + 1 ELSE head
      BY <1>1, <1>14, <2>1, <2>4 DEF Found, HandFits
    <3>2. HandOut(at[Owner])
      BY <1>14, <2>4, <3>1 DEF Found, Return, HandOut
    <3>3. \A j \in Low..High - 1 :
            And(j, mask) # And(at[Owner], mask) => j \in (Low..High - 1)'
      BY <1>b, <1>c, <2>1, <3>1
    <3>4. Last <= MaxPushes /\ Slot(at[Owner]) <= pushed
      <4>1. And(at[Owner], mask) \in 0..mask
        BY AndRange
      <4> QED BY <1>1, <2>1, <2>4, <4>1 DEF TypeOK, Stock, Slot
    <3> QED BY <1>1, <2>1, <2>2, <2>4, <3>2, <3>3, <3>4, ItemOut
  <2> QED BY <2>3, <2>4
<1> QED BY <1>2, <1>3, <1>4, <1>5, <1>6, <1>7, <1>8, <1>9, <1>10, <1>11, <1>12, <1>13,
           <1>14 DEF OwnerStep

LEMMA ThiefItems ==
  ASSUME QueueAssumption, QueueInv, NoOverflow, NEW t \in Thieves, ThiefStep(t)
  PROVE  Stock' /\ Within' /\ TakenOnce'
<1>1. /\ TypeOK /\ Stock /\ Within /\ TakenOnce /\ HandFits /\ t \in Thread
      /\ pc[t] \in Claiming => at[t] = head - 1
  BY ThreadFacts DEF QueueInv, ClaimFits
<1>2. pc'[Owner] = pc[Owner] /\ UNCHANGED <<mask, tail, pushed>>
  BY ThiefFrame
<1>a. /\ mask \in Nat /\ head \in Int /\ tail \in Int /\ pushed \in Nat /\ at[t] \in Int
  BY <1>1 DEF TypeOK
<1>3. High' = High /\ Last' = Last /\ Tail \in Int
  BY <1>2, <1>a DEF High, Last, Tail
<1>4. CASE Stolen(t)
  <2>1. pc[t] = "stolen" /\ Slot(at[t]) # Null /\ Slot(at[t]) = obj[t]
    BY <1>1, <1>4 DEF Stolen, HandFits
  <2>2. HandOut(at[t])
    BY <1>4, <2>1 DEF Stolen, Return, HandOut
  <2>3. lock = t /\ lock' = NoThread /\ pc'[t] = "idle" /\ head' = head
    BY <1>1, <1>4, <2>1, GotoFacts DEF QueueInv, LockFits, Claiming, Stolen, Return
  <2>4. Low = head - 1 /\ Low' = head /\ at[t] = head - 1
    BY <1>1, <2>1, <2>3, ThreadFacts DEF Low, Claimed, Claiming
  <2>5. \A j \in Low..High - 1 : And(j, mask) # And(at[t], mask) => j \in (Low..High - 1)'
    BY <1>3, <1>a, <2>4 DEF High
  <2>6. Last <= MaxPushes
    <3>1. pc[Owner] = "publish" => pushed < MaxPushes
      BY DEF QueueInv, IndexFits, Pushing
    <3>2. pushed \in 0..MaxPushes /\ MaxPushes \in Nat
      BY <1>1, ConstantFacts DEF TypeOK
    <3> QED BY <3>1, <3>2 DEF Last
  <2>7. Slot(at[t]) <= pushed
    <3>1. And(at[t], mask) \in 0..mask
      BY <1>a, AndRange
    <3>2. CASE pc[Owner] # "publish"
      BY <1>1, <2>1, <3>1, <3>2 DEF Stock, Slot, Last
    <3>3. CASE pc[Owner] = "publish"
      <4>1. /\ Slot(at[Owner]) = pushed + 1 /\ at[Owner] = tail /\ tail + 1 - head <= mask
            /\ head <= tail
        BY <2>1, <2>3, <3>3
           DEF QueueInv, HandFits, AtFits, Pushing, Popping, IndexFits, Reach, Tail, End,
               Undecided, Granted
      <4>2. And(at[t], mask) # And(tail, mask)
        BY <1>a, <2>4, <4>1, AndInjective
      <4>3. And(tail, mask) \in 0..mask
        BY <1>a, AndRange
      <4>4. Slot(at[t]) # pushed + 1
        BY <1>1, <2>1, <3>1, <4>1, <4>2, <4>3 DEF Stock, Slot
      <4>5. Slot(at[t]) <= pushed + 1 /\ Slot(at[t]) \in Int
        BY <1>1, <2>1, <3>1, <3>3, ConstantFacts DEF Stock, Slot, Last, TypeOK, Item, Null
      <4> QED BY <1>a, <4>4, <4>5
    <3> QED BY <3>2, <3>3
  <2> QED BY <1>1, <1>2, <1>3, <1>a, <2>1, <2>2, <2>5, <2>6, <2>7, ItemOut
<1>5. CASE ~Stolen(t)
  <2>1. UNCHANGED <<array, takes>>
    BY <1>5 DEF ThiefStep, TrySteal, CanSteal, CanStealTail, ReturnNull, TryEnter, Miss,
                Advance, Claim, Steal, History
  <2>2. \A i \in Low..High - 1 : Slot(i) # Null => i \in (Low..High - 1)'
    <3>1. pc[t] # "stolen"
      BY <1>5 DEF ThiefStep, TrySteal, CanSteal, CanStealTail, TryEnter, Advance, Claim, Steal
    <3>2. \/ Low' = Low
          \/ Low = head - 1 /\ Low' = head /\ Slot(head - 1) = Null
      BY <1>1, <1>a, <3>1, ThiefMoves DEF Low, Claiming
    <3> QED BY <1>3, <1>a, <3>2 DEF Low, High
  <2> QED BY <1>1, <1>2, <1>3, <1>a, <2>1, <2>2, ItemsKept
<1> QED BY <1>4, <1>5

-----------------------------------------------------------------------------
(* What the threads have in hand.                                          *)

\* The slot a thief has claimed for good is not the one at the tail.
LEMMA ClaimsApart ==
  ASSUME QueueAssumption, QueueInv, NEW t \in Thieves, pc[t] \in {"steal", "stolen"},
         pc[Owner] \in {"read", "clear", "publish"}
  PROVE  And(at[t], mask) # And(at[Owner], mask)
<1>1. lock = t /\ at[t] = head - 1 /\ at[Owner] = tail
  BY DEF QueueInv, LockFits, ClaimFits, AtFits, Claiming, Popping, Pushing
<1>2. Granted
  BY <1>1 DEF Granted
<1>3. /\ mask \in Nat /\ head \in Int /\ tail \in Int
      /\ head <= tail /\ tail + 1 - head <= mask
  BY <1>2 DEF QueueInv, TypeOK, IndexFits, End, Undecided, Reach, Tail, Popping
<1>4. /\ head - 1 \in Int /\ head - 1 # tail
      /\ (head - 1) - tail <= mask /\ tail - (head - 1) <= mask
  BY <1>3
<1> QED BY <1>1, <1>3, <1>4, AndInjective

\* A slot is the only one an assignment changes.
LEMMA OtherSlots ==
  ASSUME TypeOK, NEW i \in Int, NEW j \in Int, NEW n,
         array' = [array EXCEPT ![And(i, mask)] = n], mask' = mask
  PROVE  Slot(j)' = IF And(i, mask) = And(j, mask) THEN n ELSE Slot(j)
BY AndRange DEF TypeOK, Slot

LEMMA OwnerHands ==
  ASSUME QueueAssumption, MaxPushes <= MaxIndex, QueueInv, OwnerStep
  PROVE  HandFits'
<1>0. Owner \in Thread /\ Thieves \subseteq Thread /\ Owner \notin Thieves
  BY ThreadFacts
<1>1. TypeOK /\ HandFits /\ pc[Owner] \in OwnerPCs
  BY DEF QueueInv, PlacesFit
<1>a. /\ mask \in Nat /\ \A t \in Thread : at[t] \in Int
  BY <1>1 DEF TypeOK
<1>2. (pc[Owner] = "publish" => Slot(at[Owner]) = pushed + 1)'
  <2> SUFFICES ASSUME pc'[Owner] = "publish" PROVE Slot(at[Owner])' = pushed' + 1
    OBVIOUS
  <2>1. Store
    BY <1>0, <1>1, GotoFacts
       DEF OwnerStep, LocalPush, LockReset, ResetHead, ResetTail, Room, Publish, LockGrow,
           Grow, LocalPop, LocalPopCore, ReturnNull, Exchange, Compare, Read, Clear, Return,
           LockPop, Recheck, LocalFindAndPop, Search, LockFound, Found
  <2>2. /\ array' = [array EXCEPT ![And(at[Owner], mask)] = pushed + 1]
        /\ UNCHANGED <<mask, at, pushed>>
    BY <2>1 DEF Store, History
  <2> QED BY <1>0, <1>1, <1>a, <2>2, AndRange DEF Slot, TypeOK
<1>3. (pc[Owner] = "clear" => obj[Owner] # Null /\ Slot(at[Owner]) = obj[Owner])'
  <2> SUFFICES ASSUME pc'[Owner] = "clear"
               PROVE  obj'[Owner] # Null /\ Slot(at[Owner])' = obj'[Owner]
    OBVIOUS
  <2>1. Read
    BY <1>0, <1>1, GotoFacts
       DEF OwnerStep, LocalPush, LockReset, ResetHead, ResetTail, Room, Store, Publish, LockGrow,
           Grow, LocalPop, LocalPopCore, ReturnNull, Exchange, Compare, Clear, Return,
           LockPop, Recheck, LocalFindAndPop, Search, LockFound, Found
  <2> QED BY <1>0, <1>1, <2>1, GotoFacts DEF Read, Slot, TypeOK
<1>4. (pc[Owner] \in {"lockFound", "found"} =>
         obj[Owner] # Null /\ Slot(at[Owner]) \in {Null, obj[Owner]})'
  <2> SUFFICES ASSUME pc'[Owner] \in {"lockFound", "found"}
               PROVE  obj'[Owner] # Null /\ Slot(at[Owner])' \in {Null, obj'[Owner]}
    OBVIOUS
  <2>1. Search \/ LockFound
    BY <1>0, <1>1, GotoFacts
       DEF OwnerStep, LocalPush, LockReset, ResetHead, ResetTail, Room, Store, Publish, LockGrow,
           Grow, LocalPop, LocalPopCore, ReturnNull, Exchange, Compare, Clear, Return,
           LockPop, Recheck, LocalFindAndPop, Read, Found
  <2>2. UNCHANGED <<array, mask, at, obj>>
    BY <1>0, <1>1, <2>1, GotoFacts DEF Search, LockFound, History
  <2>3. obj[Owner] # Null /\ Slot(at[Owner]) \in {Null, obj[Owner]}
    BY <1>0, <1>1, <2>1, GotoFacts DEF Search, LockFound, HandFits
  <2> QED BY <2>2, <2>3 DEF Slot
<1>5. (pc[Owner] = "search" => obj[Owner] # Null)'
  <2> SUFFICES ASSUME pc'[Owner] = "search" PROVE obj'[Owner] # Null
    OBVIOUS
  <2>1. Search \/ \E n \in 1..pushed : LocalFindAndPop(n)
    BY <1>0, <1>1, GotoFacts
       DEF OwnerStep, LocalPush, LockReset, ResetHead, ResetTail, Room, Store, Publish, LockGrow,
           Grow, LocalPop, LocalPopCore, ReturnNull, Exchange, Compare, Clear, Return,
           LockPop, Recheck, LockFound, Read, Found
  <2>2. CASE Search
    BY <1>1, <2>2 DEF Search, HandFits
  <2>3. CASE \E n \in 1..pushed : LocalFindAndPop(n)
    <3>1. PICK n \in 1..pushed : LocalFindAndPop(n)
      BY <2>3
    <3>2. n # Null
      BY <1>1 DEF TypeOK, Null
    <3> QED BY <1>0, <1>1, <3>1, <3>2 DEF LocalFindAndPop, TypeOK
  <2> QED BY <2>1, <2>2, <2>3
<1>6. ASSUME NEW t \in Thieves, pc'[t] = "stolen"
      PROVE  obj'[t] # Null /\ Slot(at[t])' = obj'[t]
  <2>1. pc[t] = "stolen" /\ at'[t] = at[t] /\ obj'[t] = obj[t]
    BY <1>6, OwnerFrame
  <2>2. /\ obj[t] # Null /\ Slot(at[t]) = obj[t] /\ lock = t
        /\ at[t] \in Int /\ at[Owner] \in Int
    BY <1>0, <1>1, <1>a, <2>1 DEF HandFits, QueueInv, LockFits, Claiming
  <2>3. Claimed
    BY <2>1, <2>2 DEF Claimed, Claiming
  <2>4. mask' = mask
    BY <2>3, OwnerFrame
  <2>5. CASE Store
    <3>1. /\ array' = [array EXCEPT ![And(at[Owner], mask)] = pushed + 1]
          /\ Slot(at[Owner]) = Null
      BY <2>5, FreeSlot DEF Store
    <3>2. And(at[Owner], mask) # And(at[t], mask)
      BY <2>2, <3>1 DEF Slot
    <3> QED BY <1>1, <2>1, <2>2, <2>4, <3>1, <3>2, OtherSlots DEF Slot
  <2>6. CASE Clear
    <3>1. /\ array' = [array EXCEPT ![And(at[Owner], mask)] = Null]
          /\ And(at[Owner], mask) # And(at[t], mask)
      BY <2>1, <2>6, ClaimsApart DEF Clear
    <3> QED BY <1>1, <2>1, <2>2, <2>4, <3>1, OtherSlots DEF Slot
  <2>7. CASE ~Store /\ ~Clear
    <3>1. ~Grow /\ ~Found
      BY <1>0, <2>2 DEF Grow, Found, QueueInv, LockFits
    <3>2. UNCHANGED array
      BY <2>7, <3>1
       DEF OwnerStep, LocalPush, LockReset, ResetHead, ResetTail, Room, Publish, LockGrow,
           LocalPop, LocalPopCore, Exchange, Compare, Read,
           LockPop, Recheck, LocalFindAndPop, Search, LockFound
    <3> QED BY <2>1, <2>2, <2>4, <3>2 DEF Slot
  <2> QED BY <2>5, <2>6, <2>7
<1> QED BY <1>2, <1>3, <1>4, <1>5, <1>6 DEF HandFits

LEMMA ThiefHands ==
  ASSUME QueueAssumption, QueueInv, NEW t \in Thieves, ThiefStep(t)
  PROVE  HandFits'
<1>0. Owner \in Thread /\ Thieves \subseteq Thread /\ Owner \notin Thieves
  BY ThreadFacts
<1>1. TypeOK /\ HandFits
  BY DEF QueueInv
<1>a. /\ mask \in Nat /\ \A u \in Thread : at[u] \in Int
  BY <1>1 DEF TypeOK
<1>2. /\ pc'[Owner] = pc[Owner] /\ at'[Owner] = at[Owner] /\ obj'[Owner] = obj[Owner]
      /\ \A u \in Thieves : u # t => pc'[u] = pc[u] /\ at'[u] = at[u] /\ obj'[u] = obj[u]
      /\ UNCHANGED <<mask, pushed>>
  BY ThiefFrame
<1>3. CASE Stolen(t)
  <2>1. /\ array' = [array EXCEPT ![And(at[t], mask)] = Null]
        /\ pc[t] = "stolen" /\ pc'[t] = "idle"
    BY <1>0, <1>1, <1>3, GotoFacts DEF Stolen, Return
  <2>2. Slot(at[Owner])' = IF And(at[t], mask) = And(at[Owner], mask)
                             THEN Null ELSE Slot(at[Owner])
    BY <1>0, <1>1, <1>2, <1>a, <2>1, AndRange DEF Slot, TypeOK
  <2>3. pc[Owner] \in {"clear", "publish"} => And(at[t], mask) # And(at[Owner], mask)
    BY <2>1, ClaimsApart
  <2>4. ASSUME NEW u \in Thieves PROVE pc'[u] # "stolen"
    BY <1>2, <2>1 DEF QueueInv, LockFits, Claiming
  <2> QED BY <1>1, <1>2, <2>2, <2>3, <2>4 DEF HandFits
<1>4. CASE ~Stolen(t)
  <2>1. UNCHANGED array
    BY <1>4 DEF ThiefStep, TrySteal, CanSteal, CanStealTail, TryEnter, Advance, Claim, Steal
  <2>2. pc'[t] = "stolen" => obj'[t] # Null /\ Slot(at[t])' = obj'[t]
    <3> SUFFICES ASSUME pc'[t] = "stolen" PROVE obj'[t] # Null /\ Slot(at[t])' = obj'[t]
      OBVIOUS
    <3>1. Steal(t)
      BY <1>0, <1>1, <1>4, GotoFacts
         DEF ThiefStep, TrySteal, CanSteal, CanStealTail, ReturnNull, TryEnter, Miss, Advance,
             Claim
    <3> QED BY <1>0, <1>1, <3>1, GotoFacts DEF Steal, Slot, TypeOK
  <2>3. Slot(at[Owner])' = Slot(at[Owner])
    BY <1>2, <2>1 DEF Slot
  <2>4. \A u \in Thieves : u # t => Slot(at[u])' = Slot(at[u])
    BY <1>2, <2>1 DEF Slot
  <2> QED BY <1>1, <1>2, <2>2, <2>3, <2>4 DEF HandFits
<1> QED BY <1>3, <1>4

-----------------------------------------------------------------------------
(* Types.                                                                  *)

\* What is queued and what is in the slots are items.
LEMMA ItemTypes ==
  ASSUME QueueAssumption, TypeOK
  PROVE  /\ Queued \subseteq Item /\ Null \notin Item
         /\ \A i \in Int : Slot(i) \in Item \cup {Null}
<1>1. Queued \subseteq Item /\ Null \notin Item
  BY ConstantFacts DEF TypeOK, Queued, Item, Null
<1>2. ASSUME NEW i \in Int PROVE Slot(i) \in Item \cup {Null}
  BY AndRange DEF TypeOK, Slot
<1> QED BY <1>1, <1>2

LEMMA OwnerTypes ==
  ASSUME QueueAssumption, MaxPushes <= MaxIndex, QueueInv, OwnerStep
  PROVE  TypeOK'
<1>0. /\ Owner \in Thread /\ MaxIndex \in Nat /\ MaxPushes \in Nat /\ 2 <= MaxIndex
      /\ MaxFinds \in Nat
  BY ThreadFacts DEF QueueAssumption
<1>1. TypeOK
  BY DEF QueueInv
<1>a. head \in 0..MaxIndex /\ tail \in 0..MaxIndex /\ (head \in 0..MaxIndex)' /\ (tail \in 0..MaxIndex)'
  BY OwnerIndices DEF QueueInv, IndexFits
<1>b. mask \in Nat /\ at[Owner] \in -(MaxIndex + 1)..MaxIndex
  BY <1>0, <1>1 DEF TypeOK
<1>c. /\ Queued \subseteq Item /\ Null \notin Item
      /\ \A i \in Int : Slot(i) \in Item \cup {Null}
  BY <1>1, ItemTypes
<1>2. mask' \in Nat /\ array' \in [0..mask' -> Item \cup {Null}]
  <2>1. mask \in Nat /\ array \in [0..mask -> Item \cup {Null}]
    BY <1>1 DEF TypeOK
  <2>2. CASE Store
    <3>1. pushed + 1 \in Item
      BY <1>0, <2>2 DEF Store, QueueInv, IndexFits, Pushing, TypeOK, Item
    <3> QED BY <2>1, <2>2, <3>1 DEF Store
  <2>3. CASE Grow
    <3>1. CASE UNCHANGED <<array, mask>>
      BY <2>1, <3>1
    <3>2. CASE /\ array' = [i \in 0..2 * mask + 1 |->
                             IF i <= mask THEN Slot(i + head) ELSE Null]
               /\ mask' = 2 * mask + 1
      BY <1>a, <1>c, <2>1, <3>2
    <3> QED BY <2>3, <3>1, <3>2 DEF Grow
  <2>4. CASE Clear \/ Found
    BY <2>1, <2>4 DEF Clear, Found
  <2>5. CASE ~Store /\ ~Grow /\ ~Clear /\ ~Found
    <3>1. UNCHANGED <<array, mask>>
      BY <2>5
       DEF OwnerStep, LocalPush, LockReset, ResetHead, ResetTail, Room, Publish, LockGrow,
           LocalPop, LocalPopCore, Exchange, Compare, Read,
           LockPop, Recheck, LocalFindAndPop, Search, LockFound
    <3> QED BY <2>1, <3>1
  <2> QED BY <2>2, <2>3, <2>4, <2>5
<1>3. lock' \in Thread \cup {NoThread}
  BY <1>0, <1>1
     DEF TypeOK, OwnerStep, LocalPush, LockReset, ResetHead, ResetTail, Room, Store, Publish,
         LockGrow, Grow, LocalPop, LocalPopCore, Exchange, Compare, Clear,
         LockPop, Recheck, LocalFindAndPop, Read, Search, LockFound, Found
<1>4. pc' \in [Thread -> OwnerPCs \cup ThiefPCs]
  <2>1. pc \in [Thread -> OwnerPCs \cup ThiefPCs]
    BY <1>1 DEF TypeOK, OwnerPCs, ThiefPCs
  <2>2. pc' = pc \/ \E l \in OwnerPCs : Goto(Owner, l)
    <3>1. CASE \E n \in 1..pushed : LocalFindAndPop(n)
      BY <3>1 DEF LocalFindAndPop, OwnerPCs
    <3>2. CASE LocalPush \/ LockReset \/ ResetHead \/ ResetTail \/ Room \/ Store \/ Publish
      BY <3>2 DEF LocalPush, LockReset, ResetHead, ResetTail, Room, Store, Publish, OwnerPCs
    <3>3. CASE LockGrow \/ Grow \/ LocalPop \/ LocalPopCore \/ Exchange \/ Compare
      BY <3>3
         DEF LockGrow, Grow, LocalPop, LocalPopCore, ReturnNull, Exchange, Compare, OwnerPCs
    <3>4. CASE Clear \/ LockPop \/ Recheck \/ Read \/ Search \/ LockFound \/ Found
      BY <3>4
         DEF Clear, Return, LockPop, Recheck, ReturnNull, Read, Search, LockFound, Found,
             OwnerPCs
    <3> QED BY <3>1, <3>2, <3>3, <3>4 DEF OwnerStep
  <2> QED BY <2>1, <2>2 DEF Goto
<1>5. at' \in [Thread -> -(MaxIndex + 1)..MaxIndex]
  <2>1. at' = at \/ \E i \in -(MaxIndex + 1)..MaxIndex : at' = [at EXCEPT ![Owner] = i]
    <3>1. CASE Search
      <4>1. CASE at' = at
        BY <4>1
      <4>2. CASE at' # at
        <5>1. head <= at[Owner] /\ at' = [at EXCEPT ![Owner] = Int32(at[Owner] - 1)]
          BY <1>a, <1>b, <3>1, <4>2 DEF Search
        <5>2. at[Owner] - 1 \in -(MaxIndex + 1)..MaxIndex
          BY <1>0, <1>a, <1>b, <5>1
        <5>3. Int32(at[Owner] - 1) = at[Owner] - 1
          BY <5>2, Int32Exact
        <5> QED BY <5>1, <5>2, <5>3
      <4> QED BY <4>1, <4>2
    <3>2. CASE Grow
      <4>1. CASE at' = at
        BY <4>1
      <4>2. CASE at' # at
        <5>1. at' = [at EXCEPT ![Owner] = tail']
          BY <3>2, <4>2 DEF Grow
        <5>2. tail' \in -(MaxIndex + 1)..MaxIndex
          BY <1>0, <1>a
        <5> QED BY <5>1, <5>2
      <4> QED BY <4>1, <4>2
    <3>3. CASE \E n \in 1..pushed : LocalFindAndPop(n)
      <4>1. at' = at \/ at' = [at EXCEPT ![Owner] = tail - 2]
        BY <3>3 DEF LocalFindAndPop
      <4>2. tail - 2 \in -(MaxIndex + 1)..MaxIndex
        BY <1>0, <1>a
      <4> QED BY <4>1, <4>2
    <3>4. CASE LocalPush \/ ResetTail \/ LocalPopCore
      <4>1. \/ at' = at
            \/ at' = [at EXCEPT ![Owner] = tail]
            \/ at' = [at EXCEPT ![Owner] = tail']
            \/ at' = [at EXCEPT ![Owner] = tail - 1]
        BY <3>4 DEF LocalPush, ResetTail, LocalPopCore
      <4>2. {tail, tail', tail - 1} \subseteq -(MaxIndex + 1)..MaxIndex
        BY <1>0, <1>a
      <4> QED BY <4>1, <4>2
    <3>5. CASE ~Search /\ ~Grow /\ ~LocalPush /\ ~ResetTail /\ ~LocalPopCore
               /\ ~ \E n \in 1..pushed : LocalFindAndPop(n)
      BY <3>5
         DEF OwnerStep, LockReset, ResetHead, Room, Store, Publish, LockGrow, LocalPop,
             Exchange, Compare, Clear, LockPop, Recheck, Read, LockFound, Found
    <3> QED BY <3>1, <3>2, <3>3, <3>4, <3>5
  <2> QED BY <1>1, <2>1 DEF TypeOK
<1>6. obj' \in [Thread -> Item \cup {Null}]
  <2>1. obj' = obj \/ \E n \in Item \cup {Null} : obj' = [obj EXCEPT ![Owner] = n]
    <3>1. CASE Read
      <4>1. obj' = [obj EXCEPT ![Owner] = Slot(at[Owner])] /\ at[Owner] \in Int
        BY <1>b, <3>1 DEF Read
      <4>2. Slot(at[Owner]) \in Item \cup {Null}
        BY <1>c, <4>1
      <4> QED BY <4>1, <4>2
    <3>2. CASE \E n \in 1..pushed : LocalFindAndPop(n)
      <4>1. 1..pushed \subseteq Item
        BY <1>0, <1>1 DEF TypeOK, Item
      <4> QED BY <3>2, <4>1 DEF LocalFindAndPop
    <3>3. CASE ~Read /\ ~ \E n \in 1..pushed : LocalFindAndPop(n)
      BY <3>3
         DEF OwnerStep, LocalPush, LockReset, ResetHead, ResetTail, Room, Store, Publish,
             LockGrow, Grow, LocalPop, LocalPopCore, Exchange, Compare, Clear,
             LockPop, Recheck, Search, LockFound, Found
    <3> QED BY <3>1, <3>2, <3>3
  <2> QED BY <1>1, <2>1 DEF TypeOK
<1>7. finds' \in 0..MaxFinds
  <2>1. finds \in 0..MaxFinds
    BY <1>1 DEF TypeOK
  <2>2. finds' = finds \/ (finds < MaxFinds /\ finds' = finds + 1)
    BY DEF OwnerStep, LocalPush, LockReset, ResetHead, ResetTail, Room, Store, Publish,
           LockGrow, Grow, LocalPop, LocalPopCore, Exchange, Compare, Clear, Read,
           LockPop, Recheck, LocalFindAndPop, Search, LockFound, Found
  <2> QED BY <1>0, <2>1, <2>2
<1>8. pushed' \in 0..MaxPushes
  <2>1. pushed \in 0..MaxPushes
    BY <1>1 DEF TypeOK
  <2>2. pushed' = pushed \/ (pc[Owner] = "publish" /\ pushed' = pushed + 1)
    BY DEF OwnerStep, LocalPush, LockReset, ResetHead, ResetTail, Room, Store, Publish,
           LockGrow, Grow, LocalPop, LocalPopCore, Exchange, Compare, Clear, Read,
           LockPop, Recheck, LocalFindAndPop, Search, LockFound, Found, History
  <2>3. pc[Owner] = "publish" => pushed < MaxPushes
    BY DEF QueueInv, IndexFits, Pushing
  <2> QED BY <1>0, <2>1, <2>2, <2>3
<1>9. takes' \in [Item -> Nat]
  <2>1. takes \in [Item -> Nat]
    BY <1>1 DEF TypeOK
  <2>2. takes' = takes \/ takes' = [takes EXCEPT ![obj[Owner]] = @ + 1]
    BY DEF OwnerStep, LocalPush, LockReset, ResetHead, ResetTail, Room, Store, Publish,
           LockGrow, Grow, LocalPop, LocalPopCore, Exchange, Compare, Clear, Read, Return,
           LockPop, Recheck, LocalFindAndPop, Search, LockFound, Found, History
  <2> QED BY <2>1, <2>2
<1>10. present' \in [Thread -> SUBSET Item] /\ denied' \subseteq Item
  <2>1. present \in [Thread -> SUBSET Item] /\ denied \subseteq Item
    BY <1>1 DEF TypeOK
  <2>2. CASE UNCHANGED <<present, denied>>
    BY <2>1, <2>2
  <2>3. CASE ReturnNull(Owner)
    BY <1>0, <1>c, <2>1, <2>3 DEF ReturnNull
  <2>4. CASE denied' = denied /\ (\E S \in SUBSET Item : present' = [present EXCEPT ![Owner] = S])
    BY <2>1, <2>4
  <2>5. CASE Publish
    BY <2>5 DEF Publish
  <2>6. CASE ~Publish
    <3>0. CASE LocalPop /\ ~(head < tail)
      BY <1>c, <2>1, <3>0 DEF LocalPop
    <3>1. CASE \/ LocalPop /\ head < tail
               \/ \E n \in 1..pushed : LocalFindAndPop(n)
               \/ Clear
      <4>1. /\ denied' = denied
            /\ \/ present' = [present EXCEPT ![Owner] = Queued]
               \/ present' = [present EXCEPT ![Owner] = {}]
        BY <3>1 DEF LocalPop, LocalFindAndPop, Clear, Return
      <4> QED BY <1>c, <2>4, <4>1
    <3>2. CASE Found
      <4>1. /\ denied' = denied
            /\ present' = present \/ present' = [present EXCEPT ![Owner] = {}]
        BY <3>2 DEF Found, Return
      <4> QED BY <2>2, <2>4, <4>1
    <3>3. CASE LocalPopCore \/ Recheck
      BY <2>2, <2>3, <3>3 DEF LocalPopCore, Recheck
    <3>4. CASE ~LocalPop /\ ~(\E n \in 1..pushed : LocalFindAndPop(n)) /\ ~Clear /\ ~Found
               /\ ~LocalPopCore /\ ~Recheck
      BY <2>2, <2>6, <3>4
         DEF OwnerStep, LocalPush, LockReset, ResetHead, ResetTail, Room, Store,
             LockGrow, Grow, Exchange, Compare, Read, LockPop, Search, LockFound, History
    <3> QED BY <3>0, <3>1, <3>2, <3>3, <3>4
  <2> QED BY <2>5, <2>6
<1>11. ({head, tail} \subseteq -(MaxIndex + 1)..MaxIndex)'
  BY <1>0, <1>a
<1> QED BY <1>2, <1>3, <1>4, <1>5, <1>6, <1>7, <1>8, <1>9, <1>10, <1>11
        DEF TypeOK, OwnerPCs, ThiefPCs

LEMMA ThiefTypes ==
  ASSUME QueueAssumption, QueueInv, NoOverflow, NEW t \in Thieves, ThiefStep(t)
  PROVE  TypeOK'
<1>0. t \in Thread /\ MaxIndex \in Nat /\ MaxPushes \in Nat
  BY ThreadFacts, ConstantFacts
<1>1. TypeOK
  BY DEF QueueInv
<1>a. head \in 0..MaxIndex /\ tail \in 0..MaxIndex /\ (head \in 0..MaxIndex)' /\ (tail \in 0..MaxIndex)'
  BY ThiefIndices DEF QueueInv, IndexFits
<1>b. at[t] \in Int /\ at[t] \in -(MaxIndex + 1)..MaxIndex
  BY <1>0, <1>1 DEF TypeOK
<1>c. /\ Queued \subseteq Item /\ Null \notin Item
      /\ \A i \in Int : Slot(i) \in Item \cup {Null}
  BY <1>1, ItemTypes
<1>2. UNCHANGED <<mask, tail, pushed, finds>>
  BY ThiefFrame
<1>3. array' \in [0..mask -> Item \cup {Null}]
  <2>1. array \in [0..mask -> Item \cup {Null}]
    BY <1>1 DEF TypeOK
  <2>2. array' = array \/ array' = [array EXCEPT ![And(at[t], mask)] = Null]
    BY DEF ThiefStep, TrySteal, CanSteal, CanStealTail, TryEnter, Advance, Claim, Steal, Stolen
  <2> QED BY <2>1, <2>2
<1>4. lock' \in Thread \cup {NoThread}
  BY <1>0, <1>1
     DEF TypeOK, ThiefStep, TrySteal, CanSteal, CanStealTail, TryEnter, Advance, Claim, Steal,
         Stolen
<1>5. pc' \in [Thread -> OwnerPCs \cup ThiefPCs]
  <2>1. pc \in [Thread -> OwnerPCs \cup ThiefPCs]
    BY <1>1 DEF TypeOK, OwnerPCs, ThiefPCs
  <2>2. \E l \in ThiefPCs : Goto(t, l)
    BY DEF ThiefStep, TrySteal, CanSteal, CanStealTail, ReturnNull, TryEnter, Miss, Advance,
           Claim, Steal, Stolen, Return, ThiefPCs
  <2> QED BY <2>1, <2>2 DEF Goto
<1>6. at' \in [Thread -> -(MaxIndex + 1)..MaxIndex]
  <2>1. at' = at \/ at' = [at EXCEPT ![t] = head]
    BY DEF ThiefStep, TrySteal, CanSteal, CanStealTail, TryEnter, Advance, Claim, Steal, Stolen
  <2>2. head \in -(MaxIndex + 1)..MaxIndex
    BY <1>0, <1>a
  <2> QED BY <1>1, <2>1, <2>2 DEF TypeOK
<1>7. obj' \in [Thread -> Item \cup {Null}]
  <2>1. obj' = obj \/ obj' = [obj EXCEPT ![t] = Slot(at[t])]
    BY DEF ThiefStep, TrySteal, CanSteal, CanStealTail, TryEnter, Advance, Claim, Steal, Stolen
  <2> QED BY <1>1, <1>b, <1>c, <2>1 DEF TypeOK
<1>8. takes' \in [Item -> Nat]
  <2>1. takes \in [Item -> Nat]
    BY <1>1 DEF TypeOK
  <2>2. takes' = takes \/ takes' = [takes EXCEPT ![obj[t]] = @ + 1]
    BY DEF ThiefStep, TrySteal, CanSteal, CanStealTail, TryEnter, Advance, Claim, Steal, Stolen,
           Return, History
  <2> QED BY <2>1, <2>2
<1>9. present' \in [Thread -> SUBSET Item] /\ denied' \subseteq Item
  <2>1. present \in [Thread -> SUBSET Item] /\ denied \subseteq Item
    BY <1>1 DEF TypeOK
  <2>2. /\ \/ present' = present
           \/ present' = [present EXCEPT ![t] = {}]
           \/ present' = [present EXCEPT ![t] = Queued]
        /\ denied' = denied \/ denied' = denied \cup (present[t] \cap Queued)
    BY DEF ThiefStep, TrySteal, CanSteal, CanStealTail, ReturnNull, TryEnter, Miss, Advance,
           Claim, Steal, Stolen, Return, History
  <2> QED BY <1>0, <1>c, <2>1, <2>2
<1>10. ({head, tail} \subseteq -(MaxIndex + 1)..MaxIndex)'
  BY <1>0, <1>a
<1> QED BY <1>1, <1>2, <1>3, <1>4, <1>5, <1>6, <1>7, <1>8, <1>9, <1>10
        DEF TypeOK, OwnerPCs, ThiefPCs

-----------------------------------------------------------------------------
(* What a call reports absent.                                             *)

\* Where a queued item is.
LEMMA Located ==
  ASSUME QueueAssumption, QueueInv, NEW n \in Queued
  PROVE  \E i \in Low..High - 1 : Slot(i) = n
<1>1. pushed \in Nat /\ takes[n] = 0 /\ n \in 1..pushed /\ n \in 1..Last /\ n # Null
  BY DEF QueueInv, TypeOK, Queued, Last, Null
<1>2. PICK a \in 0..mask : array[a] = n
  BY <1>1 DEF QueueInv, Stock
<1>3. PICK i \in Low..High - 1 : And(i, mask) = a
  BY <1>1, <1>2 DEF QueueInv, Within
<1> QED BY <1>2, <1>3 DEF Slot

\* The slot below the head is in the hands of the thief that has claimed it.
LEMMA ClaimCovers ==
  ASSUME QueueInv, Claimed
  PROVE  Covered(Slot(head - 1))
BY DEF QueueInv, ClaimFits, Claimed, Covered

LEMMA IndexTypes ==
  ASSUME QueueInv
  PROVE  head \in Int /\ tail \in Int /\ mask \in Nat /\ Low \in Int /\ High \in Int
BY DEF QueueInv, TypeOK, Low, High, Tail

\* Nothing that stays is reported absent, no item comes into a place that a thief has passed,
\* and what was about to be taken still is, unless it has been.
LEMMA DenialsKept ==
  ASSUME QueueAssumption, TypeOK, TypeOK', Stock', DeniedFits, SkippedFits,
         \A n \in denied' : n \in Queued => n \in denied \/ Covered(n)',
         UNCHANGED pushed, \A n \in Item : takes'[n] = 0 => takes[n] = 0,
         \A n \in Item : takes'[n] = 0 /\ Covered(n) => Covered(n)',
         \A t \in Thieves : pc'[t] = "canStealTail" =>
           pc[t] = "canStealTail" /\ at'[t] = at[t] /\ present'[t] = present[t],
         Low' \in Int, High' \in Int,
         \A i \in Low'..High' - 1 : Slot(i)' # Null => i \in Low..High - 1 /\ Slot(i)' = Slot(i)
  PROVE  DeniedFits' /\ SkippedFits'
<1>0. /\ Null \notin Item /\ Thieves \subseteq Thread /\ MaxPushes \in Nat
      /\ pushed \in 0..MaxPushes /\ mask' \in Nat
      /\ denied' \subseteq Item /\ present \in [Thread -> SUBSET Item]
  BY ItemTypes, ThreadFacts, ConstantFacts DEF TypeOK
<1>1. DeniedFits'
  <2> SUFFICES ASSUME NEW n \in denied', n \in Queued'
               PROVE  Covered(n)'
    BY DEF DeniedFits
  <2>1. n \in Item /\ n \in 1..pushed /\ takes'[n] = 0
    BY <1>0 DEF Queued
  <2>2. n \in Queued
    BY <2>1 DEF Queued
  <2> QED BY <2>1, <2>2 DEF DeniedFits
<1>2. SkippedFits'
  <2> SUFFICES ASSUME NEW t \in Thieves, pc'[t] = "canStealTail",
                      NEW i \in Low'..High' - 1, Slot(i)' \in present'[t], i < at'[t]
               PROVE  Covered(Slot(i))'
    BY DEF SkippedFits
  <2>1. pc[t] = "canStealTail" /\ at'[t] = at[t] /\ present'[t] = present[t]
    OBVIOUS
  <2>2. Slot(i)' \in Item /\ Slot(i)' # Null
    BY <1>0, <2>1
  <2>3. i \in Low..High - 1 /\ Slot(i)' = Slot(i)
    BY <2>2
  <2>4. Covered(Slot(i))
    BY <2>1, <2>3 DEF SkippedFits
  <2>5. takes'[Slot(i)'] = 0
    <3>1. And(i, mask') \in 0..mask'
      BY <1>0, AndRange
    <3>2. array'[And(i, mask')] # Null
      BY <2>2 DEF Slot
    <3> QED BY <3>1, <3>2 DEF Stock, Slot
  <2> QED BY <2>2, <2>3, <2>4, <2>5
<1> QED BY <1>1, <1>2

LEMMA OwnerDenials ==
  ASSUME QueueAssumption, MaxPushes <= MaxIndex, QueueInv, OwnerStep
  PROVE  Denials'
<1> SUFFICES ASSUME pc'[Owner] \notin Pushing PROVE DeniedFits' /\ SkippedFits'
  BY DEF Denials
<1>0. Owner \in Thread /\ Thieves \subseteq Thread /\ Owner \notin Thieves
  BY ThreadFacts
<1>1. TypeOK /\ TypeOK' /\ Stock /\ Stock' /\ pc[Owner] \in OwnerPCs
  BY OwnerTypes, OwnerItems DEF QueueInv, PlacesFit
<1>2. CASE Publish
  BY <1>0, <1>1, <1>2 DEF Publish, DeniedFits, SkippedFits
<1>3. CASE ~Publish
  <2>1. pc[Owner] \notin Pushing /\ ~LocalPush
    BY <1>0, <1>1, <1>3, GotoFacts
       DEF OwnerStep, LocalPush, LockReset, ResetHead, ResetTail, Room, Store, LockGrow, Grow,
           LocalPop, LocalPopCore, Exchange, Compare, Clear, LockPop, Recheck, Read,
           LocalFindAndPop, Search, LockFound, Found, Pushing
  <2>2. /\ ~LockReset /\ ~ResetHead /\ ~ResetTail /\ ~Room /\ ~Store /\ ~LockGrow /\ ~Grow
    BY <2>1 DEF LockReset, ResetHead, ResetTail, Room, Store, LockGrow, Grow, Pushing
  <2>3. DeniedFits /\ SkippedFits
    BY <2>1 DEF QueueInv, Denials
  <2>4. /\ \A t \in Thieves : pc'[t] = pc[t] /\ at'[t] = at[t] /\ obj'[t] = obj[t]
        /\ Claimed => head' = head
        /\ Claimed' = Claimed
    BY OwnerFrame
  <2>5. /\ head \in Int /\ tail \in Int /\ mask \in Nat /\ Low \in Int /\ High \in Int
        /\ head' \in Int /\ tail' \in Int /\ at[Owner] \in Int /\ mask' = mask
        /\ \A t \in Thieves : at[t] \in Int
        /\ UNCHANGED pushed
    <3>1. UNCHANGED <<mask, pushed>>
      BY <1>3, <2>1, <2>2
         DEF OwnerStep, LocalPop, LocalPopCore, Exchange, Compare, Clear, Read, LockPop,
             Recheck, LocalFindAndPop, Search, LockFound, Found, History
    <3> QED BY <1>0, <1>1, <3>1, IndexTypes DEF TypeOK
  <2>6. Low' \in Int /\ High' \in Int
    BY <2>5 DEF Low, High, Tail
  <2>7. \A t \in Thieves : present'[t] = present[t]
    BY <1>0, <1>1, <1>3, <2>1, <2>2
       DEF OwnerStep, LocalPop, LocalPopCore, ReturnNull, Exchange, Compare, Clear, Return,
           Read, LockPop, Recheck, LocalFindAndPop, Search, LockFound, Found, History, TypeOK
  <2>8. ASSUME UNCHANGED <<array, takes>>, Low' = Low, High' \in {High, High - 1},
               \A n \in Item : Covered(n) => Covered(n)',
               \A n \in denied' : n \in Queued => n \in denied \/ Covered(n)',
               High' = High \/ Slot(High - 1) = Null
        PROVE  DeniedFits' /\ SkippedFits'
    <3>1. \A i \in Low'..High' - 1 : i \in Low..High - 1 /\ Slot(i)' = Slot(i)
      BY <2>5, <2>6, <2>8 DEF Slot
    <3> QED BY <1>1, <2>3, <2>4, <2>5, <2>6, <2>7, <2>8, <3>1, DenialsKept
  <2> USE <2>5 DEF Pushing, Popping
  <2>9. ASSUME UNCHANGED <<array, mask>>, pc[Owner] \notin Popping \/ pc'[Owner] \in Popping,
               at'[Owner] = at[Owner] \/ pc[Owner] \notin Popping
        PROVE  \A n \in Item : Covered(n) => Covered(n)'
    BY <2>4, <2>9 DEF Covered, Slot
  <2>10. CASE \/ LocalPop /\ head < tail
              \/ \E n \in 1..pushed : LocalFindAndPop(n)
              \/ Search \/ LockFound
    <3>1. /\ pc[Owner] \notin Popping /\ pc'[Owner] \notin Popping
          /\ UNCHANGED <<array, head, tail, takes, denied>>
      BY <1>0, <1>1, <2>10, GotoFacts
         DEF LocalPop, LocalFindAndPop, Search, LockFound, History
    <3>2. Low' = Low /\ High' = High
      BY <2>1, <2>4, <3>1 DEF Low, High, Tail
    <3> QED BY <2>8, <2>9, <3>1, <3>2
  <2>a. ASSUME pc[Owner] \in {"idle", "pop"}, pc'[Owner] = "idle", head >= tail,
               UNCHANGED <<array, head, tail, takes>>, denied' \subseteq denied \cup Queued
        PROVE  DeniedFits' /\ SkippedFits'
    <3>1. Low' = Low /\ High' = High /\ High = tail
      BY <2>4, <2>a DEF Low, High, Tail
    <3>2. \A n \in Item : Covered(n) => Covered(n)'
      BY <2>9, <2>a
    <3>3. ASSUME NEW n \in Queued PROVE Covered(n)
      <4>1. PICK i \in Low..High - 1 : Slot(i) = n
        BY Located
      <4>2. Claimed /\ i = head - 1
        BY <2>a, <3>1, <4>1 DEF Low
      <4> QED BY <4>1, <4>2, ClaimCovers
    <3>4. \A n \in denied' : n \in Queued => n \in denied \/ Covered(n)'
      BY <1>1, <2>a, <3>2, <3>3, ItemTypes
    <3> QED BY <2>8, <2>a, <3>1, <3>2, <3>4
  <2>b. CASE LocalPop /\ ~(head < tail)
    <3>1. /\ pc[Owner] = "idle" /\ pc'[Owner] = "idle"
          /\ UNCHANGED <<array, head, tail, takes>> /\ denied' = denied \cup Queued
      BY <2>b DEF LocalPop
    <3> QED BY <2>a, <2>b, <3>1
  <2>11. CASE LocalPopCore
    <3>1. pc[Owner] = "pop" /\ UNCHANGED <<array, head, tail, takes>>
      BY <2>11 DEF LocalPopCore
    <3>2. CASE head >= tail
      <4>1. pc'[Owner] = "idle" /\ denied' = denied \cup (present[Owner] \cap Queued)
        BY <1>0, <1>1, <2>11, <3>2, GotoFacts DEF LocalPopCore, ReturnNull
      <4> QED BY <2>a, <3>1, <3>2, <4>1
    <3>3. CASE ~(head >= tail)
      <4>1. pc'[Owner] = "exchange" /\ denied' = denied
        BY <1>0, <1>1, <2>11, <3>3, GotoFacts DEF LocalPopCore
      <4>2. Low' = Low /\ High' = High
        BY <2>4, <3>1, <4>1 DEF Low, High, Tail
      <4> QED BY <2>8, <2>9, <3>1, <4>1, <4>2
    <3> QED BY <3>2, <3>3
  <2>12. CASE Exchange
    <3>1. /\ pc[Owner] = "exchange" /\ pc'[Owner] = "compare" /\ tail' = tail - 1
          /\ UNCHANGED <<array, head, takes, denied>>
      BY <1>0, <1>1, <2>12, GotoFacts DEF Exchange, History, QueueInv, AtFits
    <3>2. Low' = Low /\ High' = High
      BY <2>4, <3>1 DEF Low, High, Tail
    <3> QED BY <2>8, <2>9, <3>1, <3>2
  <2>13. CASE Compare \/ LockPop
    <3>1. /\ pc[Owner] \in {"compare", "lockPop"} /\ pc'[Owner] \in {"read", "lockPop", "recheck"}
          /\ UNCHANGED <<array, head, tail, takes, denied, at>>
      BY <1>0, <1>1, <2>13, GotoFacts DEF Compare, LockPop, History
    <3>2. Low' = Low /\ High' = High
      BY <2>4, <3>1 DEF Low, High, Tail
    <3> QED BY <2>8, <2>9, <3>1, <3>2
  <2>14. CASE Read
    <3>1. /\ pc[Owner] = "read" /\ at[Owner] = tail
          /\ pc'[Owner] = IF Slot(at[Owner]) = Null THEN "pop" ELSE "clear"
          /\ UNCHANGED <<array, head, tail, takes, denied, at>>
      BY <1>0, <1>1, <2>14, GotoFacts DEF Read, History, QueueInv, AtFits
    <3>2. /\ Low' = Low /\ High' \in {High, High - 1} /\ High - 1 = tail
          /\ High' = High \/ Slot(High - 1) = Null
      BY <2>4, <3>1 DEF Low, High, Tail
    <3>3. \A n \in Item : Covered(n) => Covered(n)'
      <4>1. CASE Slot(at[Owner]) # Null
        BY <2>9, <3>1, <4>1
      <4>2. CASE Slot(at[Owner]) = Null
        BY <1>1, <2>4, <3>1, <4>2, ItemTypes DEF Covered, Slot
      <4> QED BY <4>1, <4>2
    <3> QED BY <2>8, <3>1, <3>2, <3>3
  <2>15. CASE Clear
    <3>1. /\ pc[Owner] = "clear" /\ pc'[Owner] = "idle" /\ at[Owner] = tail
          /\ array' = [array EXCEPT ![And(at[Owner], mask)] = Null]
          /\ takes' = [takes EXCEPT ![obj[Owner]] = @ + 1]
          /\ obj[Owner] # Null /\ Slot(at[Owner]) = obj[Owner]
          /\ UNCHANGED <<head, tail, denied>>
      BY <1>0, <1>1, <2>15, GotoFacts DEF Clear, Return, QueueInv, AtFits, HandFits
    <3>2. Low' = Low /\ High = tail + 1 /\ High' = tail
      BY <2>4, <3>1 DEF Low, High, Tail
    <3>3. \A j \in Int : Slot(j)' = IF And(at[Owner], mask) = And(j, mask)
                                      THEN Null ELSE Slot(j)
      BY <1>1, <3>1, OtherSlots
    <3>4. \A n \in Item : takes'[n] = 0 => takes[n] = 0 /\ n # Slot(at[Owner])
      BY <1>0, <1>1, <3>1 DEF TypeOK
    <3>5. ASSUME NEW n \in Item, takes'[n] = 0, Covered(n) PROVE Covered(n)'
      <4>1. n # Slot(at[Owner])
        BY <3>4, <3>5
      <4>2. PICK t \in Thieves : pc[t] \in Claiming /\ Slot(at[t]) = n
        BY <3>5, <4>1 DEF Covered
      <4>3. And(at[Owner], mask) # And(at[t], mask)
        BY <4>1, <4>2 DEF Slot
      <4>4. Slot(at[t])' = n
        BY <2>4, <3>1, <4>2, <4>3, <1>1, AndRange DEF Slot, TypeOK
      <4> QED BY <2>4, <4>2, <4>4 DEF Covered
    <3>6. \A i \in Low'..High' - 1 : Slot(i)' # Null => i \in Low..High - 1 /\ Slot(i)' = Slot(i)
      BY <3>2, <3>3
    <3> QED BY <1>1, <2>3, <2>4, <2>6, <2>7, <3>1, <3>4, <3>5, <3>6, DenialsKept
  <2>16. CASE Recheck
    <3>1. /\ pc[Owner] = "recheck" /\ at[Owner] = tail /\ lock = Owner
          /\ UNCHANGED <<array, head, takes, at>>
      BY <2>16 DEF Recheck, QueueInv, AtFits, LockFits
    <3>2. CASE head <= at[Owner]
      <4>1. pc'[Owner] = "read" /\ UNCHANGED <<tail, denied>>
        BY <1>0, <1>1, <2>16, <3>2, GotoFacts DEF Recheck
      <4>2. Low' = Low /\ High' = High
        BY <2>4, <3>1, <4>1 DEF Low, High, Tail
      <4> QED BY <2>8, <2>9, <3>1, <4>1, <4>2
    <3>3. CASE ~(head <= at[Owner])
      <4>1. pc'[Owner] = "idle" /\ tail' = tail + 1
        BY <1>0, <1>1, <2>16, <3>1, <3>3, GotoFacts DEF Recheck, ReturnNull
      <4>2. ~Claimed
        BY <1>0, <3>1 DEF Claimed
      <4>3. Low = head /\ High = tail + 1 /\ Low' = head /\ High' = tail + 1
        BY <2>4, <3>1, <4>1, <4>2 DEF Low, High, Tail
      <4>4. Queued = {} /\ Queued' = {}
        <5>1. \A n \in Queued : FALSE
          BY <3>1, <3>3, <4>3, Located
        <5> QED BY <3>1, <5>1 DEF Queued
      <4>5. \A i \in Low'..High' - 1 : FALSE
        BY <3>1, <3>3, <4>3
      <4> QED BY <4>4, <4>5 DEF DeniedFits, SkippedFits
    <3> QED BY <3>2, <3>3
  <2>17. CASE Found
    <3>1. /\ pc[Owner] = "found" /\ pc'[Owner] = "idle" /\ lock = Owner
          /\ at[Owner] \in tail - mask..tail - 2 /\ denied' = denied
      BY <1>0, <1>1, <2>17, GotoFacts DEF Found, Return, QueueInv, AtFits, LockFits
    <3>2. ~Claimed
      BY <1>0, <3>1 DEF Claimed
    <3>3. \A n : ~Covered(n)
      BY <1>0, <3>1 DEF Covered, QueueInv, LockFits
    <3>4. CASE Slot(at[Owner]) = Null
      <4>1. UNCHANGED <<array, head, tail, takes>>
        BY <2>17, <3>4 DEF Found
      <4>2. Low' = Low /\ High' = High
        BY <2>4, <3>1, <4>1 DEF Low, High, Tail
      <4> QED BY <2>8, <3>1, <3>3, <4>1, <4>2
    <3>5. CASE Slot(at[Owner]) # Null
      <4>1. /\ array' = [array EXCEPT ![And(at[Owner], mask)] = Null]
            /\ takes' = [takes EXCEPT ![obj[Owner]] = @ + 1]
            /\ tail' = tail /\ head' \in {head, head + 1}
        BY <2>17, <3>1, <3>5 DEF Found, Return
      <4>2. Low = head /\ High = tail /\ Low' = head' /\ High' = tail
        BY <2>4, <3>1, <3>2, <4>1 DEF Low, High, Tail
      <4>3. \A j \in Int : Slot(j)' = IF And(at[Owner], mask) = And(j, mask)
                                        THEN Null ELSE Slot(j)
        BY <1>1, <4>1, OtherSlots
      <4>4. \A i \in Low'..High' - 1 :
              Slot(i)' # Null => i \in Low..High - 1 /\ Slot(i)' = Slot(i)
        BY <4>1, <4>2, <4>3
      <4>5. \A n \in Item : takes'[n] = 0 => takes[n] = 0
        BY <1>0, <1>1, <4>1 DEF TypeOK
      <4> QED BY <1>1, <2>3, <2>4, <2>6, <2>7, <3>1, <3>3, <4>4, <4>5, DenialsKept
    <3> QED BY <3>4, <3>5
  <2> QED BY <1>3, <2>1, <2>2, <2>10, <2>b, <2>11, <2>12, <2>13, <2>14, <2>15, <2>16, <2>17
          DEF OwnerStep
<1> QED BY <1>2, <1>3

LEMMA ThiefDenials ==
  ASSUME QueueAssumption, QueueInv, NoOverflow, NEW t \in Thieves, ThiefStep(t)
  PROVE  Denials'
<1>0. /\ t \in Thread /\ Owner \in Thread /\ Thieves \subseteq Thread /\ Owner \notin Thieves
      /\ NoThread \notin Thieves
  BY ThreadFacts
<1>1. TypeOK /\ TypeOK' /\ Stock /\ Stock'
  BY ThiefTypes, ThiefItems DEF QueueInv
<1>2. /\ pc'[Owner] = pc[Owner] /\ at'[Owner] = at[Owner]
      /\ \A u \in Thieves : u # t => pc'[u] = pc[u] /\ at'[u] = at[u]
      /\ UNCHANGED <<mask, tail, pushed>>
  BY ThiefFrame
<1> SUFFICES ASSUME pc[Owner] \notin Pushing PROVE DeniedFits' /\ SkippedFits'
  BY <1>2 DEF Denials
<1>3. DeniedFits /\ SkippedFits
  BY DEF QueueInv, Denials
<1>4. /\ head \in Int /\ tail \in Int /\ mask \in Nat /\ Low \in Int /\ High \in Int
      /\ head' \in Int /\ at[Owner] \in Int /\ \A u \in Thieves : at[u] \in Int
  BY <1>0, <1>1, IndexTypes DEF TypeOK
<1>5. High' = High /\ Low' \in Int
  BY <1>2, <1>4 DEF Low, High, Tail
<1>6. High = IF pc[Owner] \in Popping THEN tail + 1 ELSE tail
  BY DEF High, Tail, Pushing, Popping
<1>7. \A u \in Thieves : u # t => present'[u] = present[u]
  BY <1>0, <1>1 DEF ThiefStep, TrySteal, CanSteal, CanStealTail, ReturnNull, TryEnter, Miss,
                    Advance, Claim, Steal, Stolen, Return, History, TypeOK
<1> DEFINE Kept == \A n \in Item : Covered(n) => Covered(n)'
<1>8. ASSUME UNCHANGED <<array, takes>>, Low' >= Low, Kept, pc'[t] # "canStealTail",
             \A n \in denied' : n \in Queued => n \in denied \/ Covered(n)'
      PROVE  DeniedFits' /\ SkippedFits'
  <2>1. \A i \in Low'..High' - 1 : i \in Low..High - 1 /\ Slot(i)' = Slot(i)
    BY <1>2, <1>4, <1>5, <1>8 DEF Slot
  <2>2. \A u \in Thieves : pc'[u] = "canStealTail" =>
          pc[u] = "canStealTail" /\ at'[u] = at[u] /\ present'[u] = present[u]
    BY <1>2, <1>7, <1>8
  <2> QED BY <1>1, <1>2, <1>3, <1>4, <1>5, <1>8, <2>1, <2>2, DenialsKept
<1>9. ASSUME UNCHANGED <<array>>, pc[t] \notin Claiming \/ (pc'[t] \in Claiming /\ at'[t] = at[t])
      PROVE  Kept
  BY <1>2, <1>9 DEF Covered, Slot
<1>10. pc[t] \in Claiming => at[t] = head - 1 /\ lock = t /\ Claimed
  BY DEF QueueInv, ClaimFits, LockFits, Claimed
<1>11. (pc[t] \notin Claiming /\ pc'[t] \notin Claiming /\ head' = head) => Low' = Low
  <2> SUFFICES ASSUME pc[t] \notin Claiming, pc'[t] \notin Claiming, head' = head
               PROVE  Claimed' = Claimed
    BY DEF Low
  <2> QED BY <1>4, ThiefMoves DEF Claiming
<1> HIDE DEF Kept
<1>12. CASE TrySteal(t) \/ TryEnter(t)
  <2>1. /\ pc[t] \notin Claiming /\ pc'[t] \notin Claiming /\ pc'[t] # "canStealTail"
        /\ UNCHANGED <<array, head, takes, denied>>
    BY <1>0, <1>1, <1>12, GotoFacts DEF TrySteal, TryEnter, Miss, Claiming
  <2> QED BY <1>4, <1>8, <1>9, <1>11, <2>1
<1>13. CASE CanSteal(t)
  <2>1. /\ pc[t] = "canSteal" /\ pc'[t] = "canStealTail" /\ at'[t] = head
        /\ UNCHANGED <<array, head, takes, denied, present>>
    BY <1>0, <1>1, <1>13, GotoFacts DEF CanSteal, History, TypeOK
  <2>2. Low' = Low /\ Kept
    BY <1>9, <1>11, <2>1 DEF Claiming
  <2>3. \A i \in Int : Slot(i)' = Slot(i)
    BY <1>2, <2>1 DEF Slot
  <2>4. \A i \in Int : Slot(i) \in Item \cup {Null}
    BY <1>1, ItemTypes
  <2>5. \A u \in Thieves : present[u] \subseteq Item
    BY <1>0, <1>1 DEF TypeOK
  <2>6. DeniedFits'
    <3>1. Queued' = Queued /\ Queued \subseteq Item
      BY <1>1, <1>2, <2>1, ItemTypes DEF Queued
    <3> QED BY <1>3, <2>1, <2>2, <3>1 DEF DeniedFits, Kept
  <2>7. SkippedFits'
    <3> SUFFICES ASSUME NEW u \in Thieves, pc'[u] = "canStealTail",
                        NEW i \in Low..High - 1, Slot(i) \in present[u], i < at'[u]
                 PROVE  Covered(Slot(i))'
      BY <1>4, <1>5, <2>1, <2>2, <2>3 DEF SkippedFits
    <3>1. Slot(i) \in Item
      BY <2>5
    <3>2. CASE u # t
      <4>1. pc[u] = "canStealTail" /\ i < at[u]
        BY <1>2, <3>2
      <4>2. Covered(Slot(i))
        BY <1>3, <4>1 DEF SkippedFits
      <4> QED BY <1>4, <2>2, <2>3, <3>1, <4>2 DEF Kept
    <3>3. CASE u = t
      <4>1. Claimed /\ i = head - 1
        BY <1>4, <2>1, <3>3 DEF Low
      <4>2. Covered(Slot(i))
        BY <4>1, ClaimCovers
      <4> QED BY <1>4, <2>2, <2>3, <3>1, <4>2 DEF Kept
    <3> QED BY <3>2, <3>3
  <2> QED BY <2>6, <2>7
<1>14. CASE CanStealTail(t)
  <2>1. /\ pc[t] = "canStealTail" /\ pc'[t] \in {"tryEnter", "idle"}
        /\ UNCHANGED <<array, head, takes>>
    BY <1>0, <1>1, <1>14, GotoFacts DEF CanStealTail, ReturnNull
  <2>2. Kept /\ Low' = Low
    BY <1>9, <1>11, <2>1 DEF Claiming
  <2>3. CASE at[t] < tail
    BY <1>4, <1>8, <1>14, <2>1, <2>2, <2>3 DEF CanStealTail
  <2>4. CASE ~(at[t] < tail)
    <3>1. denied' = denied \cup (present[t] \cap Queued)
      BY <1>14, <2>4 DEF CanStealTail, ReturnNull
    <3>2. ASSUME NEW n \in Queued, n \in present[t] PROVE Covered(n)
      <4>1. PICK i \in Low..High - 1 : Slot(i) = n
        BY Located
      <4>2. CASE i < at[t]
        BY <1>3, <2>1, <3>2, <4>1, <4>2 DEF SkippedFits
      <4>3. CASE ~(i < at[t])
        <5>1. pc[Owner] \in Popping /\ i = tail
          BY <1>4, <1>6, <2>4, <4>1, <4>3
        <5>2. at[Owner] = tail
          BY <5>1 DEF QueueInv, AtFits
        <5> QED BY <4>1, <5>1, <5>2 DEF Covered
      <4> QED BY <4>2, <4>3
    <3>3. \A n \in denied' : n \in Queued => n \in denied \/ Covered(n)'
      BY <1>1, <2>2, <3>1, <3>2, ItemTypes DEF Kept
    <3> QED BY <1>4, <1>8, <2>1, <2>2, <3>3
  <2> QED BY <2>3, <2>4
<1>15. CASE Advance(t)
  <2>1. /\ pc[t] = "advance" /\ pc'[t] = "claim" /\ UNCHANGED <<array, takes, denied>>
    BY <1>0, <1>1, <1>15, GotoFacts DEF Advance
  <2>2. ~Claimed /\ Claimed' /\ head' = head + 1
    BY <2>1, ThiefMoves DEF Claiming
  <2>3. Low' = Low
    BY <1>4, <2>2 DEF Low
  <2> QED BY <1>4, <1>8, <1>9, <2>1, <2>3 DEF Claiming
<1>16. CASE Claim(t)
  <2>1. /\ pc[t] = "claim" /\ pc'[t] \in {"steal", "idle"} /\ at'[t] = at[t]
        /\ UNCHANGED <<array, takes, denied>>
    BY <1>0, <1>1, <1>16, GotoFacts DEF Claim, Miss
  <2>2. at[t] = head - 1 /\ lock = t /\ Claimed
    BY <1>10, <2>1 DEF Claiming
  <2>3. CASE at[t] < tail
    <3>1. pc'[t] = "steal" /\ UNCHANGED <<head, lock>>
      BY <1>0, <1>1, <1>16, <2>3, GotoFacts DEF Claim
    <3>2. Low' = Low
      BY <2>2, <3>1 DEF Low, Claimed, Claiming
    <3> QED BY <1>4, <1>8, <1>9, <2>1, <3>1, <3>2 DEF Claiming
  <2>4. CASE ~(at[t] < tail)
    <3>1. pc'[t] = "idle" /\ head' = at[t] /\ lock' = NoThread
      BY <1>0, <1>1, <1>16, <2>4, GotoFacts DEF Claim, Miss
    <3>2. Low' = Low /\ Low = at[t]
      BY <1>0, <1>4, <2>2, <3>1 DEF Low, Claimed
    <3>3. ASSUME Slot(at[t]) # Null
          PROVE  pc[Owner] \in Popping /\ at[t] = at[Owner]
      <4>1. And(at[t], mask) \in 0..mask
        BY <1>4, AndRange
      <4>2. PICK i \in Low..High - 1 : And(i, mask) = And(at[t], mask)
        BY <3>3, <4>1 DEF QueueInv, Within, Slot
      <4>3. pc[Owner] \in Popping /\ at[t] = tail
        BY <1>4, <1>6, <2>4, <3>2, <4>2
      <4> QED BY <4>3 DEF QueueInv, AtFits
    <3>4. ASSUME NEW n \in Item, Covered(n) PROVE Covered(n)'
      <4>1. CASE pc[Owner] \in Popping /\ Slot(at[Owner]) = n
        BY <1>2, <2>1, <4>1 DEF Covered, Slot
      <4>2. CASE \E u \in Thieves : pc[u] \in Claiming /\ Slot(at[u]) = n
        <5>1. PICK u \in Thieves : pc[u] \in Claiming /\ Slot(at[u]) = n
          BY <4>2
        <5>2. u = t
          BY <2>2, <5>1 DEF QueueInv, LockFits
        <5>3. n # Null
          BY <1>1, ItemTypes
        <5> QED BY <1>2, <2>1, <3>3, <5>1, <5>2, <5>3 DEF Covered, Slot
      <4> QED BY <3>4, <4>1, <4>2 DEF Covered
    <3> QED BY <1>4, <1>8, <2>1, <3>1, <3>2, <3>4 DEF Kept
  <2> QED BY <2>3, <2>4
<1>17. CASE Steal(t)
  <2>1. /\ pc[t] = "steal" /\ at'[t] = at[t] /\ UNCHANGED <<array, head, takes, denied>>
        /\ pc'[t] = IF Slot(at[t]) = Null THEN "canSteal" ELSE "stolen"
        /\ lock' = IF Slot(at[t]) = Null THEN NoThread ELSE lock
    BY <1>0, <1>1, <1>17, GotoFacts DEF Steal, History
  <2>2. at[t] = head - 1 /\ lock = t /\ Claimed
    BY <1>10, <2>1 DEF Claiming
  <2>3. Low' >= Low
    BY <1>4, <2>1, <2>2 DEF Low
  <2>4. Kept
    <3>1. CASE Slot(at[t]) # Null
      BY <1>9, <2>1, <3>1 DEF Claiming
    <3>2. CASE Slot(at[t]) = Null
      BY <1>1, <1>2, <2>1, <3>2, ItemTypes DEF Covered, Slot, Kept
    <3> QED BY <3>1, <3>2
  <2> QED BY <1>8, <2>1, <2>3, <2>4
<1>18. CASE Stolen(t)
  <2>1. /\ pc[t] = "stolen" /\ pc'[t] = "idle" /\ lock' = NoThread
        /\ array' = [array EXCEPT ![And(at[t], mask)] = Null]
        /\ takes' = [takes EXCEPT ![obj[t]] = @ + 1]
        /\ obj[t] # Null /\ Slot(at[t]) = obj[t]
        /\ UNCHANGED <<head, denied>>
    BY <1>0, <1>1, <1>18, GotoFacts DEF Stolen, Return, QueueInv, HandFits
  <2>2. at[t] = head - 1 /\ lock = t /\ Claimed
    BY <1>10, <2>1 DEF Claiming
  <2>3. Low = head - 1 /\ Low' = head
    BY <1>0, <2>1, <2>2 DEF Low, Claimed
  <2>4. \A j \in Int : Slot(j)' = IF And(at[t], mask) = And(j, mask) THEN Null ELSE Slot(j)
    BY <1>1, <1>2, <1>4, <2>1, OtherSlots
  <2>5. \A n \in Item : takes'[n] = 0 => takes[n] = 0 /\ n # Slot(at[t])
    BY <1>0, <1>1, <2>1 DEF TypeOK
  <2>6. ASSUME NEW n \in Item, takes'[n] = 0, Covered(n) PROVE Covered(n)'
    <3>1. n # Slot(at[t])
      BY <2>5, <2>6
    <3>2. \A u \in Thieves : pc[u] \in Claiming => u = t
      BY <2>2 DEF QueueInv, LockFits
    <3>3. pc[Owner] \in Popping /\ Slot(at[Owner]) = n
      BY <2>6, <3>1, <3>2 DEF Covered
    <3>4. And(at[t], mask) # And(at[Owner], mask)
      BY <3>1, <3>3 DEF Slot
    <3>5. Slot(at[Owner])' = n
      BY <1>1, <1>2, <1>4, <2>1, <3>3, <3>4, AndRange DEF Slot, TypeOK
    <3> QED BY <1>2, <3>3, <3>5 DEF Covered
  <2>7. \A i \in Low'..High' - 1 : Slot(i)' # Null => i \in Low..High - 1 /\ Slot(i)' = Slot(i)
    BY <1>4, <1>5, <2>3, <2>4
  <2>8. \A u \in Thieves : pc'[u] = "canStealTail" =>
          pc[u] = "canStealTail" /\ at'[u] = at[u] /\ present'[u] = present[u]
    BY <1>2, <1>7, <2>1
  <2> QED BY <1>1, <1>2, <1>3, <1>4, <1>5, <2>1, <2>5, <2>6, <2>7, <2>8, DenialsKept
<1> QED BY <1>12, <1>13, <1>14, <1>15, <1>16, <1>17, <1>18 DEF ThiefStep

-----------------------------------------------------------------------------
(* The invariant holds as long as no thief overflows the head.             *)

LEMMA QueueInvInit ==
  ASSUME QueueAssumption, Init
  PROVE  QueueInv
<1>0. /\ Owner \in Thread /\ Thieves \subseteq Thread /\ Owner \notin Thieves
      /\ NoThread \notin Thread /\ NoThread \notin Thieves /\ NoThread # Owner
      /\ MaxIndex \in Nat /\ InitialSize \in 2..MaxIndex
      /\ StartIndices \subseteq 0..MaxIndex /\ MaxPushes \in Nat /\ MaxFinds \in Nat
  BY ThreadFacts DEF QueueAssumption
<1>1. /\ pc[Owner] = "idle" /\ \A t \in Thieves : pc[t] = "idle"
      /\ lock = NoThread /\ head \in 0..MaxIndex /\ tail = head /\ mask = InitialSize - 1
      /\ pushed = 0 /\ denied = {} /\ \A n \in Item : takes[n] = 0
      /\ \A a \in 0..mask : array[a] = Null
  BY <1>0 DEF Init
<1>2. ~Claimed /\ ~Granted
  BY <1>0, <1>1 DEF Claimed, Granted
<1>3. TypeOK
  BY <1>0 DEF Init, TypeOK
<1>4. TakenOnce /\ PlacesFit /\ LockFits
  BY <1>0, <1>1 DEF TakenOnce, PlacesFit, OwnerPCs, ThiefPCs, LockFits, Claiming
<1>5. AtFits /\ ClaimFits /\ HandFits
  BY <1>1 DEF AtFits, Pushing, Popping, ClaimFits, Claiming, HandFits
<1>6. IndexFits
  BY <1>0, <1>1, <1>2
     DEF IndexFits, Low, End, Reach, Most, Tail, Undecided, Popping, Pushing
<1>7. Stock /\ Within
  BY <1>1 DEF Stock, Within, Last
<1>8. Denials
  BY <1>1 DEF Denials, DeniedFits, SkippedFits
<1> QED BY <1>3, <1>4, <1>5, <1>6, <1>7, <1>8 DEF QueueInv

LEMMA QueueInvNext ==
  ASSUME QueueAssumption, MaxPushes <= MaxIndex, QueueInv, NoOverflow, [Next]_vars
  PROVE  QueueInv'
<1>1. CASE OwnerStep
  BY <1>1, OwnerControl, OwnerIndices, OwnerItems, OwnerHands, OwnerTypes, OwnerDenials
     DEF QueueInv
<1>2. CASE \E t \in Thieves : ThiefStep(t)
  BY <1>2, ThiefControl, ThiefIndices, ThiefItems, ThiefHands, ThiefTypes, ThiefDenials
     DEF QueueInv
<1>3. CASE UNCHANGED vars
  <2>1. UNCHANGED <<TypeOK, TakenOnce, PlacesFit, LockFits, AtFits, ClaimFits, HandFits>>
    BY <1>3 DEF vars, TypeOK, TakenOnce, PlacesFit, LockFits, AtFits, ClaimFits, HandFits, Slot
  <2>2. UNCHANGED <<Claimed, Granted, Tail>>
    BY <1>3 DEF vars, Claimed, Granted, Tail
  <2>3. UNCHANGED <<Low, High, Reach, End, Last, Most>>
    BY <1>3, <2>2 DEF vars, Low, High, Reach, End, Last, Most
  <2>4. UNCHANGED <<IndexFits, Stock, Within>>
    BY <1>3, <2>2, <2>3 DEF vars, IndexFits, Stock, Within
  <2>5. UNCHANGED Denials
    BY <1>3, <2>3 DEF vars, Denials, DeniedFits, SkippedFits, Covered, Slot, Queued
  <2> QED BY <2>1, <2>4, <2>5 DEF QueueInv
<1> QED BY <1>1, <1>2, <1>3 DEF Next

-----------------------------------------------------------------------------
(* Two reasons why no thief overflows the head: it is the only thief, so that the *)
(* head is where it has seen it below the tail; or there are too few pushes to    *)
(* get to the largest index, except by starting there.                            *)

SingleThief == \A t, u \in Thieves : t = u
FarStart ==
  /\ InitialSize + MaxPushes <= MaxIndex
  /\ \A i \in StartIndices : i = MaxIndex \/ i + MaxPushes < MaxIndex

\* What the theorems assume of the instance.
HeadSafe == FarStart \/ (SingleThief /\ MaxPushes <= MaxIndex)

\* A thief that goes for the lock has seen the head below the tail.
SeenBelow ==
  \A t \in Thieves :
    pc[t] \in {"tryEnter", "advance"} \/ (pc[t] = "canStealTail" /\ at[t] < MaxIndex) =>
      head < MaxIndex

LEMMA SeenBelowNext ==
  ASSUME QueueAssumption, MaxPushes <= MaxIndex, SingleThief, QueueInv, SeenBelow, [Next]_vars
  PROVE  SeenBelow'
<1>0. /\ Owner \in Thread /\ Thieves \subseteq Thread /\ MaxIndex \in Nat
      /\ InitialSize \in 2..MaxIndex /\ MaxPushes \in Nat
  BY ThreadFacts DEF QueueAssumption
<1>1. TypeOK /\ PlacesFit /\ tail \in 0..MaxIndex /\ head \in 0..MaxIndex /\ mask \in Nat
  BY DEF QueueInv, IndexFits, TypeOK
<1>2. CASE OwnerStep
  <2>1. \A t \in Thieves : pc'[t] = pc[t] /\ at'[t] = at[t]
    BY <1>2, OwnerFrame
  <2>2. head' = head \/ head' < MaxIndex
    <3>1. CASE ResetHead
      <4>1. /\ head' = And(head, mask) /\ pc'[Owner] = "resetTail" /\ mask' = mask
        BY <1>0, <1>1, <3>1, GotoFacts DEF ResetHead
      <4>2. mask = InitialSize - 1
        BY <1>2, <4>1, OwnerIndices DEF IndexFits
      <4>3. And(head, mask) \in 0..mask
        BY <1>0, <1>1, AndRange
      <4> QED BY <1>0, <1>1, <4>1, <4>2, <4>3
    <3>2. CASE Grow
      BY <1>0, <3>2 DEF Grow
    <3>3. CASE Found
      <4>1. at[Owner] \in tail - mask..tail - 2
        BY <3>3 DEF Found, QueueInv, AtFits
      <4>2. head' = head \/ (at[Owner] = head /\ head' = head + 1)
        BY <3>3 DEF Found
      <4> QED BY <1>0, <1>1, <4>1, <4>2
    <3>4. CASE ~ResetHead /\ ~Grow /\ ~Found
      BY <1>2, <3>4
         DEF OwnerStep, LocalPush, LockReset, ResetTail, Room, Store, Publish, LockGrow,
             LocalPop, LocalPopCore, Exchange, Compare, Clear, Read, LockPop, Recheck,
             LocalFindAndPop, Search, LockFound
    <3> QED BY <3>1, <3>2, <3>3, <3>4
  <2> QED BY <2>1, <2>2 DEF SeenBelow
<1>3. ASSUME NEW t \in Thieves, ThiefStep(t) PROVE SeenBelow'
  <2> SUFFICES ASSUME pc'[t] \in {"tryEnter", "advance"}
                        \/ (pc'[t] = "canStealTail" /\ at'[t] < MaxIndex)
               PROVE  head' < MaxIndex
    BY DEF SeenBelow, SingleThief
  <2>0. t \in Thread
    BY <1>0
  <2>1. CASE CanSteal(t)
    BY <1>1, <2>0, <2>1, GotoFacts DEF CanSteal, TypeOK
  <2>2. CASE CanStealTail(t)
    <3>1. pc[t] = "canStealTail" /\ at[t] < tail /\ head' = head
      BY <1>1, <2>0, <2>2, GotoFacts DEF CanStealTail, ReturnNull
    <3>2. at[t] \in Int /\ at[t] < MaxIndex
      BY <1>0, <1>1, <2>0, <3>1 DEF TypeOK
    <3> QED BY <3>1, <3>2 DEF SeenBelow
  <2>3. CASE TryEnter(t)
    BY <1>1, <2>0, <2>3, GotoFacts DEF TryEnter, Miss, SeenBelow
  <2>4. CASE TrySteal(t) \/ Advance(t) \/ Claim(t) \/ Steal(t) \/ Stolen(t)
    BY <1>1, <2>0, <2>4, GotoFacts DEF TrySteal, Advance, Claim, Miss, Steal, Stolen, Return
  <2> QED BY <1>3, <2>1, <2>2, <2>3, <2>4 DEF ThiefStep
<1>4. CASE UNCHANGED vars
  BY <1>4 DEF vars, SeenBelow
<1> QED BY <1>2, <1>3, <1>4 DEF Next

\* Before the first push at the largest index nothing happens but its reset; after it
\* the tail stays below the largest index by what may still be pushed.
AtStart ==
  /\ pushed = 0 /\ tail = MaxIndex /\ head = MaxIndex
  /\ pc[Owner] \in {"idle", "lockReset", "resetHead"}
  /\ \A t \in Thieves :
       pc[t] \in {"idle", "canSteal"} \/ (pc[t] = "canStealTail" /\ at[t] = MaxIndex)
InReset == pc[Owner] = "resetTail" /\ pushed = 0
Top == IF pc[Owner] \in Popping THEN tail + 1 ELSE tail
BelowEnd == Top + MaxPushes - pushed < MaxIndex
TailFar == AtStart \/ InReset \/ BelowEnd

LEMMA TailFarSafe ==
  ASSUME QueueAssumption, QueueInv, TailFar
  PROVE  NoOverflow
<1> SUFFICES ASSUME NEW t \in Thieves, pc[t] = "advance" PROVE head < MaxIndex
  BY DEF NoOverflow
<1>1. lock = t
  BY DEF QueueInv, LockFits
<1>2. ~AtStart
  BY DEF AtStart
<1>3. pc[Owner] # "resetTail"
  BY <1>1, ThreadFacts DEF QueueInv, LockFits
<1>4. BelowEnd
  BY <1>2, <1>3 DEF TailFar, InReset
<1>5. ~Claimed
  BY <1>1 DEF Claimed, Claiming
<1>6. head <= Top /\ head \in Int /\ tail \in Int
  BY <1>3, <1>5 DEF QueueInv, IndexFits, TypeOK, Low, End, Tail, Top, Popping, Undecided
<1>7. pushed \in 0..MaxPushes /\ MaxPushes \in Nat /\ MaxIndex \in Nat
  BY ConstantFacts DEF QueueInv, TypeOK
<1> QED BY <1>4, <1>6, <1>7 DEF BelowEnd, Top

LEMMA TailFarNext ==
  ASSUME QueueAssumption, FarStart, QueueInv, TailFar, [Next]_vars
  PROVE  TailFar'
<1>0. /\ Owner \in Thread /\ Thieves \subseteq Thread /\ Owner \notin Thieves
      /\ MaxIndex \in Nat /\ InitialSize \in 2..MaxIndex /\ MaxPushes \in Nat
      /\ InitialSize + MaxPushes <= MaxIndex /\ MaxPushes <= MaxIndex
  BY ThreadFacts DEF QueueAssumption, FarStart
<1>1. /\ TypeOK /\ PlacesFit /\ AtFits /\ tail \in 0..MaxIndex /\ head \in 0..MaxIndex
      /\ mask \in Nat /\ pushed \in 0..MaxPushes /\ at[Owner] \in Int
  BY <1>0 DEF QueueInv, IndexFits, TypeOK
<1>2. CASE OwnerStep
  <2>1. \A t \in Thieves : pc'[t] = pc[t] /\ at'[t] = at[t]
    BY <1>2, OwnerFrame
  <2>2. CASE AtStart
    <3>0. CASE LocalPop
      <4>1. UNCHANGED <<pc, pushed, tail, head, at>>
        BY <1>0, <1>1, <2>2, <3>0 DEF AtStart, LocalPop
      <4> QED BY <2>2, <4>1 DEF AtStart, TailFar
    <3>1. LocalPop \/ LocalPush \/ LockReset \/ ResetHead
      BY <1>0, <1>1, <1>2, <2>2
         DEF AtStart, OwnerStep, ResetTail, Room, Store, Publish, LockGrow, Grow,
             LocalPopCore, Exchange, Compare, Clear, Read, LockPop, Recheck,
             LocalFindAndPop, Search, LockFound, Found
    <3>2. CASE LocalPush
      <4>1. pc'[Owner] = "lockReset" /\ UNCHANGED <<pushed, tail, head>>
        BY <1>0, <1>1, <2>2, <3>2, GotoFacts DEF LocalPush, AtStart, History
      <4> QED BY <2>1, <2>2, <4>1 DEF AtStart, TailFar
    <3>3. CASE LockReset
      <4>1. pc'[Owner] = "resetHead" /\ UNCHANGED <<pushed, tail, head>>
        BY <1>0, <1>1, <2>2, <3>3, GotoFacts DEF LockReset, History
      <4> QED BY <2>1, <2>2, <4>1 DEF AtStart, TailFar
    <3>4. CASE ResetHead
      <4>1. pc'[Owner] = "resetTail" /\ UNCHANGED pushed
        BY <1>0, <1>1, <3>4, GotoFacts DEF ResetHead, History
      <4> QED BY <2>2, <4>1 DEF AtStart, InReset, TailFar
    <3> QED BY <3>0, <3>1, <3>2, <3>3, <3>4
  <2>3. CASE InReset
    <3>1. ResetTail
      BY <1>2, <2>3
         DEF InReset, OwnerStep, LocalPush, LockReset, ResetHead, Room, Store, Publish,
             LockGrow, Grow, LocalPop, LocalPopCore, Exchange, Compare, Clear, Read, LockPop,
             Recheck, LocalFindAndPop, Search, LockFound, Found
    <3>2. /\ pc'[Owner] = "room" /\ tail' = And(tail, mask) /\ pushed' = 0
      BY <1>0, <1>1, <2>3, <3>1, GotoFacts DEF ResetTail, History, InReset
    <3>3. And(tail, mask) \in 0..mask /\ mask = InitialSize - 1
      BY <1>1, <2>3, AndRange DEF QueueInv, IndexFits, InReset
    <3>4. BelowEnd'
      BY <1>0, <3>2, <3>3 DEF BelowEnd, Top, Popping
    <3> QED BY <3>4 DEF TailFar
  <2>4. CASE BelowEnd
    <3>0. tail < MaxIndex
      BY <1>0, <1>1, <2>4 DEF BelowEnd, Top
    <3>1. Top' \in Int /\ pushed' \in Int /\ Top' - pushed' <= Top - pushed
      <4> USE <1>0, <1>1, <3>0 DEF Top, Popping
      <4>1. CASE LocalPush \/ Room \/ Store \/ LockGrow \/ LocalPop
        <5>1. /\ pc[Owner] \in {"idle", "room", "store", "lockGrow"}
              /\ pc'[Owner] \in {"idle", "lockReset", "room", "store", "lockGrow", "publish",
                                 "grow", "pop"}
              /\ UNCHANGED <<tail, pushed>>
          BY <4>1, GotoFacts DEF LocalPush, Room, Store, LockGrow, LocalPop, History
        <5> QED BY <5>1
      <4>2. CASE LockReset \/ ResetHead \/ ResetTail
        BY <4>2 DEF LockReset, ResetHead, ResetTail, AtFits
      <4>3. CASE Publish
        <5>1. /\ pc[Owner] = "publish" /\ pc'[Owner] = "idle" /\ tail' = tail + 1
              /\ pushed' = pushed + 1
          BY <4>3, GotoFacts DEF Publish, AtFits, Pushing
        <5> QED BY <5>1
      <4>4. CASE Grow
        <5>1. pc[Owner] = "grow" /\ pc'[Owner] = "store" /\ pushed' = pushed
          BY <4>4, GotoFacts DEF Grow, History
        <5>2. tail' = tail \/ tail' = Int32(tail - head)
          BY <4>4 DEF Grow
        <5>3. tail - head \in -(MaxIndex + 1)..MaxIndex
          OBVIOUS
        <5>4. Int32(tail - head) = tail - head
          BY <5>3, Int32Exact
        <5> QED BY <5>1, <5>2, <5>4
      <4>5. CASE LocalPopCore \/ (\E n \in 1..pushed : LocalFindAndPop(n)) \/ Search \/ LockFound
        <5>1. /\ pc[Owner] \in {"pop", "idle", "search", "lockFound"}
              /\ pc'[Owner] \in {"idle", "exchange", "pop", "search", "lockFound", "found"}
              /\ UNCHANGED <<tail, pushed>>
          BY <4>5, GotoFacts
             DEF LocalPopCore, ReturnNull, LocalFindAndPop, Search, LockFound, History
        <5> QED BY <5>1
      <4>6. CASE Exchange
        <5>1. /\ pc[Owner] = "exchange" /\ pc'[Owner] = "compare" /\ tail' = tail - 1
              /\ pushed' = pushed
          BY <4>6, GotoFacts DEF Exchange, AtFits, History
        <5> QED BY <5>1
      <4>7. CASE Compare \/ LockPop \/ Read \/ Clear
        <5>1. /\ pc[Owner] \in Popping /\ UNCHANGED <<tail, pushed>>
          BY <4>7 DEF Compare, LockPop, Read, Clear, History
        <5> QED BY <5>1
      <4>8. CASE Recheck
        <5>1. /\ pc[Owner] = "recheck" /\ at[Owner] = tail /\ pushed' = pushed
              /\ \/ pc'[Owner] = "read" /\ tail' = tail
                 \/ pc'[Owner] = "idle" /\ tail' = tail + 1
          BY <4>8, GotoFacts DEF Recheck, ReturnNull, AtFits
        <5> QED BY <5>1
      <4>9. CASE Found
        <5>1. /\ pc[Owner] = "found" /\ pc'[Owner] = "idle" /\ pushed' = pushed
              /\ tail' \in {tail, tail - 1}
          BY <4>9, GotoFacts DEF Found, Return
        <5> QED BY <5>1
      <4> QED BY <1>2, <4>1, <4>2, <4>3, <4>4, <4>5, <4>6, <4>7, <4>8, <4>9 DEF OwnerStep
    <3>2. BelowEnd'
      BY <1>0, <1>1, <2>4, <3>1 DEF BelowEnd, Top
    <3> QED BY <3>2 DEF TailFar
  <2> QED BY <2>2, <2>3, <2>4 DEF TailFar
<1>3. ASSUME NEW t \in Thieves, ThiefStep(t) PROVE TailFar'
  <2>1. /\ pc'[Owner] = pc[Owner] /\ UNCHANGED <<tail, pushed>>
        /\ \A u \in Thieves : u # t => pc'[u] = pc[u] /\ at'[u] = at[u]
    BY <1>3, ThiefFrame
  <2>2. CASE AtStart
    <3>0. t \in Thread
      BY <1>0
    <3>1. /\ head' = head
          /\ \/ pc'[t] \in {"idle", "canSteal"}
             \/ pc'[t] = "canStealTail" /\ at'[t] = MaxIndex
      <4>1. CASE TrySteal(t)
        BY <1>1, <3>0, <4>1, GotoFacts DEF TrySteal
      <4>2. CASE CanSteal(t)
        BY <1>1, <2>2, <3>0, <4>2, GotoFacts DEF CanSteal, AtStart, TypeOK
      <4>3. CASE CanStealTail(t)
        BY <1>0, <1>1, <2>2, <3>0, <4>3, GotoFacts DEF CanStealTail, ReturnNull, AtStart
      <4>4. CASE TryEnter(t) \/ Advance(t) \/ Claim(t) \/ Steal(t) \/ Stolen(t)
        BY <2>2, <4>4 DEF TryEnter, Advance, Claim, Steal, Stolen, AtStart
      <4> QED BY <1>3, <4>1, <4>2, <4>3, <4>4 DEF ThiefStep
    <3> QED BY <2>1, <2>2, <3>1 DEF AtStart, TailFar
  <2>3. CASE InReset
    BY <2>1, <2>3 DEF InReset, TailFar
  <2>4. CASE BelowEnd
    BY <2>1, <2>4 DEF BelowEnd, Top, TailFar
  <2> QED BY <2>2, <2>3, <2>4 DEF TailFar
<1>4. CASE UNCHANGED vars
  BY <1>4 DEF vars, TailFar, AtStart, InReset, BelowEnd, Top
<1> QED BY <1>2, <1>3, <1>4 DEF Next

-----------------------------------------------------------------------------
(* The theorems.  They hold for every number of pushes below the largest index, and  *)
(* either for one thief (and every start), or for any number of them where the       *)
(* indices do not come back to the largest one.                                      *)

\* The local queue keeps its invariant.
THEOREM QueueInvariant ==
  ASSUME QueueAssumption, HeadSafe
  PROVE  Spec => []QueueInv
<1>1. CASE FarStart
  <2>1. MaxPushes <= MaxIndex
    BY <1>1, ConstantFacts DEF FarStart
  <2>2. Init => QueueInv /\ TailFar
    <3> SUFFICES ASSUME Init PROVE TailFar
      BY QueueInvInit
    <3>1. /\ pushed = 0 /\ tail = head /\ head \in StartIndices /\ \A t \in Thread : pc[t] = "idle"
      BY DEF Init
    <3>2. CASE head = MaxIndex
      BY <3>1, <3>2, ThreadFacts DEF AtStart, TailFar
    <3>3. CASE head # MaxIndex
      <4>1. head + MaxPushes < MaxIndex /\ head \in Int /\ MaxPushes \in Int
        BY <1>1, <3>1, <3>3 DEF FarStart, QueueAssumption
      <4>2. BelowEnd
        BY <3>1, <4>1, ThreadFacts DEF BelowEnd, Top, Popping
      <4> QED BY <4>2 DEF TailFar
    <3> QED BY <3>2, <3>3
  <2>3. QueueInv /\ TailFar /\ [Next]_vars => (QueueInv /\ TailFar)'
    BY <1>1, <2>1, TailFarSafe, TailFarNext, QueueInvNext
  <2> QED BY <2>2, <2>3, PTL DEF Spec
<1>2. CASE SingleThief /\ MaxPushes <= MaxIndex
  <2>1. Init => QueueInv /\ SeenBelow
    <3>1. Init => SeenBelow
      BY ThreadFacts DEF Init, SeenBelow
    <3> QED BY <3>1, QueueInvInit
  <2>2. SeenBelow => NoOverflow
    BY DEF SeenBelow, NoOverflow
  <2>3. QueueInv /\ SeenBelow /\ [Next]_vars => (QueueInv /\ SeenBelow)'
    BY <1>2, <2>2, SeenBelowNext, QueueInvNext
  <2> QED BY <2>1, <2>3, PTL DEF Spec
<1> QED BY <1>1, <1>2 DEF HeadSafe

\* The array, the indices and what the threads hold keep their types.
THEOREM QueueTypes ==
  ASSUME QueueAssumption, HeadSafe
  PROVE  Spec => []TypeOK
<1>1. QueueInv => TypeOK
  BY DEF QueueInv
<1> QED BY <1>1, QueueInvariant, PTL

\* No item is handed out twice, whether LocalPop, LocalFindAndPop or TrySteal gets it.
THEOREM TakenOnceHolds ==
  ASSUME QueueAssumption, HeadSafe
  PROVE  Spec => []TakenOnce
<1>1. QueueInv => TakenOnce
  BY DEF QueueInv
<1> QED BY <1>1, QueueInvariant, PTL

\* Between calls, what was pushed and not handed out is what lies between head and tail.
THEOREM NothingLostHolds ==
  ASSUME QueueAssumption, HeadSafe
  PROVE  Spec => []NothingLost
<1>1. QueueInv => NothingLost
  <2> SUFFICES ASSUME QueueInv, Quiet PROVE Reachable = Queued
    BY DEF NothingLost
  <2>1. /\ pc[Owner] = "idle" /\ ~Claimed
    BY ThreadFacts DEF Quiet, Claimed, Claiming
  <2>2. Low = head /\ High = tail /\ Last = pushed
    BY <2>1 DEF Low, High, Tail, Last, Popping
  <2>3. TypeOK /\ mask \in Nat /\ head \in Int /\ tail \in Int /\ pushed \in Nat /\ Stock
    BY DEF QueueInv, TypeOK
  <2>4. ASSUME NEW n \in Reachable PROVE n \in Queued
    <3>1. PICK i \in head..tail - 1 : n = Slot(i)
      BY <2>4 DEF Reachable
    <3>2. n # Null /\ i \in Int
      BY <2>3, <2>4 DEF Reachable
    <3>3. And(i, mask) \in 0..mask
      BY <2>3, <3>2, AndRange
    <3>4. takes[n] = 0 /\ n <= pushed
      BY <2>2, <2>3, <3>1, <3>2, <3>3 DEF Stock, Slot
    <3>5. n \in Item
      BY <2>3, <3>1, <3>2, ItemTypes
    <3> QED BY <2>3, <3>4, <3>5, ConstantFacts DEF Queued, Item
  <2>5. ASSUME NEW n \in Queued PROVE n \in Reachable
    <3>1. PICK i \in Low..High - 1 : Slot(i) = n
      BY Located
    <3>2. n # Null
      BY <2>3, ItemTypes
    <3> QED BY <2>2, <3>1, <3>2 DEF Reachable
  <2> QED BY <2>4, <2>5
<1> QED BY <1>1, QueueInvariant, PTL

\* What a call that found the queue empty did not see has been handed out, once no call
\* is under way any more.
THEOREM AbsentWasTakenHolds ==
  ASSUME QueueAssumption, HeadSafe
  PROVE  Spec => []AbsentWasTaken
<1>1. QueueInv => AbsentWasTaken
  <2> SUFFICES ASSUME QueueInv, Quiet PROVE denied \cap Queued = {}
    BY DEF AbsentWasTaken
  <2>1. pc[Owner] = "idle" /\ \A t \in Thieves : pc[t] = "idle"
    BY ThreadFacts DEF Quiet
  <2>2. \A n \in denied \cap Queued : Covered(n)
    BY <2>1 DEF QueueInv, Denials, DeniedFits, Pushing
  <2> QED BY <2>1, <2>2 DEF Covered, Popping, Claiming
<1> QED BY <1>1, QueueInvariant, PTL
==============================================================================
