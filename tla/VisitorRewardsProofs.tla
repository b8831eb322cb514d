------------------------ MODULE VisitorRewardsProofs ------------------------
(***************************************************************************)
(* Theorems about VisitorRewards, for any wallets, sites and lengths of the  *)
(* day and of the cooldown.                                                  *)
(***************************************************************************)
EXTENDS VisitorRewards, TLAPS

LEMMA ClockTypes ==
  /\ DayLength \in Nat /\ Cooldown \in Nat /\ Start \in Nat /\ End \in Nat
  /\ MaxVisits \in Nat /\ MaxCrashes \in Nat
  /\ 0 < Cooldown /\ Cooldown < DayLength /\ Cooldown <= Start /\ Start <= End
BY Clock

(* The quotient and the remainder of a moment. *)
LEMMA Division ==
  ASSUME NEW t \in Int, NEW d \in Int, d > 0
  PROVE  t = d * (t \div d) + (t % d)
OBVIOUS

LEMMA DayOf ==
  ASSUME NEW t \in Nat
  PROVE  /\ Day(t) \in Nat
         /\ t % DayLength \in 0 .. DayLength - 1
         /\ t = DayLength * Day(t) + (t % DayLength)
<1>1. DayLength \in Int /\ DayLength > 0
  BY ClockTypes
<1>2. t = DayLength * (t \div DayLength) + (t % DayLength)
  BY <1>1, Division
<1> QED
  BY <1>1, <1>2 DEF Day

LEMMA Multiples ==
  ASSUME NEW d \in Nat, NEW p \in Nat, NEW q \in Nat, p <= q
  PROVE  d * p <= d * q
<1>1. q = p + (q - p) /\ q - p \in Nat
  OBVIOUS
<1>2. d * (q - p) >= 0
  BY <1>1
<1>3. d * q = d * p + d * (q - p)
  BY <1>1
<1> QED
  BY <1>2, <1>3

(* Days follow one another. *)
LEMMA DayMonotone ==
  ASSUME NEW t \in Nat, NEW u \in Nat, t <= u
  PROVE  Day(t) <= Day(u)
<1> SUFFICES ASSUME Day(u) + 1 <= Day(t)
             PROVE  FALSE
  BY DayOf
<1> DEFINE d == DayLength
           p == Day(t)
           q == Day(u)
           x == d * p
           y == d * q
           v == t % d
           w == u % d
<1>1. d \in Nat /\ p \in Nat /\ q \in Nat
  BY DayOf, ClockTypes
<1>2. v \in 0 .. d - 1 /\ w \in 0 .. d - 1 /\ t = x + v /\ u = y + w
  BY DayOf
<1>3. x \in Nat /\ y \in Nat
  BY <1>1
<1>4. d * (q + 1) <= d * p
  BY <1>1, Multiples
<1>5. d * (q + 1) = d * q + d
  BY <1>1
<1> HIDE DEF d, p, q, v, w
<1>6. y + d <= x
  BY <1>4, <1>5
<1> HIDE DEF x, y
<1> QED
  BY <1>1, <1>2, <1>3, <1>6

(* Six hours before a moment of the night is the day before, and six hours   *)
(* before any other moment the same day.                                     *)
LEMMA NightIsAnotherDay ==
  ASSUME NEW t \in Nat, Cooldown <= t
  PROVE  /\ t - Cooldown \in Nat
         /\ Night(t) => Day(t - Cooldown) = Day(t) - 1
         /\ ~Night(t) => Day(t - Cooldown) = Day(t)
<1> DEFINE u == t - Cooldown
           d == DayLength
           p == Day(u)
           q == Day(t)
           x == d * p
           y == d * q
           v == u % d
           w == t % d
<1>1. d \in Nat /\ Cooldown \in Nat /\ 0 < Cooldown /\ Cooldown < d /\ u \in Nat /\ u = t - Cooldown
  BY ClockTypes
<1>2. /\ p \in Nat /\ q \in Nat /\ v \in 0 .. d - 1 /\ w \in 0 .. d - 1
      /\ u = x + v /\ t = y + w
  BY <1>1, DayOf
<1>3. x \in Nat /\ y \in Nat
  BY <1>1, <1>2
<1>4. p <= q
  BY <1>1, DayMonotone
<1>5. p = q => x = y
  OBVIOUS
<1>6. p = q - 1 => y = x + d
  BY <1>1, <1>2
<1>7. p <= q - 2 => x + d + d <= y
  <2> SUFFICES ASSUME p <= q - 2
               PROVE  x + d + d <= y
    OBVIOUS
  <2>1. d * (p + 2) <= d * q
    BY <1>1, <1>2, Multiples
  <2>2. d * (p + 2) = d * p + d + d
    BY <1>1, <1>2
  <2> QED
    BY <2>1, <2>2
<1>8. Night(t) <=> w < Cooldown
  BY DEF Night
<1>9. p = q \/ p = q - 1 \/ p <= q - 2
  BY <1>2, <1>4
<1> HIDE DEF u, d, p, q, x, y, v, w
<1>10. ~(p <= q - 2)
  BY <1>1, <1>2, <1>3, <1>7
<1>11. p = q => ~(w < Cooldown)
  BY <1>1, <1>2, <1>3, <1>5
<1>12. p = q - 1 => w < Cooldown
  BY <1>1, <1>2, <1>3, <1>6
<1>13. /\ u \in Nat
       /\ Night(t) => p = q - 1
       /\ ~Night(t) => p = q
  BY <1>1, <1>8, <1>9, <1>10, <1>11, <1>12
<1> QED
  BY <1>13 DEF u, p, q
-----------------------------------------------------------------------------
Cooled == NightCooldown /\ WaitFollowsReward

LEMMA CooledInit == Init => TypeOK /\ RewardsAgree /\ Cooled
<1> SUFFICES ASSUME Init
             PROVE  TypeOK /\ RewardsAgree /\ Cooled
  OBVIOUS
<1>1. visits = <<>> /\ rewards = {} /\ immediates = {} /\ lost = {} /\ DOMAIN visits = {}
  BY DEF Init
<1>2. TypeOK
  BY <1>1, ClockTypes DEF Init, TypeOK
<1> QED
  BY <1>1, <1>2 DEF RewardsAgree, Cooled, NightCooldown, WaitFollowsReward

(* What a visit adds. *)
LEMMA NewVisitFacts ==
  ASSUME TypeOK, NEW k \in Keys, NEW s \in Sites, NEW st \in Statuses, NewVisit(k, s, st)
  PROVE  /\ visits' \in Seq(Visit)
         /\ Len(visits') = Number
         /\ Number \in Nat /\ DOMAIN visits = 1 .. Number - 1 /\ DOMAIN visits' = 1 .. Number
         /\ \A i \in DOMAIN visits : visits'[i] = visits[i]
         /\ visits'[Number].key = k /\ visits'[Number].site = s
         /\ visits'[Number].at = now /\ visits'[Number].status = st
         /\ visits'[Number].paid = CanReceive(k, s)
<1> DEFINE v == [key |-> k, site |-> s, at |-> now, paid |-> CanReceive(k, s), status |-> st]
<1>1. v \in Visit
  BY DEF Visit, TypeOK, CanReceive
<1>2. visits' = Append(visits, v) /\ visits \in Seq(Visit)
  BY DEF NewVisit, TypeOK
<1>3. /\ v.key = k /\ v.site = s /\ v.at = now /\ v.status = st
       /\ v.paid = CanReceive(k, s)
  BY Zenon
<1> HIDE DEF v
<1>4. /\ visits' \in Seq(Visit) /\ Len(visits') = Len(visits) + 1
      /\ \A i \in 1 .. Len(visits) : visits'[i] = visits[i]
      /\ visits'[Len(visits) + 1] = v
      /\ DOMAIN visits = 1 .. Len(visits) /\ DOMAIN visits' = 1 .. Len(visits) + 1
      /\ Len(visits) \in Nat
  BY <1>1, <1>2
<1> QED
  BY <1>3, <1>4 DEF Number

(* A row counts for the cooldown exactly when it is of the same night. *)
LEMMA RecentIsTonight ==
  ASSUME TypeOK, RewardsAgree, NEW k, NEW s, NEW i \in Recent(k, s)
  PROVE  i \in rewards /\ visits[i].key = k /\ visits[i].site = s
         /\ Day(visits[i].at) = Day(now) /\ Night(now)
<1>1. /\ i \in rewards /\ visits[i].key = k /\ visits[i].site = s
      /\ Day(visits[i].at) > Day(now - Cooldown)
  BY DEF Recent
<1>2. /\ i \in DOMAIN visits /\ visits[i] \in Visit /\ now \in Nat /\ Cooldown <= now
      /\ visits[i].at <= now
  BY <1>1, ClockTypes DEF TypeOK, RewardsAgree
<1>3. visits[i].at \in Nat
  BY <1>2, ClockTypes DEF Visit
<1>4. Day(visits[i].at) <= Day(now) /\ Day(visits[i].at) \in Nat /\ Day(now) \in Nat
  BY <1>2, <1>3, DayMonotone, DayOf
<1>5. /\ Night(now) => Day(now - Cooldown) = Day(now) - 1
      /\ ~Night(now) => Day(now - Cooldown) = Day(now)
  BY <1>2, NightIsAnotherDay
<1> QED
  BY <1>1, <1>4, <1>5

(* A visit keeps the cooldown, whether or not its row of user_rewards is     *)
(* written.                                                                  *)
LEMMA VisitKeepsCooled ==
  ASSUME TypeOK, RewardsAgree, Cooled, now' = now,
         NEW k \in Keys, NEW s \in Sites, NEW st \in Statuses, NewVisit(k, s, st),
         rewards' \subseteq rewards \union {Number}
  PROVE  Cooled'
<1> DEFINE n == Number
<1>1. /\ n \in Nat /\ DOMAIN visits = 1 .. n - 1 /\ DOMAIN visits' = 1 .. n
      /\ \A i \in DOMAIN visits : visits'[i] = visits[i]
      /\ visits'[n].key = k /\ visits'[n].site = s /\ visits'[n].at = now
      /\ visits'[n].paid = CanReceive(k, s)
  BY NewVisitFacts, Zenon
<1>2. n \notin DOMAIN visits /\ rewards \subseteq DOMAIN visits
  BY <1>1 DEF TypeOK
<1>3. ASSUME NEW i \in rewards, visits[i].key = k, visits[i].site = s,
             Day(visits[i].at) = Day(now), Night(now), CanReceive(k, s)
      PROVE  FALSE
  <2>1. now \in Nat /\ Cooldown <= now
    BY ClockTypes DEF TypeOK
  <2>2. Day(now - Cooldown) = Day(now) - 1 /\ Day(now) \in Nat
    BY <1>3, <2>1, NightIsAnotherDay, DayOf
  <2>3. i \in Recent(k, s)
    BY <1>3, <2>2 DEF Recent
  <2> QED
    BY <1>3, <2>3 DEF CanReceive
<1> HIDE DEF n
<1>4. NightCooldown'
  <2> SUFFICES ASSUME NEW i \in rewards', NEW j \in rewards', i # j,
                      SameVisitor(i, j)', SameDay(i, j)',
                      Night(visits'[i].at), Night(visits'[j].at),
                      visits'[i].paid, visits'[j].paid
               PROVE  FALSE
    BY DEF NightCooldown
  <2>1. (i \in rewards \/ i = n) /\ (j \in rewards \/ j = n)
    BY DEF n
  <2>2. CASE i \in rewards /\ j \in rewards
    <3>1. visits'[i] = visits[i] /\ visits'[j] = visits[j]
      BY <1>1, <1>2, <2>2
    <3> QED
      BY <2>2, <3>1 DEF Cooled, NightCooldown, SameVisitor, SameDay
  <2>3. CASE i = n /\ j \in rewards
    <3>1. visits'[j] = visits[j]
      BY <1>1, <1>2, <2>3
    <3> QED
      BY <1>1, <1>3, <2>3, <3>1 DEF SameVisitor, SameDay
  <2>4. CASE j = n /\ i \in rewards
    <3>1. visits'[i] = visits[i]
      BY <1>1, <1>2, <2>4
    <3> QED
      BY <1>1, <1>3, <2>4, <3>1 DEF SameVisitor, SameDay
  <2> QED
    BY <2>1, <2>2, <2>3, <2>4
<1>5. WaitFollowsReward'
  <2> SUFFICES ASSUME NEW i \in DOMAIN visits', visits'[i].key # NoWallet, ~visits'[i].paid
               PROVE  /\ Night(visits'[i].at)
                      /\ \E j \in 1..(i - 1) :
                           SameVisitor(i, j)' /\ SameDay(i, j)' /\ visits'[j].paid
    BY DEF WaitFollowsReward
  <2>1. CASE i \in DOMAIN visits
    <3>1. visits'[i] = visits[i]
      BY <1>1, <2>1
    <3>2. Night(visits[i].at)
      BY <2>1, <3>1 DEF Cooled, WaitFollowsReward
    <3>3. PICK j \in 1..(i - 1) : SameVisitor(i, j) /\ SameDay(i, j) /\ visits[j].paid
      BY <2>1, <3>1 DEF Cooled, WaitFollowsReward
    <3>4. visits'[j] = visits[j]
      BY <1>1, <2>1
    <3> QED
      BY <3>1, <3>2, <3>3, <3>4 DEF SameVisitor, SameDay
  <2>2. CASE i = n
    <3>1. PICK r : r \in Recent(k, s)
      BY <1>1, <2>2 DEF CanReceive
    <3>2. /\ r \in rewards /\ visits[r].key = k /\ visits[r].site = s
          /\ Day(visits[r].at) = Day(now) /\ Night(now)
      BY <3>1, RecentIsTonight
    <3>3. r \in 1 .. n - 1 /\ visits'[r] = visits[r]
      BY <1>1, <1>2, <3>2
    <3>4. CASE visits[r].paid
      BY <1>1, <2>2, <3>2, <3>3, <3>4 DEF SameVisitor, SameDay
    <3>5. CASE ~visits[r].paid
      <4>1. PICK j \in 1 .. (r - 1) : SameVisitor(r, j) /\ SameDay(r, j) /\ visits[j].paid
        BY <1>1, <2>2, <3>2, <3>3, <3>5 DEF Cooled, WaitFollowsReward
      <4>2. j \in 1 .. n - 1 /\ visits'[j] = visits[j]
        BY <1>1, <3>3, <4>1
      <4> QED
        BY <1>1, <2>2, <3>2, <4>1, <4>2 DEF SameVisitor, SameDay
    <3> QED
      BY <3>4, <3>5
  <2> QED
    BY <1>1, <2>1, <2>2
<1> QED
  BY <1>4, <1>5 DEF Cooled
-----------------------------------------------------------------------------
(* What the other steps leave of the visits: all but the status. *)
SameVisits ==
  /\ DOMAIN visits' = DOMAIN visits
  /\ \A i \in DOMAIN visits :
       /\ visits'[i].key = visits[i].key /\ visits'[i].site = visits[i].site
       /\ visits'[i].at = visits[i].at /\ visits'[i].paid = visits[i].paid

LEMMA ForgettingKeepsCooled ==
  ASSUME TypeOK, RewardsAgree, Cooled, SameVisits, rewards' \subseteq rewards,
         now' \in Nat, now <= now'
  PROVE  Cooled' /\ (\A i \in DOMAIN visits' : visits'[i].at <= now')
<1>1. rewards \subseteq DOMAIN visits /\ now \in Nat /\ visits \in Seq(Visit)
  BY ClockTypes DEF TypeOK
<1>2. \A i \in DOMAIN visits, j \in DOMAIN visits :
        /\ SameVisitor(i, j)' = SameVisitor(i, j)
        /\ SameDay(i, j)' = SameDay(i, j)
  BY DEF SameVisits, SameVisitor, SameDay
<1>3. NightCooldown'
  <2> SUFFICES ASSUME NEW i \in rewards', NEW j \in rewards', i # j,
                      SameVisitor(i, j)', SameDay(i, j)',
                      Night(visits'[i].at), Night(visits'[j].at),
                      visits'[i].paid, visits'[j].paid
               PROVE  FALSE
    BY DEF NightCooldown
  <2>1. i \in rewards /\ j \in rewards /\ i \in DOMAIN visits /\ j \in DOMAIN visits
    BY <1>1
  <2>2. SameVisitor(i, j) /\ SameDay(i, j)
    BY <1>2, <2>1
  <2> QED
    BY <2>1, <2>2 DEF Cooled, NightCooldown, SameVisits
<1>4. WaitFollowsReward'
  <2> SUFFICES ASSUME NEW i \in DOMAIN visits', visits'[i].key # NoWallet, ~visits'[i].paid
               PROVE  /\ Night(visits'[i].at)
                      /\ \E j \in 1..(i - 1) :
                           SameVisitor(i, j)' /\ SameDay(i, j)' /\ visits'[j].paid
    BY DEF WaitFollowsReward
  <2>1. i \in DOMAIN visits /\ visits[i].key # NoWallet /\ ~visits[i].paid
    BY DEF SameVisits
  <2>2. Night(visits[i].at)
    BY <2>1 DEF Cooled, WaitFollowsReward
  <2>3. PICK j \in 1..(i - 1) : SameVisitor(i, j) /\ SameDay(i, j) /\ visits[j].paid
    BY <2>1 DEF Cooled, WaitFollowsReward
  <2>4. j \in DOMAIN visits
    BY <1>1, <2>1
  <2>5. Night(visits'[i].at) /\ visits'[j].paid
    BY <2>1, <2>2, <2>3, <2>4 DEF SameVisits
  <2> QED
    BY <1>2, <2>1, <2>3, <2>4, <2>5
<1>5. \A i \in DOMAIN visits' : visits'[i].at <= now'
  <2> TAKE i \in DOMAIN visits'
  <2>1. visits[i] \in Visit /\ visits[i].at <= now /\ visits'[i].at = visits[i].at
    BY <1>1 DEF SameVisits, RewardsAgree
  <2>2. visits[i].at \in Nat
    BY <2>1, ClockTypes DEF Visit
  <2> QED
    BY <1>1, <2>1, <2>2
<1> QED
  BY <1>3, <1>4, <1>5 DEF Cooled
-----------------------------------------------------------------------------
RewardsInv == TypeOK /\ RewardsAgree /\ Cooled

(* A visit that is served, cut short or clicked. *)
LEMMA VisitStep ==
  ASSUME RewardsInv, NEW k \in Keys, NEW s \in Sites,
         View(k, s) \/ ViewCutShort(k, s) \/ Click(k, s)
  PROVE  RewardsInv'
<1>1. PICK st \in Statuses :
        /\ NewVisit(k, s, st)
        /\ now' = now /\ up' \in BOOLEAN /\ crashes' \in 0 .. MaxCrashes
        /\ Len(visits) < MaxVisits
        /\ rewards' \subseteq rewards \union {Number}
        /\ immediates' \subseteq immediates \union {i \in {Number} : st = "pending"}
        /\ lost' \subseteq lost \union immediates \union {i \in {Number} : st = "pending"}
        /\ immediates' \intersect lost' = {}
  <2>1. Number \notin lost /\ Number \notin immediates /\ MaxCrashes \in Nat
    BY ClockTypes DEF RewardsInv, TypeOK, Number
  <2>2. CASE View(k, s)
    BY <2>1, <2>2 DEF View, RecordImpression, RewardInserts, Statuses, RewardsInv, RewardsAgree, TypeOK
  <2>3. CASE ViewCutShort(k, s)
    <3>1. crashes' \in 0 .. MaxCrashes
      BY <2>1, <2>3 DEF ViewCutShort, Dies, RewardsInv, TypeOK
    <3>2. /\ NewVisit(k, s, "pending") /\ Len(visits) < MaxVisits
          /\ now' = now /\ up' = FALSE /\ rewards' = rewards
          /\ immediates' = {} /\ lost' = lost \union immediates \union {Number}
      BY <2>3 DEF ViewCutShort, Dies
    <3>3. "pending" \in Statuses
      BY DEF Statuses
    <3> QED
      BY <3>1, <3>2, <3>3
  <2>4. CASE Click(k, s)
    BY <2>1, <2>4 DEF Click, Statuses, RewardsInv, RewardsAgree, TypeOK
  <2> QED
    BY <2>2, <2>3, <2>4
<1> DEFINE n == Number
<1>2. /\ visits' \in Seq(Visit) /\ Len(visits') = n
      /\ n \in Nat /\ DOMAIN visits = 1 .. n - 1 /\ DOMAIN visits' = 1 .. n
      /\ \A i \in DOMAIN visits : visits'[i] = visits[i]
      /\ visits'[n].key = k /\ visits'[n].at = now /\ visits'[n].status = st
  BY <1>1, NewVisitFacts DEF RewardsInv
<1>3. now \in Start .. End /\ now \in Nat /\ n <= MaxVisits /\ 0 < n
  BY <1>1, ClockTypes DEF RewardsInv, TypeOK, Number
<1>4. /\ rewards' \subseteq rewards \union {n}
      /\ immediates' \subseteq immediates \union {i \in {n} : st = "pending"}
      /\ lost' \subseteq lost \union immediates \union {i \in {n} : st = "pending"}
  BY <1>1
<1>5. Cooled'
  BY <1>1, VisitKeepsCooled DEF RewardsInv
<1> HIDE DEF n
<1>6. TypeOK'
  <2>1. \A i \in DOMAIN visits : visits[i].status = "pending" => visits'[i].status = "pending"
    BY <1>2
  <2>2. st = "pending" => visits'[n].status = "pending"
    BY <1>2
  <2>3. /\ rewards \subseteq DOMAIN visits
        /\ immediates \subseteq {i \in DOMAIN visits : visits[i].status = "pending"}
        /\ lost \subseteq {i \in DOMAIN visits : visits[i].status = "pending"}
    BY DEF RewardsInv, TypeOK
  <2>4. n \in DOMAIN visits' /\ DOMAIN visits \subseteq DOMAIN visits'
    BY <1>2, <1>3
  <2>5. rewards' \subseteq DOMAIN visits'
    BY <1>4, <2>3, <2>4
  <2>6. /\ immediates' \subseteq {i \in DOMAIN visits' : visits'[i].status = "pending"}
        /\ lost' \subseteq {i \in DOMAIN visits' : visits'[i].status = "pending"}
    <3>1. ASSUME NEW i \in immediates' \union lost'
          PROVE  i \in DOMAIN visits' /\ visits'[i].status = "pending"
      <4>1. i \in immediates \union lost \/ (i = n /\ st = "pending")
        BY <1>4
      <4> QED
        BY <2>1, <2>2, <2>3, <2>4, <4>1
    <3> QED
      BY <3>1
  <2> QED
    BY <1>1, <1>2, <1>3, <2>5, <2>6 DEF TypeOK
<1>7. RewardsAgree'
  <2>1. ASSUME NEW i \in DOMAIN visits' PROVE visits'[i].at <= now'
    <3>1. CASE i \in DOMAIN visits
      BY <1>1, <1>2, <3>1 DEF RewardsInv, RewardsAgree
    <3>2. CASE i = n
      BY <1>1, <1>2, <1>3, <3>2
    <3> QED
      BY <1>2, <3>1, <3>2
  <2> QED
    BY <1>1, <2>1 DEF RewardsAgree
<1> QED
  BY <1>5, <1>6, <1>7 DEF RewardsInv

(* A payment, the death of the server, its start, and the clock. *)
LEMMA OtherStep ==
  ASSUME RewardsInv,
         (\E i \in DOMAIN visits : PayImpression(i)) \/ Crash \/ Restart \/ Tick \/ UNCHANGED vars
  PROVE  RewardsInv'
<1>1. /\ TypeOK /\ RewardsAgree /\ Cooled /\ now \in Nat /\ visits \in Seq(Visit)
      /\ rewards \subseteq DOMAIN visits
      /\ immediates \subseteq {i \in DOMAIN visits : visits[i].status = "pending"}
      /\ lost \subseteq {i \in DOMAIN visits : visits[i].status = "pending"}
      /\ immediates \intersect lost = {}
  BY ClockTypes DEF RewardsInv, RewardsAgree, TypeOK
<1>2. CASE \E i \in DOMAIN visits : PayImpression(i)
  <2> PICK i \in DOMAIN visits : PayImpression(i)
    BY <1>2
  <2>1. PICK st \in {"completed", "failed"} : visits' = [visits EXCEPT ![i].status = st]
    BY DEF PayImpression
  <2>2. /\ DOMAIN visits' = DOMAIN visits
        /\ \A j \in DOMAIN visits : j # i => visits'[j] = visits[j]
        /\ visits'[i] = [visits[i] EXCEPT !.status = st]
        /\ visits[i] \in Visit
        /\ DOMAIN visits = 1 .. Len(visits) /\ Len(visits) \in Nat
    BY <1>1, <2>1
  <2>3. /\ visits'[i] \in Visit /\ visits'[i].key = visits[i].key
        /\ visits'[i].site = visits[i].site /\ visits'[i].at = visits[i].at
        /\ visits'[i].paid = visits[i].paid
    BY <2>2 DEF Visit, Statuses
  <2>4. SameVisits
    BY <2>2, <2>3 DEF SameVisits
  <2>5. visits' \in Seq(Visit) /\ Len(visits') = Len(visits)
    BY <1>1, <2>1, <2>2, <2>3
  <2>6. i \in immediates /\ i \notin lost /\ immediates' = immediates \ {i} /\ lost' = lost
        /\ rewards' = rewards /\ now' = now /\ up' = up /\ crashes' = crashes
    BY <1>1 DEF PayImpression
  <2>7. TypeOK'
    BY <1>1, <2>2, <2>5, <2>6 DEF TypeOK
  <2>8. Cooled' /\ \A j \in DOMAIN visits' : visits'[j].at <= now'
    BY <1>1, <2>4, <2>6, ForgettingKeepsCooled
  <2> QED
    BY <1>1, <2>6, <2>7, <2>8 DEF RewardsInv, RewardsAgree
<1>3. ASSUME visits' = visits, rewards' \subseteq rewards, now' \in Start .. End, now <= now',
             up' \in BOOLEAN, crashes' \in 0 .. MaxCrashes,
             immediates' \subseteq immediates, lost' \subseteq lost \union immediates,
             immediates' \intersect lost' = {}
      PROVE  RewardsInv'
  <2>1. SameVisits /\ now' \in Nat
    BY <1>3, ClockTypes DEF SameVisits
  <2>2. TypeOK'
    BY <1>1, <1>3 DEF TypeOK
  <2>3. Cooled' /\ \A j \in DOMAIN visits' : visits'[j].at <= now'
    BY <1>1, <1>3, <2>1, ForgettingKeepsCooled
  <2> QED
    BY <1>3, <2>2, <2>3 DEF RewardsInv, RewardsAgree
<1>4. now <= now
  BY <1>1
<1>5. CASE Crash
  <2>1. crashes' \in 0 .. MaxCrashes
    BY <1>1, <1>5, ClockTypes DEF Crash, Dies, TypeOK
  <2> QED
    BY <1>1, <1>3, <1>4, <1>5, <2>1 DEF Crash, Dies, TypeOK
<1>6. CASE Restart
  BY <1>1, <1>3, <1>4, <1>6 DEF Restart, TypeOK
<1>7. CASE Tick
  <2>1. now' \in Start .. End /\ now <= now'
    BY <1>1, <1>7, ClockTypes DEF Tick, TypeOK
  <2> QED
    BY <1>1, <1>3, <1>7, <2>1 DEF Tick, TypeOK
<1>8. CASE UNCHANGED vars
  BY <1>1, <1>3, <1>4, <1>8 DEF vars, TypeOK
<1> QED
  BY <1>2, <1>5, <1>6, <1>7, <1>8

LEMMA RewardsInvStep == RewardsInv /\ [Next]_vars => RewardsInv'
<1> SUFFICES ASSUME RewardsInv, [Next]_vars
             PROVE  RewardsInv'
  OBVIOUS
<1>1. Wallets \union {NoWallet} \subseteq Keys /\ Fingerprints \subseteq Keys
  BY DEF Keys
<1>2. ASSUME NEW s \in Sites, NEW k \in Wallets \union {NoWallet}, View(k, s) \/ ViewCutShort(k, s)
      PROVE  RewardsInv'
  BY <1>1, <1>2, VisitStep
<1>3. ASSUME NEW s \in Sites, NEW k \in Fingerprints, Click(k, s)
      PROVE  RewardsInv'
  BY <1>1, <1>3, VisitStep
<1> QED
  BY <1>2, <1>3, OtherStep DEF Next

LEMMA RewardsInvHolds == Spec => []RewardsInv
<1>1. Init => RewardsInv
  BY CooledInit DEF RewardsInv
<1> QED
  BY <1>1, RewardsInvStep, PTL DEF Spec
-----------------------------------------------------------------------------
(* Visits, rewards and payments keep their shapes; a payment is due or lost  *)
(* only for an impression that is still pending.                             *)
THEOREM TypeCorrect == Spec => []TypeOK
<1>1. RewardsInv => TypeOK
  BY DEF RewardsInv
<1> QED
  BY <1>1, RewardsInvHolds, PTL

(* In the six hours after midnight the cooldown lets one visit per wallet    *)
(* and site be rewarded, for any length of the day above the cooldown        *)
(* (database.js 447-465).                                                    *)
THEOREM NightsAreCooled == Spec => []NightCooldown
<1>1. RewardsInv => NightCooldown
  BY DEF RewardsInv, Cooled
<1> QED
  BY <1>1, RewardsInvHolds, PTL

(* Nobody waits without a reward of the same night behind them               *)
(* (adMatchingService.js 297-327).                                           *)
THEOREM WaitsFollowRewards == Spec => []WaitFollowsReward
<1>1. RewardsInv => WaitFollowsReward
  BY DEF RewardsInv, Cooled
<1> QED
  BY <1>1, RewardsInvHolds, PTL

(* The status of an impression is final once it is settled, whatever stops   *)
(* and restarts the server (adMatchingService.js 377-409).                   *)
THEOREM ImpressionsSettleOnce == Spec => ImpressionLifecycle
<1> DEFINE Final == \A i \in DOMAIN visits :
                      visits[i].status # "pending" => visits'[i].status = visits[i].status
<1>1. RewardsInv /\ [Next]_vars => [Final]_vars
  <2> SUFFICES ASSUME TypeOK, Next, NEW i \in DOMAIN visits, visits[i].status # "pending"
               PROVE  visits'[i].status = visits[i].status
    BY DEF RewardsInv
  <2>1. ASSUME visits'[i] = visits[i]
        PROVE  visits'[i].status = visits[i].status
    BY <2>1
  <2>2. ASSUME NEW k \in Keys, NEW s \in Sites, NEW st \in Statuses, NewVisit(k, s, st)
        PROVE  visits'[i].status = visits[i].status
    BY <2>1, <2>2, NewVisitFacts
  <2>3. Wallets \union {NoWallet} \subseteq Keys /\ Fingerprints \subseteq Keys
    BY DEF Keys
  <2>4. ASSUME NEW s \in Sites, NEW k \in Wallets \union {NoWallet}, View(k, s) \/ ViewCutShort(k, s)
        PROVE  visits'[i].status = visits[i].status
    BY <2>2, <2>3, <2>4 DEF View, RecordImpression, ViewCutShort, Statuses
  <2>5. ASSUME NEW s \in Sites, NEW k \in Fingerprints, Click(k, s)
        PROVE  visits'[i].status = visits[i].status
    BY <2>2, <2>3, <2>5 DEF Click, Statuses
  <2>6. ASSUME NEW j \in DOMAIN visits, PayImpression(j)
        PROVE  visits'[i].status = visits[i].status
    <3>1. j # i
      BY <2>6 DEF PayImpression, TypeOK
    <3>2. PICK st : visits' = [visits EXCEPT ![j].status = st]
      BY <2>6 DEF PayImpression
    <3> QED
      BY <2>1, <3>1, <3>2
  <2>7. CASE Crash \/ Restart \/ Tick
    BY <2>1, <2>7 DEF Crash, Restart, Tick
  <2> QED
    BY <2>4, <2>5, <2>6, <2>7 DEF Next
<1>2. Spec => [][Final]_vars
  BY <1>1, RewardsInvHolds, PTL DEF Spec
<1> QED
  BY <1>2 DEF ImpressionLifecycle

-----------------------------------------------------------------------------
(* Every step leaves each pending impression due or lost. *)
LEMMA PendingStep ==
  ASSUME RewardsInv, PendingIsDueOrLost, [Next]_vars
  PROVE  PendingIsDueOrLost'
<1>1. /\ TypeOK /\ visits \in Seq(Visit) /\ crashes \in Nat
      /\ \A i \in immediates \union lost : i \in DOMAIN visits /\ visits[i].status = "pending"
      /\ \A i \in DOMAIN visits : visits[i].status = "pending" => i \in immediates \union lost
      /\ immediates \intersect lost = {} /\ (up \/ immediates = {})
      /\ crashes = 0 => lost = {}
  BY ClockTypes DEF RewardsInv, TypeOK, PendingIsDueOrLost
<1>2. ASSUME NEW k \in Keys, NEW s \in Sites, View(k, s) \/ ViewCutShort(k, s) \/ Click(k, s)
      PROVE  PendingIsDueOrLost'
  <2>1. PICK st \in Statuses :
          /\ NewVisit(k, s, st)
          /\ \/ /\ st = "pending" /\ up' = up /\ up /\ crashes' = crashes /\ lost' = lost
                /\ immediates' = immediates \union {Number}
             \/ /\ st = "pending" /\ up' = FALSE /\ crashes' = crashes + 1
                /\ immediates' = {} /\ lost' = lost \union immediates \union {Number}
             \/ /\ st = "click" /\ up' = up /\ crashes' = crashes /\ lost' = lost
                /\ immediates' = immediates
    BY <1>2 DEF View, RecordImpression, ViewCutShort, Dies, Click, Statuses
  <2>2. /\ DOMAIN visits = 1 .. Number - 1 /\ DOMAIN visits' = 1 .. Number /\ Number \in Nat
        /\ \A i \in DOMAIN visits : visits'[i] = visits[i]
        /\ visits'[Number].status = st
    BY <2>1, NewVisitFacts DEF RewardsInv
  <2>3. Number \notin immediates /\ Number \notin lost
    BY <1>1, <2>2
  <2>4. ASSUME NEW i \in DOMAIN visits', visits'[i].status = "pending"
        PROVE  i \in immediates' \union lost'
    <3>1. CASE i \in DOMAIN visits
      BY <1>1, <2>1, <2>2, <2>4, <3>1
    <3>2. CASE i = Number
      BY <2>1, <2>2, <2>4, <3>2
    <3> QED
      BY <2>2, <3>1, <3>2
  <2>5. immediates' \intersect lost' = {} /\ (up' \/ immediates' = {})
    BY <1>1, <2>1, <2>3
  <2>6. crashes' = 0 => lost' = {}
    BY <1>1, <2>1
  <2> QED
    BY <2>4, <2>5, <2>6 DEF PendingIsDueOrLost
<1>3. ASSUME NEW i \in DOMAIN visits, PayImpression(i)
      PROVE  PendingIsDueOrLost'
  <2>1. PICK st \in {"completed", "failed"} : visits' = [visits EXCEPT ![i].status = st]
    BY <1>3 DEF PayImpression
  <2>2. /\ DOMAIN visits' = DOMAIN visits
        /\ \A j \in DOMAIN visits : j # i => visits'[j] = visits[j]
        /\ visits[i] \in Visit
    BY <1>1, <2>1
  <2>3. visits'[i].status = st
    BY <2>1, <2>2 DEF Visit
  <2> QED
    BY <1>1, <1>3, <2>2, <2>3 DEF PayImpression, PendingIsDueOrLost
<1>4. CASE Crash
  BY <1>1, <1>4 DEF Crash, Dies, PendingIsDueOrLost
<1>5. CASE Restart
  BY <1>1, <1>5 DEF Restart, PendingIsDueOrLost
<1>6. CASE Tick \/ UNCHANGED vars
  BY <1>1, <1>6 DEF Tick, vars, PendingIsDueOrLost
<1>7. Wallets \union {NoWallet} \subseteq Keys /\ Fingerprints \subseteq Keys
  BY DEF Keys
<1> QED
  BY <1>2, <1>3, <1>4, <1>5, <1>6, <1>7 DEF Next

(* No impression is forgotten by a running server, for any number of visits  *)
(* and deaths of the process: a row left pending is due or died with it.     *)
THEOREM NothingWaitsForNothing == Spec => []PendingIsDueOrLost
<1>1. Init => PendingIsDueOrLost
  BY DEF Init, PendingIsDueOrLost
<1>2. RewardsInv /\ PendingIsDueOrLost /\ [Next]_vars => PendingIsDueOrLost'
  BY PendingStep
<1> QED
  BY <1>1, <1>2, RewardsInvHolds, PTL DEF Spec
=============================================================================
