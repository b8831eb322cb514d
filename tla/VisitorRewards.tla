--------------------------- MODULE VisitorRewards ---------------------------
(***************************************************************************)
(* The rewards of one visitor: the impressions the server records for ads   *)
(* it serves and for views a page reports, their cooldown in user_rewards,  *)
(* their simulated payment, and the same cooldown looked up for clicks      *)
(* (adMatchingService.js recordImpression, processImpressionPayment,        *)
(* processClickWithUserReward; database.js).                                *)
(*                                                                         *)
(* An action is one callback of the event loop, the death of the process    *)
(* inside one, or the passing of time.  Time goes by in ticks; created_at   *)
(* is compared as text with an ISO date, which leaves the days to decide.   *)
(***************************************************************************)
EXTENDS Integers, Sequences

CONSTANTS Wallets,       \* public keys a page may report
          Registered,    \* those with a row in user_wallets, from before this version
          Fingerprints,  \* hashes of address and user agent
          NoWallet,      \* a served ad, or a page without a wallet
          Sites,
          DayLength,     \* ticks of a day
          Cooldown,      \* ticks of six hours
          Start, End,    \* ticks of the first and the last moment
          MaxVisits,     \* bound on the visits
          MaxCrashes     \* bound on the deaths of the process

ASSUME RegisteredKnown == Registered \subseteq Wallets
ASSUME KeysDiffer == /\ NoWallet \notin Wallets \union Fingerprints
                     /\ Wallets \intersect Fingerprints = {}
ASSUME Clock == /\ {DayLength, Cooldown, Start, End, MaxVisits, MaxCrashes} \subseteq Nat
                /\ 0 < Cooldown /\ Cooldown < DayLength /\ Cooldown <= Start
                /\ Start <= End

VARIABLES
  now,         \* the tick
  up,          \* the process runs
  crashes,
  visits,      \* the visits in the order the server handled them
  rewards,     \* numbers of the visits with a row in user_rewards
  immediates,  \* numbers of the impressions whose payment setImmediate will process
  lost         \* history: impressions whose payment went with the process

vars == <<now, up, crashes, visits, rewards, immediates, lost>>

Statuses == {"pending", "completed", "failed", "click"}
Keys     == Wallets \union Fingerprints \union {NoWallet}
Visit    == [key : Keys, site : Sites, at : Start..End, paid : BOOLEAN, status : Statuses]

Day(t)   == t \div DayLength

Init ==
  /\ now = Start
  /\ up = TRUE
  /\ crashes = 0
  /\ visits = <<>>
  /\ rewards = {}
  /\ immediates = {}
  /\ lost = {}

-----------------------------------------------------------------------------
(* Mutant: the cooldown is counted from now. *)
RecentFromNow(k, s) ==
  {i \in rewards : /\ visits[i].key = k /\ visits[i].site = s
                   /\ Day(visits[i].at) > Day(now)}

(* Mutant: the site is not looked at. *)
RecentAnySite(k, s) ==
  {i \in rewards : visits[i].key = k /\ Day(visits[i].at) > Day(now - Cooldown)}

(* created_at > sixHoursAgo: 'YYYY-MM-DD HH:MM:SS' against                  *)
(* 'YYYY-MM-DDTHH:MM:SS.mmmZ'.  On one day the blank is below the T.        *)
Recent(k, s) ==
  {i \in rewards : /\ visits[i].key = k /\ visits[i].site = s
                   /\ Day(visits[i].at) > Day(now - Cooldown)}

(* canUserReceiveRewards *)
CanReceive(k, s) == k # NoWallet /\ Recent(k, s) = {}

(* recordUserReward: the insert needs the key in user_wallets, and any error *)
(* of it is caught.                                                         *)
RewardInserts(k) == k \in Registered

Dies == up' = FALSE /\ crashes < MaxCrashes /\ crashes' = crashes + 1

Number == Len(visits) + 1

NewVisit(k, s, st) ==
  visits' = Append(visits, [key |-> k, site |-> s, at |-> now,
                            paid |-> CanReceive(k, s), status |-> st])

(* Mutant: the guard of the comment is back, and the payment under it. *)
RecordImpressionGuarded(k, s) ==
  /\ NewVisit(k, s, "pending")
  /\ IF CanReceive(k, s)
       THEN /\ immediates' = immediates \union {Number}
            /\ rewards' = IF RewardInserts(k) THEN rewards \union {Number} ELSE rewards
       ELSE UNCHANGED <<immediates, rewards>>

(* recordImpression, from the look-up of the cooldown to setImmediate.  The  *)
(* row of the reward is missing also when its insert fails.  When the first *)
(* insert fails nothing is recorded.                                        *)
RecordImpression(k, s) ==
  /\ NewVisit(k, s, "pending")
  /\ immediates' = immediates \union {Number}
  /\ \/ RewardInserts(k) /\ rewards' = rewards \union {Number}
     \/ UNCHANGED rewards

(* GET /api/ad without a key, POST /api/impression with the page's. *)
View(k, s) ==
  /\ up /\ Len(visits) < MaxVisits
  /\ RecordImpression(k, s)
  /\ UNCHANGED <<now, up, crashes, lost>>

(* The process dies between the insert of the impression and the rest. *)
ViewCutShort(k, s) ==
  /\ up /\ Len(visits) < MaxVisits
  /\ NewVisit(k, s, "pending")
  /\ Dies
  /\ immediates' = {}
  /\ lost' = lost \union immediates \union {Number}
  /\ UNCHANGED <<now, rewards>>

(* processClickWithUserReward looks the cooldown up under the fingerprint    *)
(* and records no row in user_rewards.                                      *)
Click(k, s) ==
  /\ up /\ Len(visits) < MaxVisits
  /\ NewVisit(k, s, "click")
  /\ UNCHANGED <<now, up, crashes, rewards, immediates, lost>>

(* processImpressionPayment settles the row; when its update throws, the    *)
(* catch marks it failed.                                                   *)
PayImpression(i) ==
  /\ up /\ i \in immediates
  /\ \E st \in {"completed", "failed"} : visits' = [visits EXCEPT ![i].status = st]
  /\ immediates' = immediates \ {i}
  /\ UNCHANGED <<now, up, crashes, rewards, lost>>

(* A signal, or the second update of processImpressionPayment throws: the   *)
(* rejection has no handler and ends the process.                           *)
Crash ==
  /\ up
  /\ Dies
  /\ immediates' = {}
  /\ lost' = lost \union immediates
  /\ UNCHANGED <<now, visits, rewards>>

(* Mutant: the start takes the impressions left pending for failed. *)
RestartSettles ==
  /\ ~up
  /\ up' = TRUE
  /\ rewards' = {}
  /\ visits' = [i \in DOMAIN visits |-> [visits[i] EXCEPT !.status = "failed"]]
  /\ UNCHANGED <<now, crashes, immediates, lost>>

(* Mutant: a payment that was in flight is taken up again. *)
RestartResumes ==
  /\ ~up
  /\ up' = TRUE
  /\ rewards' = {}
  /\ immediates' = {i \in DOMAIN visits : visits[i].status # "click"}
  /\ UNCHANGED <<now, crashes, visits, lost>>

(* startServer; createTables drops user_rewards. *)
Restart ==
  /\ ~up
  /\ up' = TRUE
  /\ rewards' = {}
  /\ UNCHANGED <<now, crashes, visits, immediates, lost>>

Tick ==
  /\ now < End
  /\ now' = now + 1
  /\ UNCHANGED <<up, crashes, visits, rewards, immediates, lost>>

Next ==
  \/ Crash \/ Restart \/ Tick
  \/ \E s \in Sites : \/ \E k \in Wallets \union {NoWallet} : View(k, s) \/ ViewCutShort(k, s)
                      \/ \E k \in Fingerprints : Click(k, s)
  \/ \E i \in DOMAIN visits : PayImpression(i)

Spec == Init /\ [][Next]_vars

(* The event loop runs the callbacks that are due. *)
FairSpec == Spec /\ \A i \in 1..MaxVisits : WF_vars(i \in DOMAIN visits /\ PayImpression(i))

-----------------------------------------------------------------------------
TypeOK ==
  /\ now \in Start..End
  /\ up \in BOOLEAN
  /\ crashes \in 0..MaxCrashes
  /\ visits \in Seq(Visit) /\ Len(visits) <= MaxVisits
  /\ rewards \subseteq DOMAIN visits
  /\ immediates \subseteq {i \in DOMAIN visits : visits[i].status = "pending"}
  /\ lost \subseteq {i \in DOMAIN visits : visits[i].status = "pending"}

Night(t) == t % DayLength < Cooldown
SameVisitor(i, j) == visits[i].key = visits[j].key /\ visits[i].site = visits[j].site
SameDay(i, j) == Day(visits[i].at) = Day(visits[j].at)

(* In the six hours after midnight UTC the cooldown works: of the rewards   *)
(* user_rewards holds, one visitor has at most one that pays per site and   *)
(* night (database.js 447-465).                                             *)
NightCooldown ==
  \A i, j \in rewards :
    /\ i # j /\ SameVisitor(i, j) /\ SameDay(i, j)
    /\ Night(visits[i].at) /\ Night(visits[j].at)
    => ~(visits[i].paid /\ visits[j].paid)

(* A wallet is told to wait only after a visit of the same night to the     *)
(* same site that was rewarded: the rows of unpaid visits, which are        *)
(* recorded as well, start no wait of their own (adMatchingService.js       *)
(* 297-327).                                                                *)
WaitFollowsReward ==
  \A i \in DOMAIN visits :
    visits[i].key # NoWallet /\ ~visits[i].paid =>
      /\ Night(visits[i].at)
      /\ \E j \in 1..(i - 1) : SameVisitor(i, j) /\ SameDay(i, j) /\ visits[j].paid

(* What makes it so: no visit is of the future, and a payment is due or      *)
(* lost.                                                                    *)
RewardsAgree ==
  /\ \A i \in DOMAIN visits : visits[i].at <= now
  /\ immediates \intersect lost = {}

(* The status of an impression changes once, from pending, and no restart   *)
(* of the server touches it (adMatchingService.js 377-409).                 *)
ImpressionLifecycle ==
  [][\A i \in DOMAIN visits :
       visits[i].status # "pending" => visits'[i].status = visits[i].status]_vars

(* An impression that stays pending has either its callback due or died with *)
(* the process, never both: no row waits for nothing while the server runs,  *)
(* no restart takes a lost payment up again, and as long as the process has  *)
(* not died nothing is lost (adMatchingService.js 309-339, 377-409).         *)
PendingIsDueOrLost ==
  /\ \A i \in DOMAIN visits :
       visits[i].status = "pending" => i \in immediates \union lost
  /\ immediates \intersect lost = {}
  /\ up \/ immediates = {}
  /\ crashes = 0 => lost = {}

Unsettled == {i \in DOMAIN visits : visits[i].status = "pending"} \ lost

(* The server catches up: every impression gets a final status, or its      *)
(* process died (adMatchingService.js 337-339).                             *)
EveryImpressionSettles == Unsettled # {} ~> Unsettled = {}

(* "Sistema de cooldown de 6 horas por usuario/site" (CONTEXTO-SISTEMA.md): *)
(* two rewards for one wallet on one site are six hours apart.              *)
SixHourCooldown ==
  \A i, j \in DOMAIN visits :
    /\ i < j /\ SameVisitor(i, j) /\ visits[i].paid /\ visits[j].paid
    => visits[j].at - visits[i].at >= Cooldown

RewardedTwice(k, s) ==
  \E i, j \in DOMAIN visits :
    /\ i < j /\ SameVisitor(i, j) /\ visits[i].key = k /\ visits[i].site = s
    /\ SameDay(i, j) /\ Night(visits[i].at) /\ Night(visits[j].at)
    /\ visits[i].paid /\ visits[j].paid

(* "Anti-farming (6h por usuário/site)" (CONTEXTO-SISTEMA.md 92), of a      *)
(* visitor with a wallet when a page reports a view and with a fingerprint  *)
(* when it clicks, in the night hours in which the dates do compare: it is  *)
(* made to wait under one of its keys at least.  A view's row is refused by *)
(* the foreign key of user_rewards (database.js 133), a click inserts none  *)
(* (adMatchingService.js 422).                                              *)
SomeKeyWaits ==
  \A s \in Sites : \E k \in Wallets \union Fingerprints : ~RewardedTwice(k, s)
=============================================================================
