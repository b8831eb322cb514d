------------------------------ MODULE ClickBooks ------------------------------
(***************************************************************************)
(* What the platform's books promise about a click, whatever runs, fails or *)
(* is lost beneath: a click is registered once; the publisher is paid at    *)
(* most once and only for a registered click; a click is completed only     *)
(* when its publisher has been paid; completed and failed are final; and a  *)
(* campaign is charged the price of a click once, for a completed click     *)
(* only.  A click may stay pending for ever, a completed one uncharged, and *)
(* a failed one may still be paid: those are what the promise leaves out.   *)
(***************************************************************************)
EXTENDS Integers

CONSTANTS Clicks, Campaigns, Cost, NoCampaign

VARIABLES campaign,   \* campaign each click is for, NoCampaign before it comes
          status,     \* payment_status of each click
          paid,       \* clicks whose publisher has been paid
          charged,    \* clicks charged to their campaign
          books       \* spent_xlm of each campaign

booksVars == <<campaign, status, paid, charged, books>>

Init ==
  /\ campaign = [c \in Clicks |-> NoCampaign]
  /\ status = [c \in Clicks |-> "none"]
  /\ paid = {}
  /\ charged = {}
  /\ books = [k \in Campaigns |-> 0]

Arrive(c) ==
  /\ campaign[c] = NoCampaign
  /\ \E k \in Campaigns : campaign' = [campaign EXCEPT ![c] = k]
  /\ UNCHANGED <<status, paid, charged, books>>

Register(c) ==
  /\ campaign[c] # NoCampaign
  /\ status[c] = "none"
  /\ status' = [status EXCEPT ![c] = "pending"]
  /\ UNCHANGED <<campaign, paid, charged, books>>

Pay(c) ==
  /\ status[c] # "none"
  /\ c \notin paid
  /\ paid' = paid \union {c}
  /\ UNCHANGED <<campaign, status, charged, books>>

Complete(c) ==
  /\ status[c] = "pending"
  /\ c \in paid
  /\ status' = [status EXCEPT ![c] = "completed"]
  /\ UNCHANGED <<campaign, paid, charged, books>>

Fail(c) ==
  /\ status[c] = "pending"
  /\ status' = [status EXCEPT ![c] = "failed"]
  /\ UNCHANGED <<campaign, paid, charged, books>>

Charge(c) ==
  /\ status[c] = "completed"
  /\ c \notin charged
  /\ charged' = charged \union {c}
  /\ books' = [books EXCEPT ![campaign[c]] = @ + Cost[campaign[c]]]
  /\ UNCHANGED <<campaign, status, paid>>

Next ==
  \E c \in Clicks :
    \/ Arrive(c)
    \/ Register(c)
    \/ Pay(c)
    \/ Complete(c)
    \/ Fail(c)
    \/ Charge(c)

Spec == Init /\ [][Next]_booksVars
=============================================================================
