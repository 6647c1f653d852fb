---------------------------- MODULE ConsoleWrites ----------------------------
(***************************************************************************)
(* One wish of an operator, carried through the console to the chain: a    *)
(* payment, a split, a scheduled payment, its cancellation, a deployment.  *)
(* The form gives the write a key that the chain accepts once (the nonce,  *)
(* the intent ID, the salt); the write is checked, built, signed by the    *)
(* wallet, sent and polled for; and the operator, told anything but that   *)
(* the wish is fulfilled, presses the button again.  A nonce or an intent  *)
(* ID can also be drawn or typed by hand, at any time, and is drawn anew   *)
(* when the page is loaded again.                                          *)
(*                                                                         *)
(* Time is ticks.  A transaction carries a time bound, the poll a limit,   *)
(* and the RPC shows a settled transaction after Lag ticks at most.        *)
(***************************************************************************)
EXTENDS Naturals, Sequences

CONSTANTS
  Kinds,       \* the wishes considered: a subset of AllKinds
  TxTimeout,   \* setTimeout(120)
  PollLimit,   \* ninety polls, two seconds apart
  Lag,         \* how long the RPC may not know a settled transaction
  MaxTx,       \* bound: transactions sent
  MaxVersion,  \* bound: policy versions
  MaxFaults,   \* bound: requests that fail, signatures refused
  MaxHands     \* bound: keys drawn or typed by hand, pages loaded again

AllKinds == {"payment", "split", "schedule", "cancel", "deploy"}

\* Those whose key is a field of the form.
Keyed == {"payment", "split", "schedule"}

ASSUME WritesAssumption ==
  /\ Kinds \subseteq AllKinds
  /\ TxTimeout \in Nat /\ PollLimit \in Nat /\ Lag \in Nat
  /\ TxTimeout < PollLimit /\ TxTimeout + Lag <= PollLimit
  /\ MaxTx \in Nat /\ MaxVersion \in Nat \ {0}
  /\ MaxFaults \in Nat /\ MaxHands \in Nat

VARIABLES
  kind,     \* the wish
  pc,       \* the await the mutation resumes from
  form,     \* the form: its key, the policy version it expects, how many keys
            \* were drawn so far and how many times the key was changed by hand
  draft,    \* the form as the mutation captured it when the button was pressed
  built,    \* the transaction being signed: its sequence number and age
  txs,      \* the transactions sent, in order
  polls,    \* ticks polled for the last of them
  told,     \* what the operator was told last
  seqno,    \* the sequence number of the source account
  version,  \* the treasury's policy version
  faults

vars == <<kind, pc, form, draft, built, txs, polls, told, seqno, version, faults>>
chain == <<seqno, version>>
page == <<pc, form, draft, built, polls, told>>

Drafts == [key : Nat, ver : Nat, drawn : Nat, hand : Nat]
Tx == [key : Nat, ver : Nat, hand : Nat, shown : Nat, seq : Nat, age : Nat,
       st : {"pending", "landed", "failed", "expired"}, at : Nat, since : Nat]

NoDraft == [key |-> 0, ver |-> 0, drawn |-> 0, hand |-> 0]
NotBuilt == [seq |-> 0, age |-> 0]

TypeOK ==
  /\ kind \in Kinds
  /\ pc \in {"form", "checked", "signing", "polling"}
  /\ form \in Drafts /\ draft \in Drafts
  /\ built \in [seq : Nat, age : Nat]
  /\ txs \in Seq(Tx)
  /\ polls \in 0..PollLimit
  /\ told \in {"nothing", "simulated", "confirmed", "failed", "pending",
               "undeployed", "spent", "exists", "error"}
  /\ seqno \in Nat /\ version \in Nat /\ faults \in 0..MaxFaults
  /\ pc = "polling" => txs # << >>

Init ==
  /\ kind \in Kinds /\ pc = "form" /\ told = "nothing"
  /\ form = [key |-> 1, ver |-> 1, drawn |-> 1, hand |-> 0]
  /\ draft = NoDraft /\ built = NotBuilt
  /\ txs = << >> /\ polls = 0
  /\ seqno = 0 /\ version = 1 /\ faults = 0

Fault == faults < MaxFaults /\ faults' = faults + 1
NoFault == UNCHANGED faults

-----------------------------------------------------------------------------
(* The chain. *)

Landed == {t \in DOMAIN txs : txs[t].st = "landed"}

\* is_nonce_used, get_intent.  A cancellation uses up nothing, and a salt is
\* never used twice.
Spent(key) == kind # "cancel" /\ \E t \in Landed : txs[t].key = key

\* The contracts take a key once, and compare the version a payment expects
\* with the treasury's.
Accepts(key, ver) ==
  /\ ~Spent(key)
  /\ kind \in {"payment", "split"} => ver = version

\* A ledger includes a transaction of the account's next sequence number.
Settle(t, st) ==
  /\ txs[t].st = "pending" /\ txs[t].seq = seqno + 1
  /\ txs' = [txs EXCEPT ![t].st = st, ![t].at = version, ![t].age = 0]
  /\ seqno' = seqno + 1
  /\ UNCHANGED <<kind, page, version, faults>>

Include(t) == Accepts(txs[t].key, txs[t].ver) /\ Settle(t, "landed")

IncludeFailed(t) == ~Accepts(txs[t].key, txs[t].ver) /\ Settle(t, "failed")

\* policy_engine.bump_version
BumpVersion ==
  /\ version < MaxVersion /\ version' = version + 1
  /\ UNCHANGED <<kind, page, txs, seqno, faults>>

\* What a tick makes of a transaction that was sent.
Aged(tx) ==
  CASE tx.st = "pending" /\ tx.age = TxTimeout -> [tx EXCEPT !.st = "expired", !.age = 0]
    [] tx.st = "pending" /\ tx.age < TxTimeout -> [tx EXCEPT !.age = @ + 1]
    [] tx.st \in {"landed", "failed"} /\ tx.since < Lag -> [tx EXCEPT !.since = @ + 1]
    [] OTHER                                   -> tx

\* Mutant: the poll has no limit.
Tick_NoLimit ==
  /\ polls' = IF pc = "polling" THEN polls + 1 ELSE polls
  /\ built' = IF pc = "signing" /\ built.age <= TxTimeout
                THEN [built EXCEPT !.age = @ + 1] ELSE built
  /\ txs' = [t \in DOMAIN txs |-> Aged(txs[t])]
  /\ UNCHANGED <<kind, pc, form, draft, told, chain, faults>>

\* Two seconds: a poll that is at its limit is answered before they pass.
Tick ==
  /\ pc = "polling" => polls < PollLimit
  /\ polls' = IF pc = "polling" THEN polls + 1 ELSE polls
  /\ built' = IF pc = "signing" /\ built.age <= TxTimeout
                THEN [built EXCEPT !.age = @ + 1] ELSE built
  /\ txs' = [t \in DOMAIN txs |-> Aged(txs[t])]
  /\ UNCHANGED <<kind, pc, form, draft, told, chain, faults>>

-----------------------------------------------------------------------------
(* The console. *)

\* randomSaltHex: no transaction has it.
Salt == Len(txs) + 1

\* makeNonce, makeIntentId: nothing is drawn twice.
Renewed ==
  [key |-> form.drawn + 1, ver |-> form.ver, drawn |-> form.drawn + 1, hand |-> form.hand]

\* The mutation ends; the form's key is renewed or not; the notice is shown.
End(what, renews) ==
  /\ pc' = "form" /\ told' = what
  /\ form' = IF renews THEN Renewed ELSE form
  /\ draft' = NoDraft /\ built' = NotBuilt /\ polls' = 0

\* The operator corrects the version, or a newly connected wallet's first
\* snapshot sets it: whatever the mutation under way is doing.
SetVersion ==
  /\ form.ver # version
  /\ form' = [form EXCEPT !.ver = version]
  /\ UNCHANGED <<kind, pc, draft, built, txs, polls, told, chain, faults>>

\* An operator who is told this has no reason to press again.
Stops == {"confirmed"}

\* The form with a key by hand: one drawn before, or the next.
ByHand(k, ver) ==
  [key |-> k, ver |-> ver, drawn |-> IF k > form.drawn THEN k ELSE form.drawn,
   hand |-> form.hand + 1]

MayTouchKey == kind \in Keyed /\ told \notin Stops /\ form.hand < MaxHands

\* "Generate nonce", or a nonce typed into its field: neither is disabled
\* while a mutation is under way, and the notice stays.
DrawKey(k) ==
  /\ MayTouchKey /\ k \in 1..(form.drawn + 1) /\ k # form.key
  /\ form' = ByHand(k, form.ver)
  /\ UNCHANGED <<kind, pc, draft, built, txs, polls, told, chain, faults>>

\* The page is loaded again: new keys, the first version, no mutation, no notice.
Reload ==
  /\ MayTouchKey
  /\ form' = ByHand(form.drawn + 1, 1)
  /\ pc' = "form" /\ told' = "nothing"
  /\ draft' = NoDraft /\ built' = NotBuilt /\ polls' = 0
  /\ UNCHANGED <<kind, txs, chain, faults>>

\* The button, disabled while a mutation is pending.
Press ==
  pc = "form" /\ told \notin Stops /\ Len(txs) < MaxTx

\* simulatePolicy, simulateSplitPolicy: the policy is asked first.
PolicyAllows == kind \in Keyed => form.ver = version

\* An invalid draft, a refused policy check, a read that fails.
Turned ==
  /\ Press
  /\ \/ ~PolicyAllows /\ NoFault
     \/ Fault
  /\ End("error", FALSE)
  /\ UNCHANGED <<kind, txs, chain>>

\* A used nonce is reported, and kept; a used intent ID is reported and replaced.
KeyUsed ==
  /\ Press /\ PolicyAllows /\ kind # "deploy" /\ Spent(form.key)
  /\ IF kind = "schedule" THEN End("exists", TRUE) ELSE End("spent", FALSE)
  /\ UNCHANGED <<kind, txs, chain, faults>>

\* checkScheduledIntentExists takes a read that fails for a free ID.
Checked ==
  /\ Press /\ PolicyAllows
  /\ draft' = IF kind = "deploy" THEN [form EXCEPT !.key = Salt] ELSE form
  /\ \/ ~Spent(draft'.key) /\ NoFault
     \/ kind = "schedule" /\ Spent(form.key) /\ Fault
  /\ pc' = "checked" /\ told' = "nothing"
  /\ UNCHANGED <<kind, form, built, txs, polls, chain>>

\* The simulation and nonce check buttons, never disabled: whether the key is
\* used ("Generate a fresh nonce"), or else what the chain would say now.
Simulate ==
  /\ kind \in Keyed /\ told \notin Stops
  /\ told' = CASE Spent(form.key)              -> "spent"
              [] Accepts(form.key, form.ver)  -> "simulated"
              [] OTHER                        -> "error"
  /\ UNCHANGED <<kind, pc, form, draft, built, txs, polls, chain, faults>>

\* The account is read, the transaction built with its time bound, and
\* prepared, which simulates it.
Build ==
  /\ pc = "checked" /\ Accepts(draft.key, draft.ver)
  /\ built' = [seq |-> seqno + 1, age |-> 0]
  /\ pc' = "signing"
  /\ UNCHANGED <<kind, form, draft, txs, polls, told, chain, faults>>

Abandon == End("error", FALSE) /\ UNCHANGED <<kind, txs, chain>>

\* The simulation refuses the call, or a read fails: nothing is sent.
NotPrepared ==
  /\ pc = "checked" /\ Abandon
  /\ \/ ~Accepts(draft.key, draft.ver) /\ NoFault
     \/ Fault

\* The wallet refuses, or signs with another account than the one asked for.
NotSigned == pc = "signing" /\ Fault /\ Abandon

\* Mutant: the arguments are taken from the form as it is when they are sent.
Sent_FromTheForm ==
  [key |-> form.key, ver |-> form.ver, hand |-> form.hand, shown |-> draft.ver,
   seq |-> built.seq, age |-> built.age, st |-> "pending", at |-> 0, since |-> 0]

\* The transaction: its arguments are the captured draft's.
Sent ==
  [key |-> draft.key, ver |-> draft.ver, hand |-> draft.hand, shown |-> draft.ver,
   seq |-> built.seq, age |-> built.age, st |-> "pending", at |-> 0, since |-> 0]

\* The network takes a transaction in time, of the next sequence number, of an
\* account that has no other one waiting.
Current ==
  /\ built.seq = seqno + 1 /\ built.age <= TxTimeout
  /\ \A t \in DOMAIN txs : txs[t].st # "pending"

\* sendTransaction: PENDING
Send ==
  /\ pc = "signing" /\ Current
  /\ txs' = Append(txs, Sent)
  /\ pc' = "polling" /\ polls' = 0
  /\ UNCHANGED <<kind, form, draft, built, told, chain, faults>>

\* The transaction is sent and the answer is lost on its way back.
SendUnanswered ==
  /\ pc = "signing" /\ Current /\ Fault
  /\ txs' = Append(txs, Sent)
  /\ End("error", FALSE)
  /\ UNCHANGED <<kind, chain>>

\* ERROR (late, or outrun), TRY_AGAIN_LATER (another waits), DUPLICATE
SendRejected ==
  /\ pc = "signing" /\ Abandon
  /\ \/ ~Current /\ NoFault
     \/ Fault

LastTx == txs[Len(txs)]

\* A payment's form takes a new nonce from any receipt.
PaymentEnds(what) == End(what, TRUE)

\* A split's form keeps its nonce until it is used.
SplitEnds(what) == End(what, what = "confirmed")

\* A schedule's form keeps its intent ID until it is used.
ScheduleEnds(what) == End(what, what = "confirmed")

\* A cancellation's form has nothing to draw.
CancelEnds(what) == End(what, FALSE)

\* deployAccount throws on any other status: "No treasury was deployed."
DeployEnds(what) == End(IF what = "confirmed" THEN what ELSE "undeployed", FALSE)

\* What a form does with the receipt of its write.
Receipt(what) ==
  /\ CASE kind = "payment"  -> PaymentEnds(what)
       [] kind = "split"    -> SplitEnds(what)
       [] kind = "schedule" -> ScheduleEnds(what)
       [] kind = "cancel"   -> CancelEnds(what)
       [] kind = "deploy"   -> DeployEnds(what)
  /\ UNCHANGED <<kind, txs, chain, faults>>

\* getTransaction: SUCCESS or FAILED
PollKnown ==
  /\ pc = "polling"
  /\ \/ LastTx.st = "landed" /\ Receipt("confirmed")
     \/ LastTx.st = "failed" /\ Receipt("failed")

\* The RPC knows it by now.
Known(tx) == tx.st \in {"landed", "failed"} /\ tx.since >= Lag

\* Mutant: the poll has the ceiling it once had.
PollGivesUp_Old ==
  /\ pc = "polling" /\ polls >= 1
  /\ ~Known(LastTx) /\ Receipt("pending")

\* Ninety times NOT_FOUND
PollGivesUp ==
  /\ pc = "polling" /\ polls = PollLimit
  /\ ~Known(LastTx) /\ Receipt("pending")

\* getTransaction throws
PollThrows ==
  /\ pc = "polling" /\ Fault /\ End("error", FALSE)
  /\ UNCHANGED <<kind, txs, chain>>

-----------------------------------------------------------------------------
Console ==
  \/ Turned \/ KeyUsed \/ Checked \/ Simulate \/ Build \/ NotPrepared
  \/ NotSigned \/ Send \/ SendUnanswered \/ SendRejected \/ PollKnown \/ PollGivesUp \/ PollThrows

Next ==
  \/ Console \/ SetVersion \/ Reload \/ BumpVersion \/ Tick
  \/ \E k \in 1..(form.drawn + 1) : DrawKey(k)
  \/ \E t \in DOMAIN txs : Include(t) \/ IncludeFailed(t)

Spec == Init /\ [][Next]_vars

-----------------------------------------------------------------------------
AtMostOne == \A t, u \in Landed : t = u

\* The forms never pay twice of themselves: however often the operator presses
\* again after an error, a failure or a pending notice, a payment or split is
\* made once, until they take another nonce by hand.  What the forms renew,
\* they renew when no earlier transaction can land any more.  The nonce taken
\* by hand is not protected: see AdvisedPaysOnce of MCTreasuryOnboarding.
PaidOnce ==
  kind \in {"payment", "split"} =>
    \A t, u \in Landed : txs[t].hand = txs[u].hand => t = u

\* What the operator reads in the form when they press is what the payment
\* lands under, though they may edit the form while it is under way.
LandedAsShown ==
  kind \in {"payment", "split"} => \A t \in Landed : txs[t].shown = txs[t].at

\* "No treasury was deployed": the deployment reported so did not happen, and
\* will not.
UndeployedIsNot ==
  kind = "deploy" /\ told = "undeployed" => LastTx.st \in {"failed", "expired"}

\* A schedule is created once as well.
ScheduledOnce == kind = "schedule" => AtMostOne
=============================================================================
