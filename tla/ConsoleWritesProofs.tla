------------------------- MODULE ConsoleWritesProofs -------------------------
(***************************************************************************)
(* A payment is made once until its nonce is changed by hand, and a        *)
(* deployment reported undone is undone, for any time bound, lag and       *)
(* number of attempts, as long as the poll outlasts the transaction's time *)
(* bound and the RPC's lag together; and a payment lands under the version *)
(* that was shown.  The registration of what was deployed disturbs none of *)
(* it, and says what is stored.                                            *)
(***************************************************************************)
EXTENDS TreasuryOnboarding, TLAPS

Last == Len(txs)

\* The poll and the transaction it is about age together: what is pending has
\* been polled for no longer than it may wait, what is settled no longer than
\* that and the time it has been settled.
PollInTime ==
  pc = "polling" =>
    /\ LastTx.st = "pending" => polls <= LastTx.age
    /\ LastTx.st \in {"landed", "failed"} =>
         LastTx.since >= Lag \/ polls <= TxTimeout + LastTx.since

\* Only the transaction sent last waits, and not beyond its time bound.
OneWaits ==
  \A t \in DOMAIN txs : txs[t].st = "pending" => t = Last /\ txs[t].age <= TxTimeout

\* The mutation goes on with the form's key until another is taken by hand; what
\* it built is outrun by any transaction settled since.
DraftIsCurrent ==
  /\ pc # "form" => draft.hand <= form.hand
  /\ pc # "form" /\ kind # "deploy" /\ draft.hand = form.hand => draft.key = form.key
  /\ pc = "signing" => built.seq <= seqno + 1

IsPayment == kind \in {"payment", "split"}

\* What has landed or may.
Live == {t \in DOMAIN txs : txs[t].st \in {"pending", "landed"}}

\* The transactions sent since the key was last changed by hand, and before;
\* those of the mutation under way.
HandsGrow ==
  \A t \in DOMAIN txs :
    txs[t].hand <= form.hand /\ (pc # "form" => txs[t].hand <= draft.hand)

\* Between two changes by hand there is one key, that of whatever has landed or
\* may, and it is the form's and the draft's, until the payment is confirmed;
\* what is being sent follows nothing of the same hand that has landed.
KeyIsKept ==
  IsPayment =>
    /\ \A t, u \in Live : txs[t].hand = txs[u].hand => txs[t].key = txs[u].key
    /\ \A t \in Live :
         txs[t].hand = form.hand => txs[t].key = form.key \/ (pc = "form" /\ told = "confirmed")
    /\ pc # "form" => \A t \in Live : txs[t].hand = draft.hand => txs[t].key = draft.key
    /\ pc = "signing" /\ built.seq = seqno + 1 => \A t \in Landed : txs[t].hand # draft.hand
    /\ pc = "polling" => \A t \in Landed : txs[t].hand = draft.hand => t = Last
    /\ pc = "form" /\ told = "confirmed" => \A t \in DOMAIN txs : txs[t].st # "pending"

WritesInv ==
  /\ TypeOK /\ PollInTime /\ OneWaits /\ DraftIsCurrent
  /\ HandsGrow /\ KeyIsKept /\ PaidOnce
  /\ UndeployedIsNot
  /\ told = "undeployed" => pc = "form" /\ txs # << >>

-----------------------------------------------------------------------------

LEMMA Constants ==
  /\ TxTimeout \in Nat /\ PollLimit \in Nat /\ Lag \in Nat
  /\ MaxFaults \in Nat /\ MaxHands \in Nat
  /\ TxTimeout < PollLimit /\ TxTimeout + Lag <= PollLimit
  /\ Kinds \subseteq AllKinds
BY WritesAssumption

LEMMA TxsAre ==
  ASSUME TypeOK
  PROVE  /\ Last \in Nat /\ DOMAIN txs = 1..Last
         /\ \A t \in DOMAIN txs : txs[t] \in Tx
         /\ txs # << >> => Last \in DOMAIN txs /\ LastTx = txs[Last]
BY DEF TypeOK, Last, LastTx

LEMMA InitHolds == Init => WritesInv
<1> SUFFICES ASSUME Init PROVE WritesInv
  OBVIOUS
<1>1. TypeOK
  BY Constants DEF Init, TypeOK, Drafts, NoDraft, NotBuilt
<1>2. DOMAIN txs = {} /\ Landed = {} /\ Live = {}
  BY DEF Init, Landed, Live
<1>3. PollInTime /\ OneWaits /\ DraftIsCurrent /\ HandsGrow /\ KeyIsKept /\ PaidOnce
  BY <1>2 DEF Init, PollInTime, OneWaits, DraftIsCurrent, HandsGrow, KeyIsKept, PaidOnce
<1> QED BY <1>1, <1>3 DEF Init, WritesInv, UndeployedIsNot

-----------------------------------------------------------------------------
(* The chain. *)

LEMMA SettleIs ==
  ASSUME TypeOK, NEW t \in DOMAIN txs, NEW st \in {"landed", "failed"}, Settle(t, st)
  PROVE  /\ txs' \in Seq(Tx) /\ Len(txs') = Len(txs) /\ DOMAIN txs' = DOMAIN txs
         /\ \A u \in DOMAIN txs : u # t => txs'[u] = txs[u]
         /\ txs'[t].st = st /\ txs'[t].key = txs[t].key /\ txs'[t].since = txs[t].since
         /\ txs'[t].hand = txs[t].hand
         /\ txs[t].st = "pending" /\ seqno' = seqno + 1
         /\ UNCHANGED <<kind, pc, form, draft, built, polls, told, version, faults>>
<1>1. txs \in Seq(Tx) /\ txs[t] \in Tx /\ version \in Nat
  BY DEF TypeOK
<1> DEFINE new == [txs[t] EXCEPT !.st = st, !.at = version, !.age = 0]
<1>2. /\ new \in Tx /\ new.st = st /\ new.key = txs[t].key /\ new.since = txs[t].since
      /\ new.hand = txs[t].hand
  BY <1>1 DEF Tx
<1>3. txs' = [txs EXCEPT ![t] = new]
  BY <1>1 DEF Settle
<1> HIDE DEF new
<1>4. txs' \in Seq(Tx) /\ Len(txs') = Len(txs) /\ DOMAIN txs' = DOMAIN txs
  BY <1>1, <1>2, <1>3
<1> QED BY <1>1, <1>2, <1>3, <1>4 DEF Settle, page

LEMMA SettleHolds ==
  ASSUME WritesInv, NEW t \in DOMAIN txs, NEW st \in {"landed", "failed"}, Settle(t, st),
         st = "landed" => Accepts(txs[t].key, txs[t].ver)
  PROVE  WritesInv'
<1> USE DEF WritesInv
<1>1. /\ txs' \in Seq(Tx) /\ Len(txs') = Len(txs) /\ DOMAIN txs' = DOMAIN txs
      /\ \A u \in DOMAIN txs : u # t => txs'[u] = txs[u]
      /\ txs'[t].st = st /\ txs'[t].key = txs[t].key /\ txs'[t].since = txs[t].since
      /\ txs'[t].hand = txs[t].hand
      /\ txs[t].st = "pending" /\ seqno' = seqno + 1
      /\ UNCHANGED <<kind, pc, form, draft, built, polls, told, version, faults>>
  BY SettleIs
<1>2. /\ t = Last /\ Last' = Last /\ txs[t].age <= TxTimeout /\ txs # << >>
      /\ LastTx = txs[t] /\ LastTx' = txs'[t] /\ txs[t] \in Tx /\ txs'[t] \in Tx
      /\ DOMAIN txs = 1..Last /\ Last \in Nat
  BY <1>1, TxsAre DEF OneWaits, Last, LastTx, TypeOK
<1>3. TypeOK'
  BY <1>1, <1>2 DEF TypeOK
<1>4. PollInTime'
  <2>1. SUFFICES ASSUME pc = "polling" PROVE polls <= TxTimeout + txs'[t].since
    BY <1>1, <1>2 DEF PollInTime
  <2>2. polls <= txs[t].age /\ polls \in Nat /\ txs[t].age \in Nat /\ txs[t].since \in Nat
    BY <1>1, <1>2, <2>1, Constants DEF PollInTime, TypeOK, Tx
  <2> QED BY <1>1, <1>2, <2>2, Constants
<1>5. OneWaits'
  BY <1>1, <1>2 DEF OneWaits
<1>6. DraftIsCurrent' /\ HandsGrow'
  <2>1. DraftIsCurrent'
    BY <1>1 DEF DraftIsCurrent, TypeOK
  <2>2. \A u \in DOMAIN txs : txs'[u].hand = txs[u].hand
    BY <1>1
  <2> QED BY <1>1, <2>1, <2>2 DEF HandsGrow
<1>7. /\ Landed' = IF st = "landed" THEN Landed \cup {t} ELSE Landed
      /\ Live' \subseteq Live /\ Landed \subseteq Live /\ t \in Live
      /\ \A u \in DOMAIN txs : txs'[u].key = txs[u].key /\ txs'[u].hand = txs[u].hand
      /\ Live \subseteq DOMAIN txs
  BY <1>1 DEF Landed, Live
<1>8. ASSUME IsPayment PROVE KeyIsKept' /\ PaidOnce'
  <2>1. ~(pc = "form" /\ told = "confirmed")
    BY <1>1, <1>8 DEF KeyIsKept
  <2>2. \A u \in Landed : txs[u].hand = txs[t].hand => txs[u].key = txs[t].key
    BY <1>7, <1>8 DEF KeyIsKept
  <2>3. st = "landed" => \A u \in Landed : txs[u].hand # txs[t].hand
    <3>1. kind # "cancel"
      BY <1>8 DEF IsPayment
    <3> QED BY <2>2, <3>1 DEF Accepts, Spent
  <2>4. PaidOnce'
    <3>1. \A u, w \in Landed : txs[u].hand = txs[w].hand => u = w
      BY <1>8 DEF PaidOnce, IsPayment
    <3> QED BY <1>7, <2>3, <3>1 DEF PaidOnce
  <2>5. pc = "signing" => built.seq # seqno' + 1
    BY <1>1, Constants DEF DraftIsCurrent, TypeOK
  <2>6. \A u, w \in Live' : txs'[u].hand = txs'[w].hand => txs'[u].key = txs'[w].key
    BY <1>7, <1>8 DEF KeyIsKept
  <2>7. pc = "polling" => \A u \in Landed' : txs'[u].hand = draft'.hand => u = Last'
    BY <1>1, <1>2, <1>7, <1>8 DEF KeyIsKept
  <2>8. \A u \in Live' : txs'[u].hand = form'.hand => txs'[u].key = form'.key
    BY <1>1, <1>7, <1>8, <2>1 DEF KeyIsKept
  <2>9. pc # "form" => \A u \in Live' : txs'[u].hand = draft'.hand => txs'[u].key = draft'.key
    BY <1>1, <1>7, <1>8 DEF KeyIsKept
  <2> QED BY <1>1, <2>1, <2>4, <2>5, <2>6, <2>7, <2>8, <2>9 DEF KeyIsKept
<1>9. ~IsPayment => KeyIsKept' /\ PaidOnce'
  BY <1>1 DEF IsPayment, KeyIsKept, PaidOnce
<1>10. UndeployedIsNot' /\ (told' = "undeployed" => pc' = "form" /\ txs' # << >>)
  BY <1>1, <1>2 DEF UndeployedIsNot
<1> QED BY <1>3, <1>4, <1>5, <1>6, <1>8, <1>9, <1>10

\* A tick ages what waits, ends what is too old, and settles nothing.
LEMMA AgedIs ==
  ASSUME NEW tx \in Tx
  PROVE  /\ Aged(tx) \in Tx /\ Aged(tx).key = tx.key /\ Aged(tx).hand = tx.hand
         /\ tx.st = "pending" /\ tx.age <= TxTimeout =>
              \/ Aged(tx).st = "expired"
              \/ /\ Aged(tx).st = "pending" /\ Aged(tx).age = tx.age + 1
                 /\ tx.age < TxTimeout
         /\ tx.st # "pending" => Aged(tx).st = tx.st
         /\ tx.st \in {"landed", "failed"} =>
              Aged(tx).since = IF tx.since < Lag THEN tx.since + 1 ELSE tx.since
<1> USE Constants
<1>1. CASE tx.st = "pending" /\ tx.age = TxTimeout
  <2> DEFINE new == [tx EXCEPT !.st = "expired", !.age = 0]
  <2>1. Aged(tx) = new
    BY <1>1 DEF Aged
  <2>2. new \in Tx /\ new.key = tx.key /\ new.hand = tx.hand /\ new.st = "expired"
    BY DEF Tx
  <2> HIDE DEF new
  <2> QED BY <1>1, <2>1, <2>2
<1>2. CASE tx.st = "pending" /\ tx.age < TxTimeout
  <2>1. Aged(tx) = [tx EXCEPT !.age = @ + 1]
    BY <1>2 DEF Aged, Tx
  <2>2. tx.age + 1 \in Nat
    BY DEF Tx
  <2>3. /\ Aged(tx) \in Tx /\ Aged(tx).key = tx.key /\ Aged(tx).st = tx.st
        /\ Aged(tx).hand = tx.hand
        /\ Aged(tx).age = tx.age + 1
    BY <2>1, <2>2 DEF Tx
  <2> QED BY <1>2, <2>3
<1>3. CASE tx.st \in {"landed", "failed"} /\ tx.since < Lag
  <2>1. Aged(tx) = [tx EXCEPT !.since = @ + 1]
    BY <1>3 DEF Aged
  <2>2. tx.since + 1 \in Nat
    BY DEF Tx
  <2>3. /\ Aged(tx) \in Tx /\ Aged(tx).key = tx.key /\ Aged(tx).st = tx.st
        /\ Aged(tx).hand = tx.hand
        /\ Aged(tx).since = tx.since + 1
    BY <2>1, <2>2 DEF Tx
  <2> QED BY <1>3, <2>3
<1>4. CASE /\ ~(tx.st = "pending" /\ tx.age = TxTimeout)
           /\ ~(tx.st = "pending" /\ tx.age < TxTimeout)
           /\ ~(tx.st \in {"landed", "failed"} /\ tx.since < Lag)
  <2>1. Aged(tx) = tx
    BY <1>4 DEF Aged
  <2>2. tx.age \in Nat
    BY DEF Tx
  <2> QED BY <1>4, <2>1, <2>2
<1> QED BY <1>1, <1>2, <1>3, <1>4

LEMMA TickHolds == ASSUME WritesInv, Tick PROVE WritesInv'
<1> USE DEF WritesInv
<1>1. /\ txs' = [t \in DOMAIN txs |-> Aged(txs[t])]
      /\ UNCHANGED <<kind, pc, form, draft, told, seqno, version, faults>>
      /\ polls' = IF pc = "polling" THEN polls + 1 ELSE polls
      /\ pc = "polling" => polls < PollLimit
      /\ built'.seq = built.seq /\ built' \in [seq : Nat, age : Nat]
  BY DEF Tick, chain, TypeOK
<1>2. /\ \A t \in DOMAIN txs : txs[t] \in Tx
      /\ txs \in Seq(Tx) /\ DOMAIN txs = 1..Len(txs) /\ Len(txs) \in Nat
  BY TxsAre DEF TypeOK, Last
<1>3. /\ txs' \in Seq(Tx) /\ Len(txs') = Len(txs) /\ DOMAIN txs' = DOMAIN txs
      /\ \A t \in DOMAIN txs : txs'[t] = Aged(txs[t])
  <2>1. \A t \in 1..Len(txs) : Aged(txs[t]) \in Tx
    BY <1>2, AgedIs
  <2> QED BY <1>1, <1>2, <2>1
<1>4. Last' = Last /\ (txs # << >> => txs' # << >> /\ LastTx' = Aged(LastTx) /\ LastTx \in Tx)
  BY <1>2, <1>3 DEF Last, LastTx
<1>5. TypeOK'
  BY <1>1, <1>3, <1>4, Constants DEF TypeOK
<1>6. OneWaits'
  <2>1. SUFFICES ASSUME NEW t \in DOMAIN txs, Aged(txs[t]).st = "pending"
                 PROVE  t = Last /\ Aged(txs[t]).age <= TxTimeout
    BY <1>3, <1>4 DEF OneWaits
  <2>2. txs[t].st = "pending"
    BY <1>2, <2>1, AgedIs
  <2>3. t = Last /\ txs[t].age <= TxTimeout
    BY <2>2 DEF OneWaits
  <2>4. Aged(txs[t]).age = txs[t].age + 1 /\ txs[t].age < TxTimeout /\ txs[t].age \in Nat
    BY <1>2, <2>1, <2>2, <2>3, AgedIs DEF Tx
  <2> QED BY <2>3, <2>4, Constants
<1>7. PollInTime'
  <2>1. SUFFICES ASSUME pc = "polling"
                 PROVE  /\ Aged(LastTx).st = "pending" => polls + 1 <= Aged(LastTx).age
                        /\ Aged(LastTx).st \in {"landed", "failed"} =>
                             \/ Aged(LastTx).since >= Lag
                             \/ polls + 1 <= TxTimeout + Aged(LastTx).since
    BY <1>1, <1>4, <1>5 DEF PollInTime, TypeOK
  <2>2. /\ LastTx \in Tx /\ polls \in Nat
        /\ LastTx.st = "pending" => polls <= LastTx.age /\ LastTx.age <= TxTimeout
        /\ LastTx.st \in {"landed", "failed"} =>
             LastTx.since >= Lag \/ polls <= TxTimeout + LastTx.since
    BY <1>4, <2>1, TxsAre, Constants DEF PollInTime, OneWaits, TypeOK
  <2>3. LastTx.age \in Nat /\ LastTx.since \in Nat
    BY <2>2 DEF Tx
  <2>4. CASE LastTx.st = "pending"
    BY <2>2, <2>3, <2>4, AgedIs
  <2>5. CASE LastTx.st # "pending"
    BY <2>2, <2>3, <2>5, AgedIs, Constants
  <2> QED BY <2>4, <2>5
<1>8. DraftIsCurrent'
  BY <1>1 DEF DraftIsCurrent
<1>9. /\ Landed' = Landed /\ Landed \subseteq DOMAIN txs /\ Live' \subseteq Live
      /\ Live \subseteq DOMAIN txs
      /\ \A t \in DOMAIN txs : /\ txs'[t].key = txs[t].key /\ txs'[t].hand = txs[t].hand
                               /\ txs'[t].st = "pending" => txs[t].st = "pending"
  <2>1. \A t \in DOMAIN txs :
          /\ Aged(txs[t]).st = "landed" <=> txs[t].st = "landed"
          /\ Aged(txs[t]).key = txs[t].key /\ Aged(txs[t]).hand = txs[t].hand
          /\ Aged(txs[t]).st = "pending" => txs[t].st = "pending"
    BY <1>2, AgedIs DEF OneWaits
  <2> QED BY <1>3, <2>1 DEF Landed, Live
<1>10. KeyIsKept'
  <2>1. /\ form' = form /\ pc' = pc /\ told' = told /\ kind' = kind /\ seqno' = seqno
        /\ draft' = draft /\ built'.seq = built.seq /\ DOMAIN txs' = DOMAIN txs
    BY <1>1, <1>3
  <2>2. SUFFICES ASSUME IsPayment PROVE KeyIsKept'
    BY <2>1 DEF KeyIsKept, IsPayment
  <2>3. \A t, u \in Live' : txs'[t].hand = txs'[u].hand => txs'[t].key = txs'[u].key
    BY <1>9, <2>2 DEF KeyIsKept
  <2>4. /\ \A t \in Live' : txs'[t].hand = form.hand =>
             txs'[t].key = form.key \/ (pc = "form" /\ told = "confirmed")
        /\ pc # "form" => \A t \in Live' : txs'[t].hand = draft.hand => txs'[t].key = draft.key
    BY <1>9, <2>2 DEF KeyIsKept
  <2>5. /\ pc = "signing" /\ built.seq = seqno + 1 =>
             \A t \in Landed' : txs'[t].hand # draft.hand
        /\ pc = "polling" => \A t \in Landed' : txs'[t].hand = draft.hand => t = Last
    BY <1>9, <2>2 DEF KeyIsKept
  <2>6. pc = "form" /\ told = "confirmed" => \A t \in DOMAIN txs : txs'[t].st # "pending"
    BY <1>9, <2>2 DEF KeyIsKept
  <2> QED BY <1>4, <2>1, <2>3, <2>4, <2>5, <2>6 DEF KeyIsKept
<1>11. PaidOnce' /\ HandsGrow'
  BY <1>1, <1>3, <1>9 DEF PaidOnce, HandsGrow
<1>12. UndeployedIsNot' /\ (told' = "undeployed" => pc' = "form" /\ txs' # << >>)
  BY <1>1, <1>4, AgedIs DEF UndeployedIsNot
<1> QED BY <1>5, <1>6, <1>7, <1>8, <1>10, <1>11, <1>12

-----------------------------------------------------------------------------
(* The console. *)

\* A renewed form is a form, of the same hand.
LEMMA RenewedIsDraft ==
  ASSUME form \in Drafts PROVE Renewed \in Drafts /\ Renewed.hand = form.hand
BY DEF Drafts, Renewed

\* The mutation ends.  The key of a payment is renewed only when nothing can
\* land any more and nothing of the same hand has, or when what has is confirmed.
LEMMA EndHolds ==
  ASSUME WritesInv, NEW renews \in BOOLEAN,
         NEW what \in {"confirmed", "failed", "pending", "undeployed", "spent", "exists", "error"},
         End(what, renews), UNCHANGED <<kind, txs, chain>>, faults' \in 0..MaxFaults,
         ~(pc = "form" /\ told = "confirmed"),
         IsPayment /\ (renews \/ what = "confirmed") =>
           \A t \in DOMAIN txs : txs[t].st # "pending",
         IsPayment /\ renews /\ what # "confirmed" =>
           \A t \in Landed : txs[t].hand # form.hand,
         what = "undeployed" => txs # << >> /\ LastTx.st \in {"failed", "expired"}
  PROVE  WritesInv'
<1> USE DEF WritesInv
<1>1. /\ pc' = "form" /\ told' = what /\ kind' = kind /\ txs' = txs
      /\ seqno' = seqno /\ version' = version
      /\ draft' = NoDraft /\ built' = NotBuilt /\ polls' = 0
      /\ form' = IF renews THEN Renewed ELSE form
  BY DEF End, chain
<1>2. form' \in Drafts /\ form'.hand = form.hand /\ (~renews => form' = form)
  <2>1. form \in Drafts
    BY DEF TypeOK
  <2>2. CASE renews
    BY <1>1, <2>1, <2>2, RenewedIsDraft
  <2>3. CASE ~renews
    BY <1>1, <2>1, <2>3
  <2> QED BY <2>2, <2>3
<1>3. /\ Landed' = Landed /\ Last' = Last /\ LastTx' = LastTx /\ Landed \subseteq DOMAIN txs
      /\ Live' = Live /\ Live \subseteq DOMAIN txs
      /\ \A t \in Live : txs[t].st = "pending" \/ t \in Landed
  BY <1>1 DEF Landed, Last, LastTx, Live
<1>4. TypeOK'
  BY <1>1, <1>2, Constants DEF TypeOK, Drafts, NoDraft, NotBuilt
<1>5. PollInTime' /\ OneWaits' /\ DraftIsCurrent' /\ HandsGrow'
  BY <1>1, <1>2, <1>3 DEF PollInTime, OneWaits, DraftIsCurrent, HandsGrow
<1>6. KeyIsKept'
  <2>1. SUFFICES ASSUME IsPayment PROVE KeyIsKept'
    BY <1>1 DEF KeyIsKept, IsPayment
  <2>2. \A t, u \in Live : txs[t].hand = txs[u].hand => txs[t].key = txs[u].key
    BY <2>1 DEF KeyIsKept
  <2>3. what # "confirmed" =>
          \A t \in Live : txs[t].hand = form.hand => txs[t].key = form'.key
    <3>1. CASE renews
      BY <1>3, <2>1, <3>1
    <3>2. CASE ~renews
      BY <1>2, <2>1, <3>2 DEF KeyIsKept
    <3> QED BY <3>1, <3>2
  <2>4. what = "confirmed" => \A t \in DOMAIN txs : txs[t].st # "pending"
    BY <2>1
  <2> QED BY <1>1, <1>2, <1>3, <2>2, <2>3, <2>4 DEF KeyIsKept
<1>7. PaidOnce' /\ UndeployedIsNot' /\ (told' = "undeployed" => pc' = "form" /\ txs' # << >>)
  BY <1>1, <1>3 DEF PaidOnce, UndeployedIsNot
<1> QED BY <1>4, <1>5, <1>6, <1>7

LEMMA FaultCounts == ASSUME TypeOK, Fault \/ NoFault PROVE faults' \in 0..MaxFaults
BY Constants DEF TypeOK, Fault, NoFault

LEMMA ErrorsHold ==
  ASSUME WritesInv,
         Turned \/ KeyUsed \/ NotPrepared \/ NotSigned \/ SendRejected \/ PollThrows
  PROVE  WritesInv'
<1>1. CASE Turned
  BY <1>1, EndHolds, FaultCounts DEF Turned, Press, Stops, WritesInv
<1>2. CASE KeyUsed
  <2>1. faults' \in 0..MaxFaults /\ UNCHANGED <<kind, txs, chain>>
        /\ pc = "form" /\ told # "confirmed"
    BY <1>2 DEF KeyUsed, WritesInv, TypeOK, Press, Stops
  <2>2. CASE kind = "schedule"
    BY <1>2, <2>1, <2>2, EndHolds DEF KeyUsed, IsPayment
  <2>3. CASE kind # "schedule"
    BY <1>2, <2>1, <2>3, EndHolds DEF KeyUsed
  <2> QED BY <2>2, <2>3
<1>3. CASE NotPrepared
  BY <1>3, EndHolds, FaultCounts DEF NotPrepared, Abandon, WritesInv
<1>4. CASE NotSigned
  BY <1>4, EndHolds, FaultCounts DEF NotSigned, Abandon, WritesInv
<1>5. CASE SendRejected
  BY <1>5, EndHolds, FaultCounts DEF SendRejected, Abandon, WritesInv
<1>6. CASE PollThrows
  BY <1>6, EndHolds, FaultCounts DEF PollThrows, WritesInv
<1> QED BY <1>1, <1>2, <1>3, <1>4, <1>5, <1>6

\* The mutation goes on, or the operator edits the form: nothing is sent, and
\* the key stays.
LEMMA GoesOn ==
  ASSUME WritesInv, TypeOK', UNCHANGED <<kind, txs, seqno>>,
         form'.key = form.key, form'.hand = form.hand, DraftIsCurrent',
         \/ draft' = draft /\ (pc = "form" <=> pc' = "form")
         \/ /\ pc = "form" /\ told # "confirmed" /\ pc' = "checked"
            /\ draft'.hand = form.hand /\ (kind # "deploy" => draft'.key = form.key),
         UNCHANGED <<pc, polls>> \/ pc' # "polling",
         UNCHANGED <<pc, told>> \/ told' # "undeployed",
         told' = "confirmed" /\ pc' = "form" => told = "confirmed" /\ pc = "form",
         told = "confirmed" /\ pc = "form" => UNCHANGED <<pc, told>>,
         IsPayment /\ pc' = "signing" /\ built'.seq = seqno + 1 =>
           \A t \in Landed : txs[t].hand # draft'.hand
  PROVE  WritesInv'
<1> USE DEF WritesInv
<1>1. /\ Landed' = Landed /\ Last' = Last /\ LastTx' = LastTx /\ txs' = txs
      /\ Landed \subseteq DOMAIN txs /\ Live' = Live /\ Live \subseteq DOMAIN txs
  BY DEF Landed, Last, LastTx, Live
<1>2. PollInTime' /\ OneWaits'
  BY <1>1 DEF PollInTime, OneWaits
<1>3. HandsGrow'
  BY <1>1 DEF HandsGrow
<1>4. KeyIsKept'
  <2>1. SUFFICES ASSUME IsPayment PROVE KeyIsKept'
    BY DEF KeyIsKept, IsPayment
  <2>2. /\ \A t, u \in Live : txs[t].hand = txs[u].hand => txs[t].key = txs[u].key
        /\ \A t \in Live : txs[t].hand = form.hand =>
             txs[t].key = form.key \/ (pc = "form" /\ told = "confirmed")
        /\ pc = "form" /\ told = "confirmed" => \A t \in DOMAIN txs : txs[t].st # "pending"
    BY <2>1 DEF KeyIsKept
  <2>3. pc' # "form" => \A t \in Live : txs[t].hand = draft'.hand => txs[t].key = draft'.key
    BY <2>1, <2>2 DEF KeyIsKept, IsPayment
  <2>4. pc' = "polling" => \A t \in Landed : txs[t].hand = draft'.hand => t = Last
    BY <2>1 DEF KeyIsKept
  <2> QED BY <1>1, <2>1, <2>2, <2>3, <2>4 DEF KeyIsKept
<1>5. PaidOnce' /\ UndeployedIsNot' /\ (told' = "undeployed" => pc' = "form" /\ txs' # << >>)
  BY <1>1 DEF PaidOnce, UndeployedIsNot
<1> QED BY <1>2, <1>3, <1>4, <1>5

\* The key is changed by hand: nothing that was sent is of the new hand.
LEMMA HandHolds ==
  ASSUME WritesInv, NEW new \in Drafts,
         new.hand = form.hand + 1, form' = new, told # "confirmed",
         UNCHANGED <<kind, txs, seqno, version, faults>>,
         \/ UNCHANGED <<pc, draft, built, polls, told>>
         \/ /\ pc' = "form" /\ told' = "nothing" /\ draft' = NoDraft
            /\ built' = NotBuilt /\ polls' = 0
  PROVE  WritesInv'
<1> USE DEF WritesInv
<1>1. /\ Landed' = Landed /\ Last' = Last /\ LastTx' = LastTx /\ txs' = txs
      /\ Landed \subseteq DOMAIN txs /\ Live' = Live /\ Live \subseteq DOMAIN txs
  BY DEF Landed, Last, LastTx, Live
<1>2. /\ form.hand \in Nat /\ draft.hand \in Nat
      /\ \A t \in DOMAIN txs : txs[t].hand \in Nat /\ txs[t].hand <= form.hand
      /\ pc # "form" => draft.hand <= form.hand
  BY TxsAre DEF TypeOK, Drafts, Tx, HandsGrow, DraftIsCurrent
<1>3. /\ \A t \in DOMAIN txs : txs[t].hand < form'.hand
      /\ pc # "form" => draft.hand < form'.hand
  BY <1>2
<1>4. TypeOK'
  <2>1. NoDraft \in Drafts /\ NotBuilt \in [seq : Nat, age : Nat] /\ 0 \in 0..PollLimit
    BY Constants DEF Drafts, NoDraft, NotBuilt
  <2> QED BY <2>1 DEF TypeOK
<1>5. PollInTime' /\ OneWaits'
  BY <1>1 DEF PollInTime, OneWaits
<1>6. DraftIsCurrent' /\ HandsGrow'
  BY <1>1, <1>2, <1>3 DEF DraftIsCurrent, HandsGrow
<1>7. KeyIsKept'
  <2>1. SUFFICES ASSUME IsPayment PROVE KeyIsKept'
    BY DEF KeyIsKept, IsPayment
  <2>2. \A t \in Live' : txs'[t].hand # form'.hand
    BY <1>1, <1>2, <1>3
  <2> QED BY <1>1, <2>1, <2>2 DEF KeyIsKept
<1>8. PaidOnce' /\ UndeployedIsNot' /\ (told' = "undeployed" => pc' = "form" /\ txs' # << >>)
  BY <1>1 DEF PaidOnce, UndeployedIsNot
<1> QED BY <1>4, <1>5, <1>6, <1>7, <1>8

LEMMA HandsHold ==
  ASSUME WritesInv, Reload \/ \E k \in 1..(form.drawn + 1) : DrawKey(k) PROVE WritesInv'
<1>1. form \in Drafts /\ form.drawn \in Nat /\ form.ver \in Nat /\ form.hand \in Nat
  BY DEF WritesInv, TypeOK, Drafts
<1>2. ASSUME NEW k \in 1..(form.drawn + 1), NEW ver \in Nat
      PROVE  ByHand(k, ver) \in Drafts /\ ByHand(k, ver).hand = form.hand + 1
  BY <1>1, <1>2 DEF ByHand, Drafts
<1>3. ASSUME NEW k \in 1..(form.drawn + 1), DrawKey(k) PROVE WritesInv'
  BY <1>1, <1>2, <1>3, HandHolds DEF DrawKey, MayTouchKey, Stops, chain
<1>4. CASE Reload
  <2>1. form.drawn + 1 \in 1..(form.drawn + 1) /\ 1 \in Nat
    BY <1>1
  <2>2. /\ ByHand(form.drawn + 1, 1) \in Drafts
        /\ ByHand(form.drawn + 1, 1).hand = form.hand + 1
    BY <1>2, <2>1
  <2> QED BY <1>4, <2>2, HandHolds DEF Reload, MayTouchKey, Stops, chain
<1> QED BY <1>3, <1>4

LEMMA StepsHold ==
  ASSUME WritesInv, Checked \/ Simulate \/ Build \/ SetVersion \/ BumpVersion
  PROVE  WritesInv'
<1> USE DEF WritesInv
<1>1. CASE Checked
  <2>1. /\ UNCHANGED <<kind, txs, seqno, version, form, built, polls>>
        /\ pc' = "checked" /\ told' = "nothing" /\ pc = "form" /\ told # "confirmed"
        /\ draft' = IF kind = "deploy" THEN [form EXCEPT !.key = Salt] ELSE form
    BY <1>1 DEF Checked, chain, Press, Stops
  <2>2. draft' \in Drafts /\ draft'.hand = form.hand
    <3>1. form \in Drafts /\ Salt \in Nat
      BY TxsAre DEF TypeOK, Salt, Last
    <3>2. [form EXCEPT !.key = Salt] \in Drafts /\ [form EXCEPT !.key = Salt].hand = form.hand
      BY <3>1 DEF Drafts
    <3> QED BY <2>1, <3>1, <3>2
  <2>3. faults' \in 0..MaxFaults
    BY <1>1, FaultCounts DEF Checked
  <2>4. TypeOK'
    BY <2>1, <2>2, <2>3 DEF TypeOK
  <2>5. draft'.hand = form.hand /\ form.hand \in Nat
        /\ (kind # "deploy" => draft'.key = form.key)
    BY <2>1, <2>2 DEF TypeOK, Drafts
  <2>6. DraftIsCurrent'
    BY <2>1, <2>5 DEF DraftIsCurrent
  <2> QED BY <2>1, <2>4, <2>5, <2>6, GoesOn
<1>2. CASE Simulate
  <2>1. /\ UNCHANGED <<kind, pc, form, draft, built, txs, polls, seqno, version, faults>>
        /\ told' \in {"spent", "simulated", "error"} /\ told # "confirmed"
    BY <1>2 DEF Simulate, chain, Stops
  <2>2. TypeOK' /\ DraftIsCurrent'
    BY <2>1 DEF TypeOK, DraftIsCurrent
  <2> QED BY <2>1, <2>2, GoesOn DEF KeyIsKept
<1>3. CASE Build
  <2>1. /\ UNCHANGED <<kind, form, draft, txs, polls, told, seqno, version, faults>>
        /\ pc = "checked" /\ pc' = "signing" /\ Accepts(draft.key, draft.ver)
        /\ built' = [seq |-> seqno + 1, age |-> 0]
    BY <1>3 DEF Build, chain
  <2>2. TypeOK' /\ DraftIsCurrent'
    BY <2>1 DEF TypeOK, DraftIsCurrent
  <2>3. IsPayment => \A t \in Landed : txs[t].hand # draft.hand
    <3>1. SUFFICES ASSUME IsPayment, NEW t \in Landed, txs[t].hand = draft.hand PROVE FALSE
      OBVIOUS
    <3>2. t \in Live
      BY <3>1 DEF Landed, Live
    <3>3. txs[t].key = draft.key /\ kind # "cancel"
      BY <2>1, <3>1, <3>2 DEF KeyIsKept, IsPayment
    <3> QED BY <2>1, <3>1, <3>3 DEF Accepts, Spent
  <2> QED BY <2>1, <2>2, <2>3, GoesOn
<1>4. CASE SetVersion
  <2>1. /\ UNCHANGED <<kind, pc, draft, built, txs, polls, told, seqno, version, faults>>
        /\ form' = [form EXCEPT !.ver = version]
    BY <1>4 DEF SetVersion, chain
  <2>2. form' \in Drafts /\ form'.key = form.key /\ form'.hand = form.hand
    BY <2>1 DEF TypeOK, Drafts
  <2>3. TypeOK' /\ DraftIsCurrent'
    BY <2>1, <2>2 DEF TypeOK, DraftIsCurrent
  <2> QED BY <2>1, <2>2, <2>3, GoesOn DEF KeyIsKept
<1>5. CASE BumpVersion
  <2>1. /\ UNCHANGED <<kind, pc, form, draft, built, polls, told, txs, seqno, faults>>
        /\ version' = version + 1
    BY <1>5 DEF BumpVersion, page
  <2>2. TypeOK' /\ DraftIsCurrent'
    BY <2>1 DEF TypeOK, DraftIsCurrent
  <2> QED BY <2>1, <2>2, GoesOn DEF KeyIsKept
<1> QED BY <1>1, <1>2, <1>3, <1>4, <1>5

\* A transaction is sent: the first of its sequence number, under the draft's
\* key, when nothing waits and, for a payment, nothing of its hand has landed.
LEMMA SentHolds ==
  ASSUME WritesInv, pc = "signing", Current, txs' = Append(txs, Sent),
         UNCHANGED <<kind, seqno, version>>, faults' \in 0..MaxFaults,
         form' = form, draft' \in Drafts, built' \in [seq : Nat, age : Nat], polls' = 0,
         \/ pc' = "polling" /\ told' = told /\ draft' = draft /\ built' = built
         \/ pc' = "form" /\ told' = "error"
  PROVE  WritesInv'
<1> USE DEF WritesInv
<1>1. /\ draft \in Drafts /\ built.seq \in Nat /\ built.age \in Nat
      /\ txs \in Seq(Tx) /\ DOMAIN txs = 1..Last /\ Last \in Nat
  BY TxsAre DEF TypeOK, Last
<1>2. /\ Sent \in Tx /\ Sent.st = "pending" /\ Sent.age = built.age /\ Sent.key = draft.key
      /\ Sent.hand = draft.hand
  BY <1>1 DEF Sent, Tx, Drafts
<1> DEFINE new == Sent
<1>3. /\ txs' = Append(txs, new) /\ new \in Tx /\ new.st = "pending"
      /\ new.age = built.age /\ new.key = draft.key /\ new.hand = draft.hand
  BY <1>2
<1> HIDE DEF new
<1>4. /\ txs' \in Seq(Tx) /\ Last' = Last + 1 /\ DOMAIN txs' = 1..(Last + 1)
      /\ \A t \in DOMAIN txs : txs'[t] = txs[t]
      /\ txs'[Last + 1] = new /\ txs' # << >> /\ LastTx' = new
  BY <1>1, <1>3 DEF Last, LastTx
<1>5. TypeOK'
  BY <1>4, Constants DEF TypeOK
<1>6. \A t \in DOMAIN txs' : txs'[t].st = "pending" => t = Last'
  BY <1>1, <1>4 DEF Current
<1>7. PollInTime' /\ OneWaits'
  BY <1>1, <1>3, <1>4, <1>6 DEF PollInTime, OneWaits, Current
<1>8. DraftIsCurrent' /\ HandsGrow'
  <2>1. draft.hand <= form.hand /\ draft.hand \in Nat
    BY <1>1 DEF DraftIsCurrent, Drafts
  <2> QED BY <1>1, <1>3, <1>4, <2>1 DEF DraftIsCurrent, HandsGrow
<1>9. /\ Landed' = Landed /\ Landed \subseteq DOMAIN txs
      /\ Live' \subseteq Landed \cup {Last + 1} /\ Landed \subseteq Live
  BY <1>1, <1>3, <1>4 DEF Landed, Live, Current
<1>10. KeyIsKept'
  <2>1. SUFFICES ASSUME IsPayment PROVE KeyIsKept'
    BY DEF KeyIsKept, IsPayment
  <2>2. /\ \A t \in Landed : txs'[t] = txs[t] /\ txs[t].hand # draft.hand
        /\ draft.hand = form.hand => draft.key = form.key
    BY <1>4, <1>9, <2>1 DEF KeyIsKept, Current, DraftIsCurrent, IsPayment
  <2>3. \A t, u \in Live' : txs'[t].hand = txs'[u].hand => txs'[t].key = txs'[u].key
    BY <1>3, <1>4, <1>9, <2>1, <2>2 DEF KeyIsKept
  <2>4. \A t \in Live' : txs'[t].hand = form.hand => txs'[t].key = form.key
    BY <1>3, <1>4, <1>9, <2>1, <2>2 DEF KeyIsKept
  <2>5. \A t \in Live' : txs'[t].hand = draft.hand => txs'[t].key = draft.key
    BY <1>3, <1>4, <1>9, <2>2
  <2>6. \A t \in Landed' : txs'[t].hand # draft.hand
    BY <1>9, <2>2
  <2> QED BY <2>3, <2>4, <2>5, <2>6 DEF KeyIsKept
<1>11. PaidOnce'
  BY <1>4, <1>9 DEF PaidOnce
<1>12. UndeployedIsNot' /\ (told' = "undeployed" => pc' = "form" /\ txs' # << >>)
  BY DEF UndeployedIsNot
<1> QED BY <1>5, <1>7, <1>8, <1>10, <1>11, <1>12

LEMMA SendsHold == ASSUME WritesInv, Send \/ SendUnanswered PROVE WritesInv'
<1>1. CASE Send
  BY <1>1, SentHolds DEF Send, chain, WritesInv, TypeOK
<1>2. CASE SendUnanswered
  <2>1. faults' \in 0..MaxFaults
    BY <1>2, FaultCounts DEF SendUnanswered, WritesInv
  <2>2. /\ pc' = "form" /\ told' = "error" /\ form' = form
        /\ draft' = NoDraft /\ built' = NotBuilt /\ polls' = 0
    BY <1>2 DEF SendUnanswered, End
  <2>3. draft' \in Drafts /\ built' \in [seq : Nat, age : Nat]
    BY <2>2 DEF Drafts, NoDraft, NotBuilt
  <2> QED BY <1>2, <2>1, <2>2, <2>3, SentHolds DEF SendUnanswered, chain
<1> QED BY <1>1, <1>2

\* When the poll gives up, the transaction's time has passed and the RPC would
\* know it if it had settled: it has expired.
LEMMA GivenUpIsExpired ==
  ASSUME WritesInv, PollGivesUp
  PROVE  LastTx.st = "expired"
<1>1. pc = "polling" /\ polls = PollLimit /\ ~Known(LastTx)
  BY DEF PollGivesUp
<1>2. Last \in DOMAIN txs /\ LastTx = txs[Last] /\ LastTx \in Tx
  BY <1>1, TxsAre DEF WritesInv, TypeOK
<1>3. LastTx.age \in Nat /\ LastTx.since \in Nat
      /\ LastTx.st \in {"pending", "landed", "failed", "expired"}
  BY <1>2 DEF Tx
<1>4. LastTx.st # "pending"
  BY <1>1, <1>2, <1>3, Constants DEF WritesInv, PollInTime, OneWaits
<1>5. LastTx.st \notin {"landed", "failed"}
  BY <1>1, <1>3, Constants DEF WritesInv, PollInTime, Known
<1> QED BY <1>3, <1>4, <1>5

LEMMA ReceiptHolds ==
  ASSUME WritesInv, NEW what \in {"confirmed", "failed", "pending"}, pc = "polling", Receipt(what),
         LastTx.st = IF what = "confirmed" THEN "landed"
                     ELSE IF what = "failed" THEN "failed" ELSE "expired"
  PROVE  WritesInv'
<1> USE DEF WritesInv
<1>1. UNCHANGED <<kind, txs, chain>> /\ faults' \in 0..MaxFaults /\ kind \in AllKinds
  BY Constants DEF Receipt, TypeOK
<1>2. Last \in DOMAIN txs /\ LastTx = txs[Last] /\ txs # << >>
  BY TxsAre DEF TypeOK
<1>3. \A t \in DOMAIN txs : txs[t].st # "pending"
  BY <1>2 DEF OneWaits
<1>4. IsPayment /\ what # "confirmed" => \A t \in Landed : txs[t].hand # form.hand
  <2>1. SUFFICES ASSUME IsPayment, what # "confirmed", NEW t \in Landed,
                        txs[t].hand = form.hand
                 PROVE  FALSE
    OBVIOUS
  <2>2. t \in DOMAIN txs /\ txs[t].st = "landed"
    BY DEF Landed
  <2>3. txs[t].hand <= draft.hand /\ draft.hand <= form.hand
    BY <2>2 DEF HandsGrow, DraftIsCurrent
  <2>4. form.hand \in Nat /\ draft.hand \in Nat
    BY DEF TypeOK, Drafts
  <2>5. txs[t].hand = draft.hand
    BY <2>1, <2>3, <2>4
  <2>6. t = Last
    BY <2>1, <2>5 DEF KeyIsKept
  <2> QED BY <1>2, <2>1, <2>2, <2>6
<1>5. CASE kind = "payment"
  BY <1>1, <1>3, <1>4, <1>5, EndHolds DEF Receipt, PaymentEnds
<1>6. CASE kind = "split"
  BY <1>1, <1>3, <1>4, <1>6, EndHolds DEF Receipt, SplitEnds
<1>7. CASE kind = "schedule"
  BY <1>1, <1>3, <1>4, <1>7, EndHolds DEF Receipt, ScheduleEnds
<1>8. CASE kind = "cancel"
  BY <1>1, <1>3, <1>4, <1>8, EndHolds DEF Receipt, CancelEnds
<1>9. CASE kind = "deploy"
  <2>1. ~IsPayment
    BY <1>9 DEF IsPayment
  <2>2. CASE what = "confirmed"
    BY <1>1, <1>9, <2>1, <2>2, EndHolds DEF Receipt, DeployEnds
  <2>3. CASE what # "confirmed"
    BY <1>1, <1>2, <1>9, <2>1, <2>3, EndHolds DEF Receipt, DeployEnds
  <2> QED BY <2>2, <2>3
<1> QED BY <1>1, <1>5, <1>6, <1>7, <1>8, <1>9 DEF AllKinds

LEMMA PollsHold == ASSUME WritesInv, PollKnown \/ PollGivesUp PROVE WritesInv'
<1>1. CASE PollKnown
  BY <1>1, ReceiptHolds DEF PollKnown
<1>2. CASE PollGivesUp
  BY <1>2, GivenUpIsExpired, ReceiptHolds DEF PollGivesUp
<1> QED BY <1>1, <1>2

LEMMA NextHolds == ASSUME WritesInv, [Next]_vars PROVE WritesInv'
<1>1. CASE Console
  BY <1>1, ErrorsHold, StepsHold, SendsHold, PollsHold DEF Console
<1>2. CASE \/ SetVersion \/ BumpVersion \/ Reload
           \/ \E k \in 1..(form.drawn + 1) : DrawKey(k)
  BY <1>2, StepsHold, HandsHold
<1>3. CASE Tick
  BY <1>3, TickHolds
<1>4. ASSUME NEW t \in DOMAIN txs, Include(t) \/ IncludeFailed(t) PROVE WritesInv'
  <2>1. CASE Include(t)
    BY <2>1, SettleHolds DEF Include
  <2>2. CASE IncludeFailed(t)
    BY <2>2, SettleHolds DEF IncludeFailed
  <2> QED BY <1>4, <2>1, <2>2
<1>5. CASE UNCHANGED vars
  <2>1. /\ UNCHANGED <<kind, pc, form, draft, built, txs, polls, told, seqno, version, faults>>
        /\ TypeOK' /\ DraftIsCurrent'
    BY <1>5 DEF vars, WritesInv, TypeOK, DraftIsCurrent
  <2> QED BY <2>1, GoesOn DEF WritesInv, KeyIsKept
<1> QED BY <1>1, <1>2, <1>3, <1>4, <1>5 DEF Next

-----------------------------------------------------------------------------
(* What a transaction says. *)

\* A transaction carries the version that was shown; a payment that landed
\* expected the version it met.
SaysWhatWasShown(tx) ==
  /\ tx.shown = tx.ver
  /\ IsPayment /\ tx.st = "landed" => tx.shown = tx.at

AllSayWhatWasShown == \A t \in DOMAIN txs : SaysWhatWasShown(txs[t])

\* Time changes nothing of that.
LEMMA AgedSays ==
  ASSUME NEW tx \in Tx, SaysWhatWasShown(tx) PROVE SaysWhatWasShown(Aged(tx))
<1>1. Aged(tx).shown = tx.shown /\ Aged(tx).ver = tx.ver /\ Aged(tx).at = tx.at
  BY DEF Aged, Tx
<1>2. Aged(tx).st = "landed" => tx.st = "landed"
  BY DEF Aged, Tx
<1> QED BY <1>1, <1>2 DEF SaysWhatWasShown

LEMMA SettledSays ==
  ASSUME TypeOK, AllSayWhatWasShown, NEW t \in DOMAIN txs, Include(t) \/ IncludeFailed(t)
  PROVE  AllSayWhatWasShown'
<1>1. PICK st \in {"landed", "failed"} :
        Settle(t, st) /\ (st = "landed" => Accepts(txs[t].key, txs[t].ver))
  BY DEF Include, IncludeFailed
<1> DEFINE new == [txs[t] EXCEPT !.st = st, !.at = version, !.age = 0]
<1>2. txs[t] \in Tx /\ SaysWhatWasShown(txs[t])
  BY TxsAre DEF AllSayWhatWasShown
<1>3. new.shown = txs[t].shown /\ new.ver = txs[t].ver /\ new.st = st /\ new.at = version
  BY <1>2 DEF Tx
<1>4. txs' = [txs EXCEPT ![t] = new] /\ kind' = kind
  BY <1>1 DEF Settle
<1> HIDE DEF new
<1>5. SaysWhatWasShown(new)
  BY <1>1, <1>2, <1>3 DEF SaysWhatWasShown, Accepts, IsPayment
<1>6. ASSUME NEW u \in DOMAIN txs' PROVE SaysWhatWasShown(txs'[u])
  BY <1>4, <1>5 DEF AllSayWhatWasShown
<1> QED BY <1>4, <1>6 DEF AllSayWhatWasShown, SaysWhatWasShown, IsPayment

LEMMA SentSays ==
  ASSUME TypeOK, AllSayWhatWasShown, txs' = Append(txs, Sent), kind' = kind
  PROVE  AllSayWhatWasShown'
<1>1. SaysWhatWasShown(Sent)
  BY DEF SaysWhatWasShown, Sent
<1>2. ASSUME NEW t \in DOMAIN txs' PROVE SaysWhatWasShown(txs'[t])
  BY <1>1, TxsAre DEF AllSayWhatWasShown, TypeOK, Last
<1> QED BY <1>2 DEF AllSayWhatWasShown, SaysWhatWasShown, IsPayment

LEMMA NextSays ==
  ASSUME TypeOK, AllSayWhatWasShown, [Next]_vars PROVE AllSayWhatWasShown'
<1>1. CASE Tick
  <2>1. txs' = [t \in DOMAIN txs |-> Aged(txs[t])] /\ kind' = kind
    BY <1>1 DEF Tick
  <2>2. \A t \in DOMAIN txs : SaysWhatWasShown(Aged(txs[t]))
    BY TxsAre, AgedSays DEF AllSayWhatWasShown
  <2> QED BY <2>1, <2>2 DEF AllSayWhatWasShown, SaysWhatWasShown, IsPayment
<1>2. ASSUME NEW t \in DOMAIN txs, Include(t) \/ IncludeFailed(t) PROVE AllSayWhatWasShown'
  BY <1>2, SettledSays
<1>3. CASE Send \/ SendUnanswered
  BY <1>3, SentSays DEF Send, SendUnanswered
<1>4. ASSUME UNCHANGED <<txs, kind>> PROVE AllSayWhatWasShown'
  BY <1>4 DEF AllSayWhatWasShown, SaysWhatWasShown, IsPayment
<1>5. CASE Turned \/ KeyUsed \/ Checked \/ Simulate \/ Build \/ NotPrepared \/ NotSigned
  BY <1>4, <1>5
     DEF Turned, KeyUsed, Checked, Simulate, Build, NotPrepared, NotSigned, Abandon
<1>6. CASE SendRejected \/ PollKnown \/ PollGivesUp \/ PollThrows
  BY <1>4, <1>6 DEF SendRejected, PollKnown, PollGivesUp, PollThrows, Receipt, Abandon
<1>7. CASE SetVersion \/ Reload \/ BumpVersion \/ UNCHANGED vars
  BY <1>4, <1>7 DEF SetVersion, Reload, BumpVersion, vars
<1>8. ASSUME NEW k \in 1..(form.drawn + 1), DrawKey(k) PROVE AllSayWhatWasShown'
  BY <1>4, <1>8 DEF DrawKey
<1> QED BY <1>1, <1>2, <1>3, <1>5, <1>6, <1>7, <1>8 DEF Next, Console

-----------------------------------------------------------------------------

\* The poll, the transaction it is about, the sequence number and the form's
\* key move together: the invariant of stellarClient.ts' send and poll and of
\* the forms' onSuccess and onError handlers.
THEOREM WritesInvariant == Spec => []WritesInv
BY InitHolds, NextHolds, PTL DEF Spec

\* The page and the transactions it sent keep their shape.
THEOREM WritesTypeOK == Spec => []TypeOK
<1>1. WritesInv => TypeOK
  BY DEF WritesInv
<1> QED BY <1>1, WritesInvariant, PTL

\* A payment or a split that is tried again after an error, a failure or a
\* pending notice is made once, until its nonce is changed by hand: neither
\* form's own renewal (payment-section.tsx 90, split-section.tsx 94-96) ever
\* makes a second one.
THEOREM PaymentsAreMadeOnce == Spec => []PaidOnce
<1>1. WritesInv => PaidOnce
  BY DEF WritesInv
<1> QED BY <1>1, WritesInvariant, PTL

\* What deployAccount reports as "No treasury was deployed" did not happen and
\* will not.
THEOREM UndeployedStaysUndone == Spec => []UndeployedIsNot
<1>1. WritesInv => UndeployedIsNot
  BY DEF WritesInv
<1> QED BY <1>1, WritesInvariant, PTL

\* A payment or a split lands under the policy version that was in the form
\* when the button was pressed, though the form is edited while the mutation
\* is under way (treasury-console.tsx hands the draft to the mutation).
THEOREM PaymentsLandAsShown == Spec => []LandedAsShown
<1>1. Init => AllSayWhatWasShown
  BY DEF Init, AllSayWhatWasShown
<1>2. TypeOK /\ AllSayWhatWasShown /\ [Next]_vars => AllSayWhatWasShown'
  BY NextSays
<1>3. AllSayWhatWasShown => LandedAsShown
  BY DEF AllSayWhatWasShown, SaysWhatWasShown, LandedAsShown, Landed, IsPayment
<1> QED BY <1>1, <1>2, <1>3, WritesTypeOK, PTL DEF Spec

-----------------------------------------------------------------------------
(* The registration. *)

\* What a client posted, once it has, is a claim.
PostedClaims ==
  \A c \in Clients :
    posts[c].stage \in {"posted", "verified", "registered"} => posts[c].claim \in Claims

\* A refused page's claim is posted again as it was.
RefusedClaims ==
  posts["page"].stage = "refused" => posts["page"].claim \in Claims

RegistryInv ==
  /\ wiring \in Wirings /\ row \in Claims \cup {NoClaim}
  /\ posts \in [Clients -> [stage : {"idle", "lost", "posted", "verified",
                                     "registered", "refused"},
                            claim : Claims \cup {NoClaim}]]
  /\ PostedClaims /\ RefusedClaims /\ RegisteredIsStored

LEMMA NoClaimIsNone == NoClaim \notin Claims
BY DEF NoClaim, Claims

\* A client's request changes; a row, once there, stays.
LEMMA RequestKeeps ==
  ASSUME RegistryInv, NEW c \in Clients,
         NEW stage \in {"lost", "posted", "verified", "registered", "refused"},
         NEW claim \in Claims \cup {NoClaim}, Request(c, stage, claim),
         stage # "lost" => claim \in Claims,
         UNCHANGED wiring, row' = row \/ (row = NoClaim /\ row' \in Claims),
         stage = "registered" => row' = claim
  PROVE  RegistryInv'
<1>1. /\ posts' \in [Clients -> [stage : {"idle", "lost", "posted", "verified",
                                          "registered", "refused"},
                                 claim : Claims \cup {NoClaim}]]
      /\ posts'[c].stage = stage /\ posts'[c].claim = claim
      /\ \A d \in Clients : d # c => posts'[d] = posts[d]
  BY DEF RegistryInv, Request
<1>2. PostedClaims' /\ RefusedClaims'
  BY <1>1 DEF RegistryInv, PostedClaims, RefusedClaims, Clients
<1>3. RegisteredIsStored'
  <2>1. \A d \in Clients : posts[d].stage = "registered" => row \in Claims
    BY DEF RegistryInv, PostedClaims, RegisteredIsStored
  <2> QED BY <1>1, <2>1, NoClaimIsNone DEF RegistryInv, RegisteredIsStored
<1> QED BY <1>1, <1>2, <1>3 DEF RegistryInv

LEMMA StageKeeps ==
  ASSUME RegistryInv, NEW c \in Clients, posts[c].claim \in Claims,
         NEW stage \in {"posted", "verified", "registered", "refused"}, Stage(c, stage),
         UNCHANGED wiring, row' = row \/ (row = NoClaim /\ row' \in Claims),
         stage = "registered" => row' = posts[c].claim
  PROVE  RegistryInv'
BY RequestKeeps DEF Stage

LEMMA RegistryHolds ==
  ASSUME RegistryInv, [OnboardingNext]_allVars PROVE RegistryInv'
<1> USE DEF RegistryInv
<1>1. ASSUME UNCHANGED regVars PROVE RegistryInv'
  BY <1>1 DEF regVars, PostedClaims, RefusedClaims, RegisteredIsStored
<1>2. CASE Rewire
  <2>1. wiring' \in Wirings /\ UNCHANGED <<row, posts>>
    BY <1>2, OnboardingAssumption DEF Rewire, Wirings
  <2> QED BY <2>1 DEF PostedClaims, RefusedClaims, RegisteredIsStored
<1>3. CASE ReadBack
  <2>1. [wiring |-> 1, rest |-> "page's"] \in Claims
    BY OnboardingAssumption DEF Claims, Wirings
  <2> QED BY <1>3, <2>1, RequestKeeps DEF ReadBack, Clients
<1>4. CASE ReadBackFails
  BY <1>4, RequestKeeps DEF ReadBackFails, Clients
<1>5. CASE Retry
  BY <1>5, StageKeeps DEF Retry, Clients, RefusedClaims
<1>6. CASE PostOther
  BY <1>6, RequestKeeps DEF PostOther, Clients
<1>7. ASSUME NEW c \in Clients, Verify(c) PROVE RegistryInv'
  <2>1. posts[c].claim \in Claims
    BY <1>7 DEF Verify, PostedClaims
  <2> QED BY <1>7, <2>1, StageKeeps DEF Verify
<1>8. ASSUME NEW c \in Clients, Create(c) PROVE RegistryInv'
  <2>1. posts[c].claim \in Claims /\ Outcome(c) \in {"registered", "refused"}
    BY <1>8 DEF Create, PostedClaims, Outcome
  <2>2. /\ row' = row \/ (row = NoClaim /\ row' \in Claims)
        /\ Outcome(c) = "registered" => row' = posts[c].claim
    BY <1>8, <2>1 DEF Create, Outcome
  <2> QED BY <1>8, <2>1, <2>2, StageKeeps DEF Create
<1>9. ASSUME NEW c \in Clients, PostFails(c) PROVE RegistryInv'
  <2>1. posts[c].claim \in Claims
    BY <1>9 DEF PostFails, PostedClaims
  <2> QED BY <1>9, <2>1, StageKeeps DEF PostFails
<1> QED BY <1>1, <1>2, <1>3, <1>4, <1>5, <1>6, <1>7, <1>8, <1>9
        DEF OnboardingNext, Registration, allVars

LEMMA RegistryStarts == RegistryInit => RegistryInv
<1> SUFFICES ASSUME RegistryInit PROVE RegistryInv
  OBVIOUS
<1>1. wiring \in Wirings /\ row = NoClaim
  BY OnboardingAssumption DEF RegistryInit, Wirings
<1>2. \A c \in Clients : posts[c].stage = "idle"
  BY DEF RegistryInit
<1>3. posts \in [Clients -> [stage : {"idle", "lost", "posted", "verified",
                                    "registered", "refused"},
                           claim : Claims \cup {NoClaim}]]
  BY DEF RegistryInit
<1>4. PostedClaims /\ RefusedClaims /\ RegisteredIsStored
  BY <1>2 DEF PostedClaims, RefusedClaims, RegisteredIsStored, Clients
<1> QED BY <1>1, <1>3, <1>4 DEF RegistryInv

\* To the writes, a registration is no step, or a request that fails.
LEMMA RegistrationKeepsWrites ==
  ASSUME WritesInv, AllSayWhatWasShown, [OnboardingNext]_allVars
  PROVE  WritesInv' /\ AllSayWhatWasShown'
<1>1. ASSUME [Next]_vars PROVE WritesInv' /\ AllSayWhatWasShown'
  BY <1>1, NextHolds, NextSays DEF WritesInv
<1>2. CASE ReadBackFails \/ \E c \in Clients : PostFails(c)
  <2>1. /\ UNCHANGED <<kind, pc, form, draft, built, txs, polls, told, seqno, version>>
        /\ Fault
    BY <1>2 DEF ReadBackFails, PostFails, page, chain
  <2>2. TypeOK' /\ DraftIsCurrent'
    BY <2>1, FaultCounts DEF WritesInv, TypeOK, DraftIsCurrent
  <2>3. WritesInv'
    BY <2>1, <2>2, GoesOn DEF WritesInv, KeyIsKept
  <2>4. AllSayWhatWasShown'
    BY <2>1 DEF AllSayWhatWasShown, SaysWhatWasShown, IsPayment
  <2> QED BY <2>3, <2>4
<1>3. CASE Registration \/ Rewire \/ PostOther
  BY <1>1, <1>3 DEF Registration, ReadBack, Retry, Verify, Create, Rewire, PostOther
<1> QED BY <1>1, <1>2, <1>3 DEF OnboardingNext, allVars

OnboardingInv == WritesInv /\ AllSayWhatWasShown /\ RegistryInv

\* The writes' invariant and the registry's, of the treasuries page as a whole
\* (app/treasuries/page.tsx and what it calls).
THEOREM OnboardingInvariant == OnboardingSpec => []OnboardingInv
<1>1. OnboardingInit => OnboardingInv
  <2>1. Init => AllSayWhatWasShown
    BY DEF Init, AllSayWhatWasShown
  <2> QED BY <2>1, InitHolds, RegistryStarts DEF OnboardingInit, OnboardingInv
<1>2. OnboardingInv /\ [OnboardingNext]_allVars => OnboardingInv'
  BY RegistrationKeepsWrites, RegistryHolds DEF OnboardingInv
<1> QED BY <1>1, <1>2, PTL DEF OnboardingSpec

\* Whoever is told that a treasury is registered is told so of the claim that
\* is stored, whoever posts what and whatever is lost (createTreasury).
THEOREM RegisteredMeansStored == OnboardingSpec => []RegisteredIsStored
<1>1. OnboardingInv => RegisteredIsStored
  BY DEF OnboardingInv, RegistryInv
<1> QED BY <1>1, OnboardingInvariant, PTL

\* The page, the registry and the requests keep their shape, and a write is made
\* once for each nonce taken by hand, lands as shown and is undone when reported
\* so, while treasuries are registered (app/treasuries/page.tsx).
THEOREM OnboardingKeepsThePromises ==
  OnboardingSpec => [](OnboardingTypeOK /\ PaidOnce /\ LandedAsShown /\ UndeployedIsNot)
<1>1. OnboardingInv => OnboardingTypeOK /\ PaidOnce /\ UndeployedIsNot
  BY DEF OnboardingInv, WritesInv, RegistryInv, OnboardingTypeOK
<1>2. OnboardingInv => LandedAsShown
  BY DEF OnboardingInv, AllSayWhatWasShown, SaysWhatWasShown, LandedAsShown, Landed, IsPayment
<1> QED BY <1>1, <1>2, OnboardingInvariant, PTL
=============================================================================
