------------------------- MODULE ScheduleWindowProofs -------------------------
(***************************************************************************)
(* For any ledger rate, retention, paging and number of faults: a job has  *)
(* its intent's window, what the listing shows as over is over, and a      *)
(* picked moment is converted to the ledger that closes next.              *)
(***************************************************************************)
EXTENDS ScheduleWindow, TLAPS

Scans == [oldest : Nat, next : Nat, latest : Nat, pages : Nat, found : SUBSET Ids,
          reading : BOOLEAN, truncated : BOOLEAN]

Submissions == [draft : Payload, st : {"signed", "landed"}]

Shapes ==
  /\ scan # None => scan \in Scans
  /\ sub # None => sub \in Submissions /\ sub.draft.id \in Ids

\* What was created in the ledgers already scanned has been found, and a scan
\* that ends without a cut has passed the ledger it is dated.
ScanCovers ==
  scan # None =>
    /\ scan.next <= ledger + 1
    /\ \A i \in DOMAIN intents :
         scan.oldest <= intents[i].made /\ intents[i].made < scan.next => i \in scan.found
    /\ scan.reading /\ ~scan.truncated => scan.latest < scan.next

\* What a row shows of its intent stays true of it: an intent that is done or
\* cancelled remains so, and its window does not change.
RowsAge ==
  list # None =>
    \A i \in DOMAIN list.rows :
      LET row == list.rows[i] IN
        row # Unreadable =>
          /\ row \in Intent
          /\ row.start = intents[i].start /\ row.end = intents[i].end
          /\ row.done => intents[i].done
          /\ row.cancelled => intents[i].cancelled

WindowInv == TypeOK /\ Shapes /\ ScanCovers /\ RowsAge /\ JobIsAsOnChain

LEMMA Constants ==
  /\ CloseSeconds \in Nat /\ CloseSeconds > 0 /\ StartDelay \in Nat /\ Duration \in Nat
  /\ Retention \in Nat /\ MaxPages \in Nat /\ MaxLedger \in Nat /\ MaxId \in Nat
  /\ MaxPicks \in Nat /\ MaxFaults \in Nat /\ Moments \subseteq Int
BY WindowAssumption

-----------------------------------------------------------------------------
(* The conversion. *)

\* A quotient rounded down, times the divisor, is short of the dividend by
\* less than the divisor.
LEMMA Rounding ==
  ASSUME NEW a \in Int, NEW b \in Nat, b > 0
  PROVE  a \div b \in Int /\ (a \div b) * b <= a /\ a < (a \div b) * b + b
OBVIOUS

LEMMA Conversion ==
  ASSUME NEW moment \in Int, NEW reference \in Int, LedgerForTime(moment, reference) # 1
  PROVE  EstimateLedgerTime(LedgerForTime(moment, reference), reference)
           \in moment..(moment + CloseSeconds - 1)
<1> DEFINE q == (-moment) \div CloseSeconds
<1>1. q \in Int /\ q * CloseSeconds <= -moment /\ -moment < q * CloseSeconds + CloseSeconds
  BY Constants, Rounding
<1>2. LedgerForTime(moment, reference) = reference - q
  BY DEF LedgerForTime, AtLeastOne
<1> HIDE DEF q
<1>3. ((reference - q) - reference) * CloseSeconds = -(q * CloseSeconds)
  BY <1>1, Constants
<1>4. q * CloseSeconds \in Int
  BY <1>1, Constants
<1> QED BY <1>1, <1>2, <1>3, <1>4, Constants DEF EstimateLedgerTime

LEMMA LedgerForTimeIs ==
  ASSUME NEW moment \in Int, NEW reference \in Int
  PROVE  LedgerForTime(moment, reference) \in Nat
<1>1. (-moment) \div CloseSeconds \in Int
  BY Constants, Rounding
<1> QED BY <1>1 DEF LedgerForTime, AtLeastOne

-----------------------------------------------------------------------------

LEMMA InitHolds == Init => WindowInv
<1> SUFFICES ASSUME Init PROVE WindowInv
  OBVIOUS
<1>1. DOMAIN intents = {} /\ DOMAIN jobs = {}
  BY DEF Init
<1>2. 1 \in 1..MaxLedger
  BY WindowAssumption
<1>3. TypeOK
  BY <1>1, <1>2, Constants DEF Init, TypeOK, Blank, Payload
<1> QED BY <1>1, <1>3 DEF Init, WindowInv, Shapes, ScanCovers, RowsAge, JobIsAsOnChain

-----------------------------------------------------------------------------
(* The chain. *)

LEMMA ListStays == ASSUME RowsAge, UNCHANGED <<intents, list>> PROVE RowsAge'
BY DEF RowsAge

LEMMA ScanStays ==
  ASSUME Shapes, ScanCovers, UNCHANGED <<intents, ledger, scan, sub>>
  PROVE  Shapes' /\ ScanCovers'
BY DEF Shapes, ScanCovers

LEMMA JobsStay == ASSUME JobIsAsOnChain, UNCHANGED <<intents, jobs>> PROVE JobIsAsOnChain'
BY DEF JobIsAsOnChain

\* A ledger closes over intents whose windows stay, and which may end.
LEMMA LedgerHolds ==
  ASSUME WindowInv, ledger' = ledger + 1, ledger < MaxLedger,
         DOMAIN intents' = DOMAIN intents,
         \A i \in DOMAIN intents :
           /\ intents'[i] \in Intent
           /\ intents'[i].start = intents[i].start /\ intents'[i].end = intents[i].end
           /\ intents'[i].made = intents[i].made
           /\ intents[i].done => intents'[i].done
           /\ intents[i].cancelled => intents'[i].cancelled,
         UNCHANGED <<form, clock, picks, picked, sub, created, list, scan, jobs, post, faults>>
  PROVE  WindowInv'
<1> USE DEF WindowInv
<1>1. ledger \in Nat /\ ledger' \in 1..MaxLedger /\ 1..ledger \subseteq 1..ledger'
  BY Constants DEF TypeOK
<1>2. TypeOK'
  BY <1>1 DEF TypeOK
<1>3. Shapes'
  BY DEF Shapes
<1>4. ScanCovers'
  BY <1>1 DEF ScanCovers, Shapes, Scans
<1>5. RowsAge'
  <2>1. SUFFICES ASSUME list # None, NEW i \in DOMAIN list.rows, list.rows[i] # Unreadable
                 PROVE  /\ list.rows[i] \in Intent
                        /\ list.rows[i].start = intents'[i].start
                        /\ list.rows[i].end = intents'[i].end
                        /\ list.rows[i].done => intents'[i].done
                        /\ list.rows[i].cancelled => intents'[i].cancelled
    BY DEF RowsAge
  <2>2. i \in DOMAIN intents
    BY <2>1 DEF TypeOK
  <2> QED BY <2>1, <2>2 DEF RowsAge
<1>6. JobIsAsOnChain'
  BY DEF JobIsAsOnChain
<1> QED BY <1>2, <1>3, <1>4, <1>5, <1>6

LEMMA ChainHolds ==
  ASSUME WindowInv,
         CloseLedger \/ (\E i \in DOMAIN intents : Execute(i) \/ Cancel(i))
  PROVE  WindowInv'
<1>1. CASE CloseLedger
  BY <1>1, LedgerHolds DEF CloseLedger, Closes, typing, listing, queueing, WindowInv, TypeOK
<1>2. ASSUME NEW i \in DOMAIN intents, Execute(i) PROVE WindowInv'
  <2>1. /\ ledger' = ledger + 1 /\ ledger < MaxLedger
        /\ intents' = [intents EXCEPT ![i].done = TRUE]
        /\ UNCHANGED <<form, clock, picks, picked, sub, created, list, scan, jobs, post, faults>>
    BY <1>2 DEF Execute, Closes, typing, listing, queueing
  <2>2. \A j \in DOMAIN intents : intents[j] \in Intent
    BY DEF WindowInv, TypeOK
  <2> DEFINE new == [intents[i] EXCEPT !.done = TRUE]
  <2>3. /\ new \in Intent /\ new.start = intents[i].start /\ new.end = intents[i].end
        /\ new.made = intents[i].made /\ new.done /\ new.cancelled = intents[i].cancelled
    BY <2>2 DEF Intent
  <2>4. DOMAIN intents' = DOMAIN intents
        /\ \A j \in DOMAIN intents : intents'[j] = IF j = i THEN new ELSE intents[j]
    BY <2>1
  <2> HIDE DEF new
  <2> QED BY <2>1, <2>2, <2>3, <2>4, LedgerHolds
<1>3. ASSUME NEW i \in DOMAIN intents, Cancel(i) PROVE WindowInv'
  <2>1. /\ ledger' = ledger + 1 /\ ledger < MaxLedger
        /\ intents' = [intents EXCEPT ![i].cancelled = TRUE]
        /\ UNCHANGED <<form, clock, picks, picked, sub, created, list, scan, jobs, post, faults>>
    BY <1>3 DEF Cancel, Closes, typing, listing, queueing
  <2>2. \A j \in DOMAIN intents : intents[j] \in Intent
    BY DEF WindowInv, TypeOK
  <2> DEFINE new == [intents[i] EXCEPT !.cancelled = TRUE]
  <2>3. /\ new \in Intent /\ new.start = intents[i].start /\ new.end = intents[i].end
        /\ new.made = intents[i].made /\ new.done = intents[i].done /\ new.cancelled
    BY <2>2 DEF Intent
  <2>4. DOMAIN intents' = DOMAIN intents
        /\ \A j \in DOMAIN intents : intents'[j] = IF j = i THEN new ELSE intents[j]
    BY <2>1
  <2> HIDE DEF new
  <2> QED BY <2>1, <2>2, <2>3, <2>4, LedgerHolds
<1> QED BY <1>1, <1>2, <1>3

\* A new intent is dated the ledger that closes, which no scan has passed.
LEMMA LandHolds == ASSUME WindowInv, Land PROVE WindowInv'
<1> USE DEF WindowInv
<1> DEFINE id == sub.draft.id
           new == [start |-> sub.draft.start, end |-> sub.draft.end, made |-> ledger',
                   done |-> FALSE, cancelled |-> FALSE]
           sent == [sub EXCEPT !.st = "landed"]
<1>1. /\ ledger' = ledger + 1 /\ ledger < MaxLedger
      /\ sub # None /\ id \notin DOMAIN intents
      /\ intents' = [i \in DOMAIN intents \cup {id} |-> IF i = id THEN new ELSE intents[i]]
      /\ sub' = sent
      /\ UNCHANGED <<form, clock, picks, picked, created, list, scan, jobs, post, faults>>
  BY DEF Land, Closes, typing, listing, queueing
<1>2. /\ sub \in Submissions /\ sub.draft \in Payload /\ id \in Ids
      /\ sub.draft.start \in Nat /\ sub.draft.end \in Nat
      /\ ledger \in Nat /\ ledger' \in Nat /\ ledger' \in 1..MaxLedger
  BY <1>1, Constants DEF Shapes, Submissions, Payload, TypeOK
<1>3. new \in Intent /\ new.made = ledger'
  BY <1>2 DEF Intent
<1>4. sent \in Submissions /\ sent.draft = sub.draft
  BY <1>2 DEF Submissions
<1> HIDE DEF new, sent
<1>5. DOMAIN intents' = DOMAIN intents \cup {id} /\ intents'[id] = new
      /\ \A i \in DOMAIN intents : intents'[i] = intents[i]
  BY <1>1
<1>6. TypeOK'
  <2>1. DOMAIN intents' \subseteq Ids /\ \A i \in DOMAIN intents' : intents'[i] \in Intent
    BY <1>2, <1>3, <1>5 DEF TypeOK
  <2>2. 1..ledger \subseteq 1..ledger'
    BY <1>1, <1>2
  <2>3. sub'.draft \in Payload /\ sub'.st \in {"signed", "landed"}
    BY <1>1, <1>4 DEF Submissions
  <2> QED BY <1>1, <1>2, <1>5, <2>1, <2>2, <2>3 DEF TypeOK
<1>7. Shapes'
  BY <1>1, <1>2, <1>4 DEF Shapes
<1>8. ScanCovers'
  <2>1. scan # None => /\ scan.next \in Nat /\ scan.next <= ledger + 1
                       /\ scan.oldest \in Nat
    BY DEF Shapes, Scans, ScanCovers
  <2>2. ASSUME scan # None, NEW i \in DOMAIN intents', scan.oldest <= intents'[i].made,
               intents'[i].made < scan.next
        PROVE  i \in scan.found
    <3>1. i # id
      BY <1>1, <1>2, <1>3, <1>5, <2>1, <2>2
    <3> QED BY <1>5, <2>2, <3>1 DEF ScanCovers
  <2>3. scan # None => scan.next <= ledger' + 1
    BY <1>1, <1>2, <2>1
  <2>4. scan # None /\ scan.reading /\ ~scan.truncated => scan.latest < scan.next
    BY DEF ScanCovers
  <2>5. scan' = scan
    BY <1>1
  <2> QED BY <2>2, <2>3, <2>4, <2>5 DEF ScanCovers
<1>9. RowsAge'
  BY <1>1, <1>5 DEF RowsAge, TypeOK
<1>10. JobIsAsOnChain'
  BY <1>1, <1>5 DEF JobIsAsOnChain
<1> QED BY <1>6, <1>7, <1>8, <1>9, <1>10

-----------------------------------------------------------------------------
(* The form. *)

\* The form, its clock and the picks change, and nothing else.
LEMMA TypingHolds ==
  ASSUME WindowInv, form' \in Payload, clock' \in 0..MaxLedger,
         picks' \subseteq picks \/
           (\E field \in {"start", "end"}, moment \in Moments :
              picks' = picks \cup {[field |-> field, moment |-> moment, from |-> ledger]}),
         picked' \in 0..MaxPicks, faults' \in 0..MaxFaults,
         UNCHANGED <<ledger, intents, list, scan, jobs, post, sub, created>>
  PROVE  WindowInv'
<1> USE DEF WindowInv
<1>1. ledger \in 1..ledger
  BY Constants DEF TypeOK
<1>2. \A p \in picks' : p.field \in {"start", "end"} /\ p.moment \in Moments /\ p.from \in 1..ledger
  BY <1>1 DEF TypeOK
<1>3. TypeOK'
  BY <1>2 DEF TypeOK
<1> QED BY <1>3, ListStays, ScanStays, JobsStay

LEMMA EditedIs ==
  ASSUME TypeOK
  PROVE  /\ ledger \in Nat /\ ledger \in 0..MaxLedger
         /\ \A n \in Nat : [form EXCEPT !.start = n] \in Payload
         /\ \A n \in Nat : [form EXCEPT !.end = n] \in Payload
         /\ \A field \in {"start", "end"}, n \in Nat : [form EXCEPT ![field] = n] \in Payload
         /\ Default(ledger) \in Payload /\ Fresh(form) \in Payload
         /\ Edited => picked' \in 0..MaxPicks
         /\ Fault => faults' \in 0..MaxFaults
<1>1. form \in Payload /\ ledger \in Nat /\ ledger \in 0..MaxLedger
  BY Constants DEF TypeOK
<1>2. \A n \in Nat : [form EXCEPT !.start = n] \in Payload /\ [form EXCEPT !.end = n] \in Payload
  BY <1>1 DEF Payload
<1>3. \A field \in {"start", "end"}, n \in Nat : [form EXCEPT ![field] = n] \in Payload
  BY <1>1 DEF Payload
<1>4. Default(ledger) \in Payload
  <2>1. ledger + StartDelay \in Nat /\ ledger + StartDelay + Duration \in Nat
    BY <1>1, Constants
  <2> QED BY <1>1, <2>1 DEF Default, Payload
<1>5. Fresh(form) \in Payload
  <2>1. (IF form.id > MaxId THEN form.id ELSE form.id + 1) \in 1..(MaxId + 1)
    BY <1>1, Constants DEF Payload
  <2> QED BY <1>1, <2>1 DEF Fresh, Payload
<1>6. (Edited => picked' \in 0..MaxPicks) /\ (Fault => faults' \in 0..MaxFaults)
  BY Constants DEF Edited, Fault, TypeOK
<1> QED BY <1>1, <1>2, <1>3, <1>4, <1>5, <1>6

\* The answer to a pick sets the field it is about.
LEMMA AnswerHolds ==
  ASSUME WindowInv, NEW p \in picks, NEW read \in p.from..ledger, PickAnswered(p, read)
  PROVE  WindowInv'
<1> USE DEF WindowInv
<1>1. /\ p.field \in {"start", "end"} /\ p.moment \in Int /\ read \in Int
      /\ read \in 0..MaxLedger
  BY Constants DEF TypeOK
<1>2. LedgerForTime(p.moment, read) \in Nat
  <2> DEFINE moment == p.moment
  <2>1. moment \in Int
    BY <1>1
  <2> HIDE DEF moment
  <2>2. LedgerForTime(moment, read) \in Nat
    BY <1>1, <2>1, LedgerForTimeIs
  <2> QED BY <2>2 DEF moment
<1>3. form' \in Payload
  BY <1>1, <1>2, EditedIs DEF PickAnswered
<1>4. /\ clock' = read /\ picks' \subseteq picks
      /\ UNCHANGED <<ledger, intents, list, scan, jobs, post, sub, created, picked, faults>>
  BY DEF PickAnswered, chain, listing, queueing
<1>5. picked' \in 0..MaxPicks /\ faults' \in 0..MaxFaults
  BY <1>4 DEF TypeOK
<1> QED BY <1>1, <1>3, <1>4, <1>5, TypingHolds

LEMMA FormHolds ==
  ASSUME WindowInv,
         \/ Seed \/ UseDefault \/ Regenerate
         \/ \E field \in {"start", "end"}, moment \in Moments : Pick(field, moment)
         \/ \E p \in picks : PickFails(p)
  PROVE  WindowInv'
<1> USE DEF WindowInv
<1>1. CASE Seed
  BY <1>1, EditedIs, TypingHolds DEF Seed, chain, listing, queueing, TypeOK
<1>2. CASE UseDefault
  BY <1>2, EditedIs, TypingHolds DEF UseDefault, chain, listing, queueing, TypeOK
<1>3. CASE Regenerate
  BY <1>3, EditedIs, TypingHolds DEF Regenerate, chain, listing, queueing, TypeOK
<1>4. ASSUME NEW field \in {"start", "end"}, NEW moment \in Moments, Pick(field, moment)
      PROVE  WindowInv'
  BY <1>4, EditedIs, TypingHolds DEF Pick, chain, listing, queueing, TypeOK
<1>5. ASSUME NEW p \in picks, PickFails(p) PROVE WindowInv'
  BY <1>5, EditedIs, TypingHolds DEF PickFails, chain, listing, queueing, TypeOK
<1> QED BY <1>1, <1>2, <1>3, <1>4, <1>5

\* The mutation takes the form with it, and ends, whatever the form is then.
LEMMA SubmitHolds ==
  ASSUME WindowInv, Press \/ Exists \/ SubmitFails
  PROVE  WindowInv'
<1> USE DEF WindowInv
<1>1. CASE Press
  <2> DEFINE new == [draft |-> form, st |-> "signed"]
  <2>1. new \in Submissions /\ new.draft = form /\ form \in Payload /\ form.id \in Ids
    BY <1>1 DEF Press, Submissions, TypeOK
  <2>2. /\ sub' = new /\ created' = None
        /\ UNCHANGED <<ledger, intents, form, clock, picks, picked, list, scan, jobs, post, faults>>
    BY <1>1 DEF Press, chain, typing, listing, queueing
  <2> HIDE DEF new
  <2>3. sub'.draft \in Payload /\ sub'.st \in {"signed", "landed"}
    BY <2>1, <2>2 DEF Submissions
  <2>4. TypeOK' /\ Shapes' /\ ScanCovers'
    BY <2>1, <2>2, <2>3 DEF TypeOK, Shapes, ScanCovers
  <2> QED BY <2>2, <2>4, ListStays, JobsStay
<1>2. CASE Exists
  <2>1. /\ form' = Fresh(form) /\ sub' = None
        /\ UNCHANGED <<ledger, intents, clock, picks, picked, created, list, scan, jobs, post, faults>>
    BY <1>2 DEF Exists, chain, listing, queueing
  <2>2. TypeOK' /\ Shapes' /\ ScanCovers'
    BY <2>1, EditedIs DEF TypeOK, Shapes, ScanCovers
  <2> QED BY <2>1, <2>2, ListStays, JobsStay
<1>3. CASE SubmitFails
  <2>1. /\ sub' = None /\ faults' \in 0..MaxFaults
        /\ UNCHANGED <<ledger, intents, form, clock, picks, picked, created, list, scan, jobs, post>>
    BY <1>3, EditedIs DEF SubmitFails, chain, typing, listing, queueing
  <2>2. TypeOK' /\ Shapes' /\ ScanCovers'
    BY <2>1 DEF TypeOK, Shapes, ScanCovers
  <2> QED BY <2>1, <2>2, ListStays, JobsStay
<1> QED BY <1>1, <1>2, <1>3

-----------------------------------------------------------------------------
(* The listing. *)

\* A scan that starts has covered nothing.
LEMMA RescanIs ==
  ASSUME TypeOK, Rescan
  PROVE  /\ scan' \in Scans /\ scan'.latest = ledger /\ scan'.pages = 0
         /\ scan'.found = {} /\ scan'.oldest = scan'.next /\ scan'.next <= ledger
         /\ scan'.reading = FALSE
<1> DEFINE oldest == AtLeastOne(ledger - Retention + 1)
<1>1. ledger \in Nat /\ oldest \in Nat /\ oldest <= ledger
  BY Constants, WindowAssumption DEF TypeOK, AtLeastOne
<1>2. scan' = [oldest |-> oldest, next |-> oldest, latest |-> ledger, pages |-> 0,
               found |-> {}, reading |-> FALSE, truncated |-> FALSE]
  BY DEF Rescan
<1> HIDE DEF oldest
<1> QED BY <1>1, <1>2 DEF Scans

LEMMA RescanHolds ==
  ASSUME TypeOK, Shapes, Rescan, UNCHANGED <<ledger, intents>>
  PROVE  /\ ScanCovers' /\ scan' \in Scans
         /\ scan'.pages \in 0..MaxPages /\ scan'.latest \in 1..ledger
         /\ scan'.found \subseteq DOMAIN intents
<1>1. /\ scan' \in Scans /\ scan'.latest = ledger /\ scan'.pages = 0
      /\ scan'.found = {} /\ scan'.oldest = scan'.next /\ scan'.next <= ledger
      /\ scan'.reading = FALSE
  BY RescanIs
<1>2. ledger \in 1..ledger /\ 0 \in 0..MaxPages /\ ledger \in Nat
      /\ scan'.oldest \in Nat /\ scan'.next \in Nat
  BY <1>1, Constants DEF TypeOK, Scans
<1>3. \A i \in DOMAIN intents : intents[i].made \in Nat
  BY DEF TypeOK, Intent
<1>4. ScanCovers'
  BY <1>1, <1>2, <1>3 DEF ScanCovers
<1> QED BY <1>1, <1>2, <1>4

\* A page covers the slice from where the last one ended.
LEMMA PageHolds == ASSUME WindowInv, Page PROVE WindowInv'
<1> USE DEF WindowInv
<1>1. PICK upto \in scan.next..ledger :
        LET found == {i \in DOMAIN intents : intents[i].made \in scan.next..upto}
        IN  scan' = [scan EXCEPT
              !.next = upto + 1, !.latest = ledger, !.pages = @ + 1,
              !.found = @ \cup found,
              !.reading = Last(upto, found) \/ scan.pages + 1 = MaxPages,
              !.truncated = ~Last(upto, found) /\ scan.pages + 1 = MaxPages]
  BY DEF Page
<1> DEFINE found == {i \in DOMAIN intents : intents[i].made \in scan.next..upto}
<1>2. /\ scan # None /\ ~scan.reading /\ scan.pages < MaxPages
      /\ UNCHANGED <<ledger, intents, form, clock, picks, picked, list, jobs, post, sub,
                     created, faults>>
  BY DEF Page, Scanning, chain, typing, queueing
<1>3. /\ scan \in Scans /\ scan.oldest \in Nat /\ scan.next \in Nat /\ scan.pages \in Nat
      /\ scan.found \subseteq DOMAIN intents /\ ledger \in Nat /\ ledger \in 1..ledger
      /\ upto \in Nat /\ upto <= ledger /\ scan.next <= upto
      /\ DOMAIN intents \subseteq Ids
  BY <1>2, Constants DEF Shapes, Scans, TypeOK
<1>4. /\ scan'.next = upto + 1 /\ scan'.latest = ledger /\ scan'.pages = scan.pages + 1
      /\ scan'.found = scan.found \cup found /\ scan'.oldest = scan.oldest
      /\ scan'.reading = (upto >= ledger \/ scan.pages + 1 = MaxPages)
      /\ scan'.truncated = (~(upto >= ledger) /\ scan.pages + 1 = MaxPages)
  BY <1>1, <1>3 DEF Last, Scans
<1>5. scan' \in Scans
  <2>1. /\ upto + 1 \in Nat /\ scan.pages + 1 \in Nat /\ scan.found \cup found \in SUBSET Ids
        /\ Last(upto, found) \in BOOLEAN
    BY <1>3 DEF Last
  <2> HIDE DEF found
  <2> QED BY <1>1, <1>3, <2>1 DEF Scans, found
<1>6. ScanCovers'
  <2>1. \A i \in DOMAIN intents :
          scan.oldest <= intents[i].made /\ intents[i].made < upto + 1 => i \in scan.found \cup found
    <3>1. SUFFICES ASSUME NEW i \in DOMAIN intents, scan.oldest <= intents[i].made,
                          intents[i].made < upto + 1
                   PROVE  i \in scan.found \cup found
      OBVIOUS
    <3>2. intents[i].made \in Nat
      BY DEF TypeOK, Intent
    <3>3. CASE intents[i].made < scan.next
      BY <1>2, <3>1, <3>3 DEF ScanCovers
    <3>4. CASE intents[i].made >= scan.next
      BY <1>3, <3>1, <3>2, <3>4
    <3> QED BY <1>3, <3>2, <3>3, <3>4
  <2>2. scan'.reading /\ ~scan'.truncated => scan'.latest < scan'.next
    BY <1>3, <1>4
  <2> HIDE DEF found
  <2> QED BY <1>2, <1>3, <1>4, <2>1, <2>2 DEF ScanCovers
<1>7. TypeOK'
  <2>1. scan'.pages \in 0..MaxPages /\ scan'.found \subseteq DOMAIN intents
    BY <1>2, <1>3, <1>4, Constants
  <2> HIDE DEF found
  <2> QED BY <1>2, <1>3, <1>4, <2>1 DEF TypeOK
<1>8. Shapes'
  BY <1>2, <1>5 DEF Shapes
<1> QED BY <1>2, <1>6, <1>7, <1>8, ListStays, JobsStay

\* The rows are what the registry says of the intents found.
LEMMA ReadBackIs ==
  ASSUME WindowInv, ReadBack
  PROVE  /\ scan # None /\ scan.reading /\ scan' = None
         /\ list'.latest = scan.latest /\ list'.truncated = scan.truncated
         /\ DOMAIN list'.rows = scan.found
         /\ \A i \in scan.found : list'.rows[i] = Unreadable \/ list'.rows[i] = intents[i]
         /\ faults' \in 0..MaxFaults
         /\ UNCHANGED <<ledger, intents, form, clock, picks, picked, jobs, post, sub, created>>
<1>1. PICK lost \in SUBSET scan.found :
        /\ \/ lost = {} /\ UNCHANGED faults
           \/ lost # {} /\ Fault
        /\ list' = [rows |-> [i \in scan.found |-> IF i \in lost THEN Unreadable ELSE intents[i]],
                    latest |-> scan.latest, truncated |-> scan.truncated]
  BY DEF ReadBack
<1>2. faults' \in 0..MaxFaults
  BY <1>1, EditedIs DEF WindowInv, TypeOK
<1>3. list'.rows = [i \in scan.found |-> IF i \in lost THEN Unreadable ELSE intents[i]]
  BY <1>1
<1> QED BY <1>1, <1>2, <1>3 DEF ReadBack, chain, typing, queueing

LEMMA ListingHolds ==
  ASSUME WindowInv, Refresh \/ ReadBack \/ ScanFails
  PROVE  WindowInv'
<1> USE DEF WindowInv
<1>1. CASE Refresh
  <2>1. /\ Rescan
        /\ UNCHANGED <<ledger, intents, form, clock, picks, picked, list, jobs, post, sub,
                       created, faults>>
    BY <1>1 DEF Refresh, chain, typing, queueing
  <2>2. /\ ScanCovers' /\ scan' \in Scans
        /\ scan'.pages \in 0..MaxPages /\ scan'.latest \in 1..ledger
        /\ scan'.found \subseteq DOMAIN intents
    BY <2>1, RescanHolds
  <2>3. TypeOK' /\ Shapes'
    BY <2>1, <2>2 DEF TypeOK, Shapes
  <2> QED BY <2>1, <2>2, <2>3, ListStays, JobsStay
<1>2. CASE ReadBack
  <2>1. /\ scan # None /\ scan' = None
        /\ list'.latest = scan.latest /\ DOMAIN list'.rows = scan.found
        /\ \A i \in scan.found : list'.rows[i] = Unreadable \/ list'.rows[i] = intents[i]
        /\ faults' \in 0..MaxFaults
        /\ UNCHANGED <<ledger, intents, form, clock, picks, picked, jobs, post, sub, created>>
    BY <1>2, ReadBackIs
  <2>2. scan.latest \in 1..ledger /\ scan.found \subseteq DOMAIN intents
        /\ \A i \in DOMAIN intents : intents[i] \in Intent
    BY <2>1 DEF TypeOK
  <2>3. TypeOK' /\ Shapes' /\ ScanCovers'
    BY <2>1, <2>2 DEF TypeOK, Shapes, ScanCovers
  <2>4. RowsAge'
    BY <2>1, <2>2 DEF RowsAge
  <2> QED BY <2>1, <2>3, <2>4, JobsStay
<1>3. CASE ScanFails
  <2>1. /\ scan' = None /\ faults' \in 0..MaxFaults
        /\ UNCHANGED <<ledger, intents, form, clock, picks, picked, list, jobs, post, sub, created>>
    BY <1>3, EditedIs DEF ScanFails, chain, typing, queueing
  <2>2. TypeOK' /\ Shapes' /\ ScanCovers'
    BY <2>1 DEF TypeOK, Shapes, ScanCovers
  <2> QED BY <2>1, <2>2, ListStays, JobsStay
<1> QED BY <1>1, <1>2, <1>3

-----------------------------------------------------------------------------
(* The ends of a mutation and of a page. *)

LEMMA ConfirmHolds == ASSUME WindowInv, Confirm PROVE WindowInv'
<1> USE DEF WindowInv
<1>1. /\ Rescan /\ sub' = None /\ form' = Fresh(form) /\ created' = form
      /\ UNCHANGED <<ledger, intents, list, jobs, post, clock, picks, picked, faults>>
  BY DEF Confirm, chain, queueing
<1>2. /\ ScanCovers' /\ scan' \in Scans
      /\ scan'.pages \in 0..MaxPages /\ scan'.latest \in 1..ledger
      /\ scan'.found \subseteq DOMAIN intents
  BY <1>1, RescanHolds
<1>3. form' \in Payload /\ created' \in Payload
  BY <1>1, EditedIs DEF TypeOK
<1>4. TypeOK' /\ Shapes'
  BY <1>1, <1>2, <1>3 DEF TypeOK, Shapes
<1> QED BY <1>1, <1>2, <1>4, ListStays, JobsStay

LEMMA ReloadHolds == ASSUME WindowInv, Reload PROVE WindowInv'
<1> USE DEF WindowInv
<1>1. /\ form' = [Blank EXCEPT !.id = Fresh(form).id]
      /\ clock' = 0 /\ picks' = {} /\ sub' = None /\ created' = None
      /\ list' = None /\ scan' = None /\ post' = None
      /\ faults' \in 0..MaxFaults
      /\ UNCHANGED <<ledger, intents, jobs, picked>>
  BY EditedIs DEF Reload, chain
<1>2. form' \in Payload
  <2>1. Fresh(form).id \in 1..(MaxId + 1)
    BY EditedIs DEF Payload
  <2> QED BY <1>1, <2>1 DEF Blank, Payload
<1>3. TypeOK' /\ Shapes' /\ ScanCovers' /\ RowsAge'
  BY <1>1, <1>2, Constants DEF TypeOK, Shapes, ScanCovers, RowsAge
<1> QED BY <1>1, <1>3, JobsStay

-----------------------------------------------------------------------------
(* Queueing. *)

LEMMA PostHolds ==
  ASSUME WindowInv, NEW payload \in Payload, Post(payload)
  PROVE  WindowInv'
<1> USE DEF WindowInv
<1>1. /\ post' = payload
      /\ UNCHANGED <<ledger, intents, form, clock, picks, picked, list, scan, jobs, sub,
                     created, faults>>
  BY DEF Post, chain, typing, listing
<1>2. TypeOK'
  BY <1>1 DEF TypeOK
<1> QED BY <1>1, <1>2, ListStays, ScanStays, JobsStay

LEMMA QueueingHolds ==
  ASSUME WindowInv,
         QueueCreated \/ Settle \/ (\E i \in DOMAIN intents : QueueListed(i))
  PROVE  WindowInv'
<1> USE DEF WindowInv
<1>1. CASE QueueCreated
  BY <1>1, PostHolds DEF QueueCreated, TypeOK
<1>2. CASE Queue
  <2> DEFINE new == [start |-> intents[post.id].start, end |-> intents[post.id].end]
  <2>1. /\ post.id \in DOMAIN intents /\ post' = None
        /\ jobs' = [i \in DOMAIN jobs \cup {post.id} |-> IF i \in DOMAIN jobs THEN jobs[i] ELSE new]
        /\ UNCHANGED <<ledger, intents, form, clock, picks, picked, list, scan, sub, created, faults>>
    BY <1>2 DEF Queue, Canonical, chain, typing, listing
  <2>2. new \in Window
    BY <2>1 DEF TypeOK, Intent, Window
  <2>3. DOMAIN jobs' = DOMAIN jobs \cup {post.id}
        /\ \A i \in DOMAIN jobs' : jobs'[i] = IF i \in DOMAIN jobs THEN jobs[i] ELSE new
    BY <2>1
  <2>4. JobIsAsOnChain'
    BY <2>1, <2>3 DEF JobIsAsOnChain
  <2> HIDE DEF new
  <2>5. DOMAIN jobs' \subseteq Ids /\ \A i \in DOMAIN jobs' : jobs'[i] \in Window
    BY <2>1, <2>2, <2>3 DEF TypeOK
  <2>6. TypeOK'
    BY <2>1, <2>5 DEF TypeOK
  <2> QED BY <2>1, <2>4, <2>6, ListStays, ScanStays
<1>3. CASE QueueRefused
  <2>1. /\ post' = None /\ faults' \in 0..MaxFaults
        /\ UNCHANGED <<ledger, intents, form, clock, picks, picked, list, scan, jobs, sub, created>>
    BY <1>3, EditedIs DEF QueueRefused, chain, typing, listing, TypeOK
  <2>2. TypeOK'
    BY <2>1 DEF TypeOK
  <2> QED BY <2>1, <2>2, ListStays, ScanStays, JobsStay
<1>4. ASSUME NEW i \in DOMAIN intents, QueueListed(i) PROVE WindowInv'
  <2> DEFINE row == list.rows[i]
             payload == [id |-> i, start |-> row.start, end |-> row.end]
  <2>1. list # None /\ i \in DOMAIN list.rows /\ Status(row, list.latest) \in {"pending", "active"}
        /\ Post(payload)
    BY <1>4 DEF QueueListed
  <2>2. row # Unreadable
    BY <2>1 DEF Status
  <2>3. row \in Intent
    BY <2>1, <2>2 DEF RowsAge
  <2>4. payload \in Payload
    BY <2>3, Constants DEF Payload, Intent, TypeOK, Ids
  <2> HIDE DEF payload
  <2> QED BY <2>1, <2>4, PostHolds
<1> QED BY <1>1, <1>2, <1>3, <1>4 DEF Settle

LEMMA NextHolds == ASSUME WindowInv, [Next]_vars PROVE WindowInv'
<1>1. CASE UNCHANGED vars
  <2>1. UNCHANGED <<ledger, intents, form, clock, picks, picked, list, scan, jobs, post, sub,
                    created, faults>>
    BY <1>1 DEF vars, chain, typing, listing, queueing
  <2>2. TypeOK'
    BY <2>1 DEF WindowInv, TypeOK
  <2> QED BY <2>1, <2>2, ListStays, ScanStays, JobsStay DEF WindowInv
<1>2. ASSUME NEW p \in picks, NEW read \in p.from..ledger, PickAnswered(p, read) PROVE WindowInv'
  BY <1>2, AnswerHolds
<1> QED BY <1>1, <1>2, ChainHolds, LandHolds, FormHolds, SubmitHolds, PageHolds, ListingHolds,
           ConfirmHolds, ReloadHolds, QueueingHolds DEF Next

-----------------------------------------------------------------------------

\* The form, the listing and the registry move together: the invariant of
\* schedule-section.tsx, loadScheduledIntents and POST /api/relayer/jobs.
THEOREM WindowInvariant == Spec => []WindowInv
BY InitHolds, NextHolds, PTL DEF Spec

\* The schedule section, the registry and the jobs keep their shape.
THEOREM WindowTypeOK == Spec => []TypeOK
<1>1. WindowInv => TypeOK
  BY DEF WindowInv
<1> QED BY <1>1, WindowInvariant, PTL

\* A job has the window its intent has on chain, whatever the console asked
\* for: readQueueableScheduledIntent takes it from the chain.
THEOREM JobsAreAsOnChain == Spec => []JobIsAsOnChain
<1>1. WindowInv => JobIsAsOnChain
  BY DEF WindowInv
<1> QED BY <1>1, WindowInvariant, PTL

\* What describeIntentStatus calls cancelled, exhausted or expired is over,
\* however long ago the listing was read.
THEOREM OverIsOver == Spec => []ListedOverIsOver
<1>1. WindowInv => ListedOverIsOver
  <2>1. SUFFICES ASSUME WindowInv, list # None, NEW i \in DOMAIN list.rows,
                        Over(Status(list.rows[i], list.latest)), Live(intents[i])
                 PROVE  FALSE
    BY DEF ListedOverIsOver
  <2> DEFINE row == list.rows[i]
  <2>2. row # Unreadable
    BY <2>1 DEF Over, Status
  <2>3. row \in Intent /\ row.end = intents[i].end
        /\ (row.done => intents[i].done) /\ (row.cancelled => intents[i].cancelled)
    BY <2>1, <2>2 DEF WindowInv, RowsAge
  <2>4. row.end \in Nat /\ list.latest \in Nat /\ ledger \in Nat /\ list.latest <= ledger
    BY <2>1, <2>3, Constants DEF WindowInv, TypeOK, Intent
  <2>5. ~row.cancelled /\ ~row.done /\ ~(list.latest > row.end)
    BY <2>1, <2>3, <2>4 DEF Live
  <2>6. Status(row, list.latest) \in {"pending", "active"}
    BY <2>2, <2>5 DEF Status
  <2> QED BY <2>1, <2>6 DEF Over
<1> QED BY <1>1, WindowInvariant, PTL

\* A pick goes with its answer, with a failure or with the page, and only the
\* answer brings another clock.
LEMMA AnswerIs ==
  ASSUME [Next]_vars, NEW p \in picks \ picks', clock' > 0, clock' # clock
  PROVE  \E read \in p.from..ledger : PickAnswered(p, read)
<1>1. CASE \/ CloseLedger \/ Seed \/ Press \/ Exists \/ Land \/ Confirm \/ SubmitFails
           \/ Refresh \/ Page \/ ReadBack \/ ScanFails \/ Settle \/ Regenerate \/ UseDefault
           \/ UNCHANGED vars
  BY <1>1 DEF CloseLedger, Seed, Press, Exists, Land, Confirm, SubmitFails, Refresh, Page,
              ReadBack, ScanFails, Settle, Queue, QueueRefused, Regenerate, UseDefault, vars, typing
<1>2. CASE QueueCreated
  BY <1>2 DEF QueueCreated, Post, typing
<1>3. CASE \E i \in DOMAIN intents : Execute(i) \/ Cancel(i) \/ QueueListed(i)
  BY <1>3 DEF Execute, Cancel, QueueListed, Post, typing
<1>4. CASE \E field \in {"start", "end"}, moment \in Moments : Pick(field, moment)
  BY <1>4 DEF Pick
<1>5. CASE Reload
  BY <1>5 DEF Reload
<1>6. ASSUME NEW q \in picks, PickFails(q) PROVE FALSE
  BY <1>6 DEF PickFails
<1>7. ASSUME NEW q \in picks, NEW read \in q.from..ledger, PickAnswered(q, read)
      PROVE  \E r \in p.from..ledger : PickAnswered(p, r)
  <2>1. p = q
    BY <1>7 DEF PickAnswered
  <2> QED BY <1>7, <2>1
<1> QED BY <1>1, <1>2, <1>3, <1>4, <1>5, <1>6, <1>7 DEF Next

\* ledgerForTime rounds up: a moment is turned into the ledger that closes at
\* it or next.
THEOREM MomentsAreRoundedUp == Spec => OpensAsPicked
<1>1. ASSUME WindowInv, [Next]_vars, NEW p \in picks \ picks',
             clock' > 0, clock' # clock, form'[p.field] # 1
      PROVE  EstimateLedgerTime(form'[p.field], clock')
               \in p.moment..(p.moment + CloseSeconds - 1)
  <2>1. p.field \in {"start", "end"} /\ p.moment \in Int /\ form \in Payload
    BY <1>1, Constants DEF WindowInv, TypeOK
  <2>2. PICK read \in p.from..ledger : PickAnswered(p, read)
    BY <1>1, AnswerIs
  <2>3. read \in Int /\ clock' = read
        /\ form' = [form EXCEPT ![p.field] = LedgerForTime(p.moment, read)]
    BY <2>2 DEF PickAnswered
  <2>4. form'[p.field] = LedgerForTime(p.moment, read)
    BY <2>1, <2>3 DEF Payload
  <2> DEFINE moment == p.moment
  <2>5. moment \in Int /\ LedgerForTime(moment, read) # 1
    BY <1>1, <2>1, <2>4
  <2> HIDE DEF moment
  <2>6. EstimateLedgerTime(LedgerForTime(moment, read), read)
          \in moment..(moment + CloseSeconds - 1)
    BY <2>3, <2>5, Conversion
  <2> QED BY <2>3, <2>4, <2>6 DEF moment
<1>2. WindowInv /\ [Next]_vars
        => [\A p \in picks \ picks' :
              clock' > 0 /\ clock' # clock /\ form'[p.field] # 1 =>
                EstimateLedgerTime(form'[p.field], clock')
                  \in p.moment..(p.moment + CloseSeconds - 1)]_vars
  BY <1>1
<1> QED BY <1>2, WindowInvariant, PTL DEF Spec, OpensAsPicked

\* A listing is replaced only by what a scan has read back, or thrown away.
LEMMA ListedByReadBack ==
  ASSUME [Next]_vars, list' # list, list' # None
  PROVE  ReadBack
<1>1. CASE \/ CloseLedger \/ Seed \/ Press \/ Exists \/ Land \/ Confirm \/ SubmitFails
           \/ Refresh \/ Page \/ ScanFails \/ Settle \/ Regenerate \/ UseDefault
           \/ Reload \/ UNCHANGED vars
  BY <1>1 DEF CloseLedger, Seed, Press, Exists, Land, Confirm, SubmitFails, Refresh, Page,
              ScanFails, Settle, Queue, QueueRefused, Regenerate, UseDefault, Reload, vars, listing
<1>2. CASE QueueCreated
  BY <1>2 DEF QueueCreated, Post, listing
<1>3. CASE \E i \in DOMAIN intents : Execute(i) \/ Cancel(i) \/ QueueListed(i)
  BY <1>3 DEF Execute, Cancel, QueueListed, Post, listing
<1>4. CASE \E field \in {"start", "end"}, moment \in Moments : Pick(field, moment)
  BY <1>4 DEF Pick, listing
<1>5. CASE \E p \in picks : PickFails(p) \/ \E read \in p.from..ledger : PickAnswered(p, read)
  BY <1>5 DEF PickFails, PickAnswered, listing
<1> QED BY <1>1, <1>2, <1>3, <1>4, <1>5 DEF Next

\* The pages of loadScheduledIntents leave no gap and pass the ledger the
\* listing is dated, however the RPC cuts them and whatever lands meanwhile.
THEOREM ListsAreComplete == Spec => ListIsComplete
<1>1. ASSUME WindowInv, [Next]_vars, scan # None, list' # list, list' # None, ~list'.truncated,
             NEW i \in DOMAIN intents, intents[i].made \in scan.oldest..list'.latest
      PROVE  i \in DOMAIN list'.rows
  <2>1. ReadBack
    BY <1>1, ListedByReadBack
  <2>2. /\ scan.reading /\ list'.latest = scan.latest /\ list'.truncated = scan.truncated
        /\ DOMAIN list'.rows = scan.found
    BY <1>1, <2>1, ReadBackIs
  <2>3. scan.latest < scan.next
    BY <1>1, <2>2 DEF WindowInv, ScanCovers
  <2>4. scan.latest \in Nat /\ scan.next \in Nat /\ scan.oldest \in Nat
        /\ intents[i].made \in Nat
    BY <1>1 DEF WindowInv, Shapes, Scans, TypeOK, Intent
  <2>5. scan.oldest <= intents[i].made /\ intents[i].made < scan.next
    BY <1>1, <2>2, <2>3, <2>4
  <2> QED BY <1>1, <2>2, <2>5 DEF WindowInv, ScanCovers
<1>2. WindowInv /\ [Next]_vars
        => [scan # None /\ list' # list /\ list' # None /\ ~list'.truncated =>
              \A i \in DOMAIN intents :
                intents[i].made \in scan.oldest..list'.latest => i \in DOMAIN list'.rows]_vars
  BY <1>1
<1> QED BY <1>2, WindowInvariant, PTL DEF Spec, ListIsComplete
=============================================================================
