---------------------------- MODULE ScheduleWindow ----------------------------
(***************************************************************************)
(* The schedule section against a ledger that moves on: the execution      *)
(* window is picked as moments and signed as ledgers, a mutation creates   *)
(* the intent while the form is still being edited, the listing is scanned *)
(* from events page by page and read back intent by intent, and an intent  *)
(* is queued from the form or from the listing through a route that reads  *)
(* the chain again.                                                        *)
(*                                                                         *)
(* A clock is the ledger it was read at: moments are seconds from then.    *)
(* `ledger` is the latest ledger; a transaction is included in the next,   *)
(* which closes with it.                                                   *)
(***************************************************************************)
EXTENDS Integers, FiniteSets

CONSTANTS
  CloseSeconds,    \* LEDGER_CLOSE_SECONDS
  StartDelay,      \* computeLedgerWindow: ledgers before a default window
  Duration,        \* computeLedgerWindow: ledgers in a default window
  StaleLedgers,    \* fifteen seconds, in ledgers
  Retention,       \* ledgers whose events the RPC keeps
  MaxPages,        \* MAX_EVENT_PAGES
  Moments,         \* seconds from now at which a window may be picked to open or close
  MaxLedger,       \* bound: ledgers
  MaxId,           \* bound: intent IDs drawn
  MaxPicks,        \* bound: edits of the form
  MaxFaults        \* bound: requests that fail, reloads of the page

ASSUME WindowAssumption ==
  /\ CloseSeconds \in Nat \ {0} /\ Duration \in Nat \ {0}
  /\ StartDelay \in Nat /\ StaleLedgers \in Nat
  /\ Retention \in Nat \ {0} /\ MaxPages \in Nat \ {0}
  /\ Moments \subseteq Int
  /\ MaxLedger \in Nat \ {0} /\ {MaxId, MaxPicks, MaxFaults} \subseteq Nat

VARIABLES
  ledger,   \* the latest ledger
  intents,  \* the registry: the created intents, by ID
  jobs,     \* the relayer's jobs: the window of each, by intent ID
  form,     \* scheduleDraft: [id, start, end]; ledger 0 is unset
  clock,    \* windowClock: the ledger it was read at, 0 for null
  picks,    \* moments picked whose ledger lookup is under way
  picked,   \* edits made so far
  sub,      \* submitScheduleMutation: None, or the draft it captured
  created,  \* createdScheduleJob
  list,     \* the listing on display: None, or [rows, latest, truncated]
  scan,     \* the listing being loaded
  post,     \* the request to queue that is under way (bound: one): None, or its payload
  faults

chain == <<ledger, intents>>
typing == <<form, clock, picks, picked>>
listing == <<list, scan>>
queueing == <<jobs, post>>
vars == <<chain, typing, listing, queueing, sub, created, faults>>

Ids == 1..MaxId
None == [none |-> TRUE]
Window == [start : Nat, end : Nat]
Payload == [id : 1..(MaxId + 1), start : Nat, end : Nat]
Intent == [start : Nat, end : Nat, made : Nat, done : BOOLEAN, cancelled : BOOLEAN]
Unreadable == [unreadable |-> TRUE]

TypeOK ==
  /\ ledger \in 1..MaxLedger
  /\ DOMAIN intents \subseteq Ids /\ \A i \in DOMAIN intents : intents[i] \in Intent
  /\ DOMAIN jobs \subseteq Ids /\ \A i \in DOMAIN jobs : jobs[i] \in Window
  /\ form \in Payload
  /\ clock \in 0..MaxLedger /\ picked \in 0..MaxPicks
  /\ \A p \in picks : p.field \in {"start", "end"} /\ p.moment \in Moments /\ p.from \in 1..ledger
  /\ sub # None => sub.draft \in Payload /\ sub.st \in {"signed", "landed"}
  /\ created # None => created \in Payload
  /\ list # None => list.latest \in 1..ledger /\ DOMAIN list.rows \subseteq DOMAIN intents
  /\ scan # None => /\ scan.pages \in 0..MaxPages
                    /\ scan.latest \in 1..ledger /\ scan.found \subseteq DOMAIN intents
  /\ post # None => post \in Payload
  /\ faults \in 0..MaxFaults

Blank == [id |-> 1, start |-> 0, end |-> 0]

Init ==
  /\ ledger = 1 /\ intents = << >> /\ jobs = << >>
  /\ form = Blank /\ clock = 0 /\ picks = {} /\ picked = 0
  /\ sub = None /\ created = None /\ list = None /\ scan = None
  /\ post = None /\ faults = 0

Fault == faults < MaxFaults /\ faults' = faults + 1

-----------------------------------------------------------------------------
(* The chain. *)

Closes == ledger < MaxLedger /\ ledger' = ledger + 1

CloseLedger ==
  /\ Closes
  /\ UNCHANGED <<intents, typing, listing, queueing, sub, created, faults>>

\* Both bounds are inclusive: "still live for this one ledger".
Live(intent) == ~intent.cancelled /\ ~intent.done /\ ledger <= intent.end

\* intent_registry.mark_child_executed: one execution is the limit.
Execute(i) ==
  /\ Closes
  /\ ~intents[i].cancelled /\ ~intents[i].done
  /\ ledger' \in intents[i].start..intents[i].end
  /\ intents' = [intents EXCEPT ![i].done = TRUE]
  /\ UNCHANGED <<typing, listing, queueing, sub, created, faults>>

\* intent_registry.cancel, from this console's form or another's
Cancel(i) ==
  /\ Closes
  /\ ~intents[i].cancelled
  /\ intents' = [intents EXCEPT ![i].cancelled = TRUE]
  /\ UNCHANGED <<typing, listing, queueing, sub, created, faults>>

-----------------------------------------------------------------------------
(* The form. *)

\* makeIntentId draws what was never drawn, up to the bound.
Fresh(draft) == [draft EXCEPT !.id = IF @ > MaxId THEN @ ELSE @ + 1]

Edited == picked < MaxPicks /\ picked' = picked + 1

\* computeLedgerWindow
Default(from) == [form EXCEPT !.start = from + StartDelay,
                              !.end = from + StartDelay + Duration]

\* The console seeds the window from the first snapshot a wallet reads.
Seed ==
  /\ form.start = 0 /\ form.end = 0
  /\ form' = Default(ledger)
  /\ UNCHANGED <<chain, listing, queueing, clock, picks, picked, sub, created, faults>>

\* onUseLedgerWindow
UseDefault ==
  /\ Edited
  /\ form' = Default(ledger) /\ clock' = ledger
  /\ UNCHANGED <<chain, listing, queueing, picks, sub, created, faults>>

\* onPickWindowMoment asks for the ledger, and several may be under way.
Pick(field, moment) ==
  /\ Edited
  /\ picks' = picks \cup {[field |-> field, moment |-> moment, from |-> ledger]}
  /\ UNCHANGED <<chain, listing, queueing, form, clock, sub, created, faults>>

AtLeastOne(n) == IF n < 1 THEN 1 ELSE n

\* Mutant: rounds down.
LedgerForTime_Floor(moment, reference) ==
  AtLeastOne(reference + (moment \div CloseSeconds))

\* ledgerForTime: \div rounds down, so this rounds up.
LedgerForTime(moment, reference) ==
  AtLeastOne(reference - ((-moment) \div CloseSeconds))

\* estimateLedgerTime, in seconds from the clock's
EstimateLedgerTime(l, reference) == (l - reference) * CloseSeconds

\* The answer, whenever it comes: the clock and the field it is about.
PickAnswered(p, read) ==
  /\ clock' = read
  /\ form' = [form EXCEPT ![p.field] = LedgerForTime(p.moment, read)]
  /\ picks' = picks \ {p}
  /\ UNCHANGED <<chain, listing, queueing, picked, sub, created, faults>>

PickFails(p) ==
  /\ Fault /\ picks' = picks \ {p}
  /\ UNCHANGED <<chain, listing, queueing, form, clock, picked, sub, created>>

\* The button that generates an intent ID, or the ID typed.
Regenerate ==
  /\ form.id \in Ids /\ form' = Fresh(form)
  /\ Edited
  /\ UNCHANGED <<chain, listing, queueing, clock, picks, sub, created, faults>>

ListingClock == IF list = None THEN 0 ELSE list.latest

\* formClock: the more recent of the two reads.
FormClock == IF clock >= ListingClock THEN clock ELSE ListingClock

\* inspectScheduleWindow: the notices that are errors.
Wrong(window, now) == window.start >= window.end \/ window.end < now

\* windowBlocked: without a clock there is no notice.
Blocked ==
  \/ form.start = 0 \/ form.end = 0
  \/ FormClock > 0 /\ Wrong(form, FormClock)

\* onScheduleSubmit; validateScheduleDraft
Press ==
  /\ ~Blocked /\ form.start < form.end /\ sub = None /\ form.id \in Ids
  /\ sub' = [draft |-> form, st |-> "signed"]
  /\ created' = None
  /\ UNCHANGED <<chain, typing, listing, queueing, faults>>

\* ScheduledIntentExistsError
Exists ==
  /\ sub # None /\ sub.st = "signed" /\ sub.draft.id \in DOMAIN intents
  /\ form' = Fresh(form)
  /\ sub' = None
  /\ UNCHANGED <<chain, listing, queueing, clock, picks, picked, created, faults>>

\* intent_registry.create_intent, closed window or not
Land ==
  /\ Closes
  /\ sub # None /\ sub.st = "signed" /\ sub.draft.id \notin DOMAIN intents
  /\ LET new == [start |-> sub.draft.start, end |-> sub.draft.end, made |-> ledger',
                 done |-> FALSE, cancelled |-> FALSE]
     IN  intents' = [i \in DOMAIN intents \cup {sub.draft.id} |->
                       IF i = sub.draft.id THEN new ELSE intents[i]]
  /\ sub' = [sub EXCEPT !.st = "landed"]
  /\ UNCHANGED <<typing, listing, queueing, created, faults>>

\* invalidateQueries, or the Refresh button: any scan under way is dropped.
Rescan ==
  LET oldest == AtLeastOne(ledger - Retention + 1)
  IN  scan' = [oldest |-> oldest, next |-> oldest, latest |-> ledger, pages |-> 0, found |-> {}, reading |-> FALSE, truncated |-> FALSE]

\* onSuccess runs with the form as it is by then.
Confirm ==
  /\ sub # None /\ sub.st = "landed"
  /\ created' = form /\ form' = Fresh(form) /\ sub' = None
  /\ Rescan
  /\ UNCHANGED <<chain, list, queueing, clock, picks, picked, faults>>

\* The mutation ends in an error, whatever the chain made of it.
SubmitFails ==
  /\ sub # None /\ Fault /\ sub' = None
  /\ UNCHANGED <<chain, typing, listing, queueing, created>>

\* The page is closed and opened again: nothing of it is kept.
Reload ==
  /\ form' = [Blank EXCEPT !.id = Fresh(form).id]
  /\ clock' = 0 /\ picks' = {} /\ sub' = None /\ created' = None
  /\ list' = None /\ scan' = None
  /\ post' = None
  /\ Fault
  /\ UNCHANGED <<chain, jobs, picked>>

-----------------------------------------------------------------------------
(* loadScheduledIntents *)

Refresh ==
  /\ scan = None /\ Rescan
  /\ UNCHANGED <<chain, typing, list, queueing, sub, created, faults>>

Scanning == scan # None /\ ~scan.reading

\* Mutant: an empty page ends the scan.
Last_EmptyPage(upto, found) == upto >= ledger \/ found = {}

\* The cursor has reached the latest ledger the same response reports.
Last(upto, found) == upto >= ledger

\* One page: a slice of ledgers of the RPC's choosing, and the events in it.
Page ==
  /\ Scanning /\ scan.pages < MaxPages
  /\ \E upto \in scan.next..ledger :
       LET found == {i \in DOMAIN intents : intents[i].made \in scan.next..upto}
       IN  scan' = [scan EXCEPT
             !.next = upto + 1, !.latest = ledger, !.pages = @ + 1,
             !.found = @ \cup found,
             !.reading = Last(upto, found) \/ scan.pages + 1 = MaxPages,
             !.truncated = ~Last(upto, found) /\ scan.pages + 1 = MaxPages]
  /\ UNCHANGED <<chain, typing, list, queueing, sub, created, faults>>

\* The intents are read back one by one; one that fails is listed unreadable.
ReadBack ==
  /\ scan # None /\ scan.reading
  /\ \E lost \in SUBSET scan.found :
       /\ \/ lost = {} /\ UNCHANGED faults
          \/ lost # {} /\ Fault
       /\ list' = [rows |-> [i \in scan.found |-> IF i \in lost THEN Unreadable ELSE intents[i]],
                   latest |-> scan.latest, truncated |-> scan.truncated]
  /\ scan' = None
  /\ UNCHANGED <<chain, typing, queueing, sub, created>>

\* A page fails and the listing stays as it is.
ScanFails ==
  /\ Scanning /\ Fault /\ scan' = None
  /\ UNCHANGED <<chain, typing, list, queueing, sub, created>>

\* Mutant: the end of the window is taken for exclusive.
Status_EndExclusive(row, latest) ==
  IF row = Unreadable THEN "unknown"
  ELSE IF row.cancelled THEN "cancelled"
  ELSE IF row.done THEN "exhausted"
  ELSE IF latest >= row.end THEN "expired"
  ELSE IF latest < row.start THEN "pending"
  ELSE "active"

\* describeIntentStatus, in its order
Status(row, latest) ==
  IF row = Unreadable THEN "unknown"
  ELSE IF row.cancelled THEN "cancelled"
  ELSE IF row.done THEN "exhausted"
  ELSE IF latest > row.end THEN "expired"
  ELSE IF latest < row.start THEN "pending"
  ELSE "active"

-----------------------------------------------------------------------------
(* Queueing. *)

\* The jobs on display are polled; a request they are behind for would change
\* nothing.
Post(payload) ==
  /\ post = None /\ payload.id \notin DOMAIN jobs
  /\ post' = payload
  /\ UNCHANGED <<chain, typing, listing, jobs, sub, created, faults>>

\* queueRelayerJobMutation
QueueCreated == created # None /\ Post(created)

\* Mutant: only a payment that is not due yet can be queued.
QueueListed_Pending(i) ==
  /\ list # None /\ i \in DOMAIN list.rows
  /\ Status(list.rows[i], list.latest) = "pending"
  /\ Post([id |-> i, start |-> list.rows[i].start, end |-> list.rows[i].end])

\* queueIntentMutation: any listed intent that is not over
QueueListed(i) ==
  /\ list # None /\ i \in DOMAIN list.rows
  /\ Status(list.rows[i], list.latest) \in {"pending", "active"}
  /\ Post([id |-> i, start |-> list.rows[i].start, end |-> list.rows[i].end])

\* Mutant: the job is what the request says.
Canonical_Payload(payload) == [start |-> payload.start, end |-> payload.end]

\* readQueueableScheduledIntent: the chain's own record
Canonical(payload) == [start |-> intents[payload.id].start, end |-> intents[payload.id].end]

\* POST /api/relayer/jobs, and createRelayerJob, which keeps the job it finds
Queue ==
  /\ post # None /\ post.id \in DOMAIN intents
  /\ ~intents[post.id].cancelled
  /\ jobs' = [i \in DOMAIN jobs \cup {post.id} |->
                IF i \in DOMAIN jobs THEN jobs[i] ELSE Canonical(post)]
  /\ post' = None
  /\ UNCHANGED <<chain, typing, listing, sub, created, faults>>

\* Not found on chain, cancelled, or the request fails.
QueueRefused ==
  /\ post # None
  /\ \/ post.id \notin DOMAIN intents /\ UNCHANGED faults
     \/ post.id \in DOMAIN intents /\ intents[post.id].cancelled /\ UNCHANGED faults
     \/ Fault
  /\ post' = None
  /\ UNCHANGED <<chain, typing, listing, jobs, sub, created>>

-----------------------------------------------------------------------------
Settle == Queue \/ QueueRefused

Next ==
  \/ CloseLedger \/ Seed \/ UseDefault \/ Regenerate \/ Press \/ Exists \/ Land
  \/ Confirm \/ SubmitFails \/ Reload \/ Refresh \/ Page \/ ReadBack
  \/ ScanFails \/ QueueCreated \/ Settle
  \/ \E i \in DOMAIN intents : Execute(i) \/ Cancel(i) \/ QueueListed(i)
  \/ \E field \in {"start", "end"}, moment \in Moments : Pick(field, moment)
  \/ \E p \in picks : PickFails(p) \/ \E read \in p.from..ledger : PickAnswered(p, read)

Spec == Init /\ [][Next]_vars

\* A scan and a request are carried through, and an operator who finds a
\* payment queueable queues it and otherwise refreshes.
FairSpec ==
  /\ Spec
  /\ WF_vars(Refresh) /\ WF_vars(Page) /\ WF_vars(ReadBack)
  /\ WF_vars(Settle)
  /\ \A i \in Ids : SF_vars(i \in DOMAIN intents /\ QueueListed(i))

-----------------------------------------------------------------------------
\* Whatever the form said when the mutation ended, and however old the
\* listing was, a job has the window its intent has on chain.
JobIsAsOnChain ==
  \A i \in DOMAIN jobs :
    i \in DOMAIN intents /\ jobs[i] = [start |-> intents[i].start, end |-> intents[i].end]

\* "Rounding down would open a window earlier": by the clock it was converted
\* with, the ledger of a picked moment closes at the moment or less than one
\* ledger after it.
OpensAsPicked ==
  [][\A p \in picks \ picks' :
       clock' > 0 /\ clock' # clock /\ form'[p.field] # 1 =>
         EstimateLedgerTime(form'[p.field], clock') \in p.moment..(p.moment + CloseSeconds - 1)]_vars

Over(status) == status \in {"cancelled", "exhausted", "expired"}

\* "Telling an operator a live payment is finished is the more expensive
\* mistake": however old the listing, what it shows as over is over.
ListedOverIsOver ==
  list # None =>
    \A i \in DOMAIN list.rows :
      Over(Status(list.rows[i], list.latest)) => ~Live(intents[i])

\* A listing that does not say it is cut short has every intent created from
\* the oldest ledger the RPC had when the scan began to the ledger the listing
\* is dated, though the chain moved on between the pages.
ListIsComplete ==
  [][scan # None /\ list' # list /\ list' # None /\ ~list'.truncated =>
       \A i \in DOMAIN intents :
         intents[i].made \in scan.oldest..list'.latest => i \in DOMAIN list'.rows]_vars

\* A payment is never out of reach of the relayer while the RPC remembers it:
\* after a reload, or an answer that was lost, the listing still queues it.
Reachable(i) ==
  i \in DOMAIN intents /\ Live(intents[i]) /\ intents[i].made > MaxLedger - Retention

LiveIsQueued ==
  \A i \in Ids : Reachable(i) ~> i \in DOMAIN jobs \/ ~Reachable(i)

\* "The listing's is 15s stale at worst", and a closed window is not signed.
ClosedIsNotSigned ==
  [][sub = None /\ sub' # None => sub'.draft.end + StaleLedgers >= ledger]_vars

\* "Intent ... is confirmed and ready to queue for ledgers ..."
ConfirmedIsOnChain ==
  created # None =>
    created.id \in DOMAIN intents /\ created.start = intents[created.id].start
                                  /\ created.end = intents[created.id].end
=============================================================================
