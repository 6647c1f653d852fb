---------------------------- MODULE RelayerAccess ----------------------------
(***************************************************************************)
(* Who may act on a treasury's relayer queue: the console's Queue and      *)
(* Execute buttons, the wallet that proves an address, the session cookie  *)
(* the server mints for it and every tab of the browser shares, and the    *)
(* server's check of the session's address against the treasury's rules.   *)
(*                                                                         *)
(* The server keeps nothing: a challenge and a cookie carry their time and *)
(* its MAC.  Time is ticks; a ledger closes every tick.                    *)
(***************************************************************************)
EXTENDS Naturals

CONSTANTS
  Tabs, Addresses,
  NoAddress,
  Rules,         \* the treasury's context rules, by name
  Signers,       \* Signers[r]: the addresses on rule r
  ValidUntil,    \* ValidUntil[r]: the last ledger of rule r, or NoEnd
  NoEnd,
  Covers,        \* the rules of type Default, or CallContract on the account
  ChallengeTTL,  \* 120 s
  SessionTTL,    \* 8 h
  Epoch,         \* Unix time, in ticks, of the first ledger considered
  MaxTime,       \* bound: ticks
  MaxFaults      \* bound: requests that fail

ASSUME AccessAssumption ==
  /\ NoAddress \notin Addresses /\ Covers \subseteq Rules
  /\ Signers \in [Rules -> SUBSET Addresses]
  /\ ValidUntil \in [Rules -> Nat \cup {NoEnd}] /\ NoEnd \notin Nat
  /\ {ChallengeTTL, SessionTTL, Epoch, MaxTime, MaxFaults} \subseteq Nat

VARIABLES
  now,
  account,  \* the account selected in the wallet extension
  cookie,   \* the browser's session cookie: [subject, expires]
  call,     \* per tab, the call under way
  signed,   \* per address, when it last signed a challenge
  present,  \* the rules the treasury has
  faults

vars == <<now, account, cookie, call, signed, present, faults>>
outside == <<now, account, present>>

Time == 0..MaxTime
Never == MaxTime + 1

Idle == [pc |-> "idle", addr |-> NoAddress, issued |-> Never, outrun |-> FALSE]

TypeOK ==
  /\ now \in Time /\ account \in Addresses
  /\ cookie \in [subject : Addresses \cup {NoAddress}, expires : 0..MaxTime + SessionTTL]
  /\ call \in [Tabs -> [pc : {"idle", "probe", "challenge", "sign", "open", "call",
                              "granted", "refused"},
                        addr : Addresses \cup {NoAddress}, issued : Time \cup {Never},
                        outrun : BOOLEAN]]
  /\ \A t \in Tabs : call[t].pc \in {"sign", "open"} => call[t].issued \in 0..now
  /\ signed \in [Addresses -> Time \cup {Never}]
  /\ present \subseteq Rules
  /\ faults \in 0..MaxFaults

Init ==
  /\ now = 0 /\ account \in Addresses
  /\ cookie = [subject |-> NoAddress, expires |-> 0]
  /\ call = [t \in Tabs |-> Idle]
  /\ signed = [a \in Addresses |-> Never]
  /\ present = Rules /\ faults = 0

Fault == faults < MaxFaults /\ faults' = faults + 1

-----------------------------------------------------------------------------
(* The wallet, the chain and the clock. *)

\* The console follows two seconds later (WalletProvider's poll): a call
\* pressed in between is one pressed before the switch.
Switch(a) ==
  /\ account' = a
  /\ UNCHANGED <<now, cookie, call, signed, present, faults>>

\* remove_context_rule
RemoveRule(r) ==
  /\ r \in present /\ present' = present \ {r}
  /\ UNCHANGED <<now, account, cookie, call, signed, faults>>

Tick ==
  /\ now < MaxTime /\ now' = now + 1
  /\ UNCHANGED <<account, cookie, call, signed, present, faults>>

-----------------------------------------------------------------------------
(* The server. *)

\* Mutant: the expiry is not compared with the time.
SessionSubject_Ageless(session) == session.subject

\* readSessionSubject
SessionSubject(session) ==
  IF session.expires > now THEN session.subject ELSE NoAddress

\* verifyChallenge
ChallengeHolds(issued) == now - issued <= ChallengeTTL

Seconds == Epoch + now

\* loadTreasurySigners drops a rule whose valid_until is before now in seconds.
Unexpired(r) == ValidUntil[r] = NoEnd \/ ValidUntil[r] >= Seconds

\* Mutant: rules on other contracts count too.
TreasurySigners_AnyRule == UNION {Signers[r] : r \in {s \in present : Unexpired(s)}}

\* loadTreasurySigners
TreasurySigners ==
  UNION {Signers[r] : r \in {s \in present \cap Covers : Unexpired(s)}}

\* What the account itself accepts: a rule is valid until a ledger.
ChainSigners ==
  UNION {Signers[r] :
           r \in {s \in present \cap Covers : ValidUntil[s] = NoEnd \/ ValidUntil[s] >= now}}

-----------------------------------------------------------------------------
(* The console. *)

Step(t, from, record) ==
  /\ call[t].pc = from
  /\ call' = [call EXCEPT ![t] = record]

Goto(t, from, to) == Step(t, from, [call[t] EXCEPT !.pc = to])

\* Queue, on either button of the Schedule panel, or Execute: the mutation
\* keeps the address the console shows.
Press(t) ==
  /\ Step(t, "idle", [Idle EXCEPT !.pc = "probe", !.addr = account])
  /\ UNCHANGED <<outside, cookie, signed, faults>>

\* Mutant: whoever's session it is, it is used (as it was on mainnet).
MayReuse_AnySession(t) == SessionSubject(cookie) # NoAddress

\* ensureRelayerSession: a session is only reused for its own address.
MayReuse(t) == SessionSubject(cookie) = call[t].addr

\* probeRelayerSession, which takes a failure for no session.
Probe(t) ==
  /\ \/ MayReuse(t) /\ Goto(t, "probe", "call") /\ UNCHANGED faults
     \/ ~MayReuse(t) /\ Goto(t, "probe", "challenge") /\ UNCHANGED faults
     \/ Goto(t, "probe", "challenge") /\ Fault
  /\ UNCHANGED <<outside, cookie, signed>>

\* POST /api/auth/challenge
Challenge(t) ==
  /\ Step(t, "challenge", [call[t] EXCEPT !.pc = "sign", !.issued = now])
  /\ UNCHANGED <<outside, cookie, signed, faults>>

\* signMessage: the wallet signs with the account selected in it.
Sign(t) ==
  /\ account = call[t].addr
  /\ Goto(t, "sign", "open")
  /\ signed' = [signed EXCEPT ![account] = now]
  /\ UNCHANGED <<outside, cookie, faults>>

\* ... and a signature of another account is an error.
SignMismatch(t) ==
  /\ account # call[t].addr
  /\ Step(t, "sign", Idle)
  /\ UNCHANGED <<outside, cookie, signed, faults>>

\* createSessionValue: the address, and an end.
Session(subject) == [subject |-> subject, expires |-> now + SessionTTL]

\* POST /api/relayer/session: the cookie replaces the browser's; a call that
\* another tab has made ready goes with it too.
Open(t) ==
  /\ call[t].pc = "open" /\ ChallengeHolds(call[t].issued)
  /\ cookie' = Session(call[t].addr)
  /\ call' = [u \in Tabs |->
                IF u = t THEN [call[t] EXCEPT !.pc = "call", !.issued = Never]
                ELSE [call[u] EXCEPT !.outrun = @ \/ call[u].pc = "call"]]
  /\ UNCHANGED <<outside, signed, faults>>

\* The challenge is too old: 401.
OpenRefused(t) ==
  /\ ~ChallengeHolds(call[t].issued)
  /\ Step(t, "open", Idle)
  /\ UNCHANGED <<outside, cookie, signed, faults>>

\* requireTreasuryAccess: the session the request carries, and its address
\* among the signers.
Grant(t) ==
  /\ SessionSubject(cookie) \in TreasurySigners
  /\ Step(t, "call", [Idle EXCEPT !.pc = "granted"])
  /\ UNCHANGED <<outside, cookie, signed, faults>>

NoSession(t) ==
  /\ SessionSubject(cookie) = NoAddress
  /\ Step(t, "call", Idle)
  /\ UNCHANGED <<outside, cookie, signed, faults>>

Refuse(t) ==
  /\ SessionSubject(cookie) \in Addresses \ TreasurySigners
  /\ Step(t, "call", [Idle EXCEPT !.pc = "refused"])
  /\ UNCHANGED <<outside, cookie, signed, faults>>

\* The job is queued or executed (Relayer), or not, and the notice shown.
Answer(t) ==
  /\ \/ Step(t, "granted", Idle)
     \/ Step(t, "refused", Idle)
  /\ UNCHANGED <<outside, cookie, signed, faults>>

\* A request fails, or the operator dismisses the wallet.
Fail(t) ==
  /\ call[t].pc \in {"challenge", "sign", "open", "call", "granted"}
  /\ call' = [call EXCEPT ![t] = Idle]
  /\ Fault
  /\ UNCHANGED <<outside, cookie, signed>>

Next ==
  \/ Tick
  \/ \E a \in Addresses : Switch(a)
  \/ \E r \in Rules : RemoveRule(r)
  \/ \E t \in Tabs :
       \/ Press(t) \/ Probe(t) \/ Challenge(t) \/ Sign(t)
       \/ SignMismatch(t) \/ Open(t) \/ OpenRefused(t) \/ Grant(t)
       \/ NoSession(t) \/ Refuse(t) \/ Answer(t) \/ Fail(t)

Spec == Init /\ [][Next]_vars

-----------------------------------------------------------------------------
Granted(t) == call[t].pc = "call" /\ call'[t].pc = "granted"

\* A call acts under the address its tab showed when it was pressed, unless
\* another tab of the browser has opened a session since this one made sure
\* of its own: the session a switched wallet left behind is never used.
ActsAsShown ==
  [][\A t \in Tabs :
       Granted(t) => cookie.subject = call[t].addr \/ call[t].outrun]_vars

\* Whoever a call acts as has signed a challenge, and not longer ago than a
\* challenge and the session it opens can last together.
ProvedOfLate ==
  [][\A t \in Tabs :
       Granted(t) => /\ signed[cookie.subject] \in Time
                     /\ now < signed[cookie.subject] + ChallengeTTL + SessionTTL]_vars

\* Whoever is granted a call could approve a payment of the treasury.
GrantedAreSigners ==
  [][\A t \in Tabs : Granted(t) => cookie.subject \in ChainSigners]_vars

\* "Owner-only here would lock out a signer whose approval the ledger already
\* accepted": who the chain takes as a signer is not refused.
SignersAreNotLockedOut ==
  [][\A t \in Tabs : call[t].pc = "call" /\ call'[t].pc = "refused"
                       => cookie.subject \notin ChainSigners]_vars
=============================================================================
