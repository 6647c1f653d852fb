------------------------- MODULE RelayerAccessProofs -------------------------
(***************************************************************************)
(* Who acts on a relayer queue, for any tabs, addresses, rules and times:  *)
(* a call that is granted acts under the address that was shown, which has *)
(* proved itself lately and which the chain takes as a signer.             *)
(***************************************************************************)
EXTENDS RelayerAccess, TLAPS

Calls == [pc : {"idle", "probe", "challenge", "sign", "open", "call", "granted", "refused"},
          addr : Addresses \cup {NoAddress}, issued : Time \cup {Never}, outrun : BOOLEAN]

\* A call under way has the address it was pressed under; one that is ready
\* goes with a session of that address, unless it has been outrun.
CallsKeepAddress ==
  \A t \in Tabs :
    /\ call[t].pc \in {"probe", "challenge", "sign", "open", "call"} => call[t].addr \in Addresses
    /\ call[t].pc = "call" => call[t].outrun \/ cookie.subject = call[t].addr

\* A session has been signed for, and ends within a challenge's and a
\* session's time of that; so has a call that is about to open one.
SignedFor ==
  /\ cookie.subject \in Addresses =>
       /\ signed[cookie.subject] \in 0..now
       /\ cookie.expires <= signed[cookie.subject] + ChallengeTTL + SessionTTL
  /\ \A t \in Tabs :
       call[t].pc = "open" =>
         /\ call[t].addr \in Addresses
         /\ signed[call[t].addr] \in call[t].issued..now

AccessInv == TypeOK /\ CallsKeepAddress /\ SignedFor

-----------------------------------------------------------------------------

LEMMA Constants ==
  /\ ChallengeTTL \in Nat /\ SessionTTL \in Nat /\ Epoch \in Nat
  /\ MaxTime \in Nat /\ MaxFaults \in Nat
  /\ Time \subseteq Nat /\ Never \in Nat /\ Never \notin Time
BY AccessAssumption DEF Time, Never

LEMMA IdleIsCall == Idle \in Calls /\ Idle.pc = "idle"
BY DEF Idle, Calls

LEMMA InitHolds == Init => AccessInv
<1> SUFFICES ASSUME Init PROVE AccessInv
  OBVIOUS
<1>1. TypeOK
  BY Constants, IdleIsCall DEF Init, TypeOK, Time, Calls
<1>2. CallsKeepAddress /\ SignedFor
  BY IdleIsCall, AccessAssumption DEF Init, CallsKeepAddress, SignedFor
<1> QED BY <1>1, <1>2 DEF AccessInv

\* A step of one tab that leaves the cookie, the signatures and the clock
\* alone: it is enough to look at the call it makes of the tab's.
LEMMA StepKeeps ==
  ASSUME AccessInv, NEW t \in Tabs, NEW record \in Calls,
         call' = [call EXCEPT ![t] = record],
         UNCHANGED <<outside, cookie, signed>>, faults' \in 0..MaxFaults,
         record.pc \in {"sign", "open"} => record.issued \in 0..now,
         record.pc \in {"probe", "challenge", "sign", "open", "call"} => record.addr \in Addresses,
         record.pc = "call" => record.outrun \/ cookie.subject = record.addr,
         record.pc = "open" => signed[record.addr] \in record.issued..now
  PROVE  AccessInv'
<1>1. /\ call' \in [Tabs -> Calls] /\ call'[t] = record
      /\ \A u \in Tabs : u # t => call'[u] = call[u]
  BY DEF AccessInv, TypeOK, Calls
<1>2. TypeOK'
  BY <1>1 DEF AccessInv, TypeOK, outside, Calls
<1>3. CallsKeepAddress'
  BY <1>1 DEF AccessInv, CallsKeepAddress, outside
<1>4. SignedFor'
  BY <1>1 DEF AccessInv, SignedFor, outside
<1> QED BY <1>2, <1>3, <1>4 DEF AccessInv

\* Whoever the server takes a session to be of, it is of.
LEMMA SubjectIsTheCookies ==
  ASSUME SessionSubject(cookie) # NoAddress
  PROVE  cookie.subject = SessionSubject(cookie) /\ cookie.expires > now
BY DEF SessionSubject

LEMMA FaultCounts ==
  ASSUME AccessInv, Fault \/ UNCHANGED faults PROVE faults' \in 0..MaxFaults
BY Constants DEF AccessInv, TypeOK, Fault

LEMMA ReusesHold == ASSUME AccessInv, NEW t \in Tabs, Press(t) \/ Probe(t) \/ Challenge(t) PROVE AccessInv'
<1>1. call[t] \in Calls /\ now \in Time /\ account \in Addresses
  BY DEF AccessInv, TypeOK, Calls
<1>2. CASE Press(t)
  <2>1. [Idle EXCEPT !.pc = "probe", !.addr = account] \in Calls
    BY <1>1 DEF Idle, Calls
  <2> QED BY <1>1, <1>2, <2>1, StepKeeps, FaultCounts DEF Press, Step, Idle
<1>3. CASE Probe(t) /\ call' = [call EXCEPT ![t] = [call[t] EXCEPT !.pc = "call"]]
  <2> DEFINE record == [call[t] EXCEPT !.pc = "call"]
  <2>1. record \in Calls /\ record.addr = call[t].addr /\ record.pc = "call"
    BY <1>1 DEF Calls
  <2>2. call[t].pc = "probe" /\ call[t].addr \in Addresses
    BY <1>3 DEF Probe, Goto, Step, AccessInv, CallsKeepAddress
  <2>3. MayReuse(t)
    <3>1. SUFFICES ASSUME call' = [call EXCEPT ![t] = [call[t] EXCEPT !.pc = "challenge"]]
                   PROVE  FALSE
      BY <1>3 DEF Probe, Goto, Step
    <3>2. call'[t].pc = "challenge"
      BY <1>1, <3>1 DEF AccessInv, TypeOK, Calls
    <3>3. call'[t].pc = "call"
      BY <1>1, <1>3 DEF AccessInv, TypeOK, Calls
    <3> QED BY <3>2, <3>3
  <2>4. cookie.subject = record.addr
    BY <2>1, <2>2, <2>3, AccessAssumption, SubjectIsTheCookies DEF MayReuse
  <2>5. faults' \in 0..MaxFaults
    BY <1>3, FaultCounts DEF Probe
  <2>6. UNCHANGED <<outside, cookie, signed>> /\ call' = [call EXCEPT ![t] = record]
    BY <1>3 DEF Probe
  <2> HIDE DEF record
  <2> QED BY <2>1, <2>2, <2>4, <2>5, <2>6, StepKeeps
<1>4. CASE Probe(t) /\ call' = [call EXCEPT ![t] = [call[t] EXCEPT !.pc = "challenge"]]
  <2>1. /\ [call[t] EXCEPT !.pc = "challenge"] \in Calls
        /\ call[t].addr \in Addresses
    BY <1>1, <1>4 DEF Calls, Probe, Goto, Step, AccessInv, CallsKeepAddress
  <2>2. faults' \in 0..MaxFaults
    BY <1>4, FaultCounts DEF Probe
  <2> QED BY <1>1, <1>4, <2>1, <2>2, StepKeeps DEF Probe, Calls
<1>5. CASE Challenge(t)
  <2> DEFINE record == [call[t] EXCEPT !.pc = "sign", !.issued = now]
  <2>1. /\ record \in Calls /\ record.pc = "sign" /\ record.issued = now
        /\ record.addr \in Addresses
    BY <1>1, <1>5 DEF Calls, Challenge, Step, AccessInv, CallsKeepAddress
  <2>2. UNCHANGED <<outside, cookie, signed, faults>> /\ call' = [call EXCEPT ![t] = record]
    BY <1>5 DEF Challenge, Step
  <2>3. faults' \in 0..MaxFaults /\ now \in 0..now
    BY <1>1, <2>2, FaultCounts, Constants
  <2> HIDE DEF record
  <2> QED BY <2>1, <2>2, <2>3, StepKeeps
<1> QED BY <1>2, <1>3, <1>4, <1>5 DEF Probe, Goto, Step

\* A signature is of a challenge issued before it, and only ever renews one.
LEMMA SignHolds == ASSUME AccessInv, NEW t \in Tabs, Sign(t) PROVE AccessInv'
<1> DEFINE record == [call[t] EXCEPT !.pc = "open"]
<1>1. /\ call[t] \in Calls /\ call[t].pc = "sign" /\ call[t].addr = account
      /\ account \in Addresses /\ now \in Nat /\ now \in Time
      /\ call[t].issued \in 0..now
  BY Constants DEF AccessInv, TypeOK, Calls, Sign, Goto, Step
<1>2. /\ record \in Calls /\ record.pc = "open" /\ record.addr = account
      /\ record.issued = call[t].issued
  BY <1>1 DEF Calls
<1> HIDE DEF record
<1>3. call' = [call EXCEPT ![t] = record]
  BY DEF Sign, Goto, Step, record
<1>4. /\ call' \in [Tabs -> Calls] /\ call'[t] = record
      /\ \A u \in Tabs : u # t => call'[u] = call[u]
  BY <1>2, <1>3 DEF AccessInv, TypeOK, Calls
<1>5. /\ signed' \in [Addresses -> Time \cup {Never}] /\ signed'[account] = now
      /\ \A a \in Addresses : a # account => signed'[a] = signed[a]
  BY <1>1 DEF Sign, AccessInv, TypeOK
<1>6. UNCHANGED <<now, account, present, cookie, faults>>
  BY DEF Sign, outside
<1>7. TypeOK'
  BY <1>1, <1>2, <1>4, <1>5, <1>6 DEF AccessInv, TypeOK, Calls
<1>8. CallsKeepAddress'
  BY <1>1, <1>2, <1>4, <1>6 DEF AccessInv, CallsKeepAddress
<1>9. SignedFor'
  <2>1. ASSUME cookie.subject \in Addresses
        PROVE  /\ signed'[cookie.subject] \in 0..now
               /\ cookie.expires <= signed'[cookie.subject] + ChallengeTTL + SessionTTL
    <3>1. /\ signed[cookie.subject] \in 0..now
          /\ cookie.expires <= signed[cookie.subject] + ChallengeTTL + SessionTTL
          /\ cookie.expires \in Nat
      BY <2>1, Constants DEF AccessInv, SignedFor, TypeOK
    <3> QED BY <1>1, <1>5, <2>1, <3>1, Constants
  <2>2. ASSUME NEW u \in Tabs, call'[u].pc = "open"
        PROVE  /\ call'[u].addr \in Addresses
               /\ signed'[call'[u].addr] \in call'[u].issued..now
    <3>1. CASE u = t
      BY <1>1, <1>2, <1>4, <1>5, <3>1
    <3>2. CASE u # t
      <4>1. /\ call[u].pc = "open" /\ call'[u] = call[u]
            /\ call[u].addr \in Addresses /\ signed[call[u].addr] \in call[u].issued..now
            /\ call[u].issued \in 0..now
        BY <1>4, <2>2, <3>2 DEF AccessInv, SignedFor, TypeOK
      <4> QED BY <1>1, <1>5, <4>1
    <3> QED BY <3>1, <3>2
  <2> QED BY <1>6, <2>1, <2>2 DEF SignedFor
<1> QED BY <1>7, <1>8, <1>9 DEF AccessInv

\* The session ends within its time of now, which is within the challenge's of
\* its issue, before which the address had not signed it.
LEMMA OpenHolds == ASSUME AccessInv, NEW t \in Tabs, Open(t) PROVE AccessInv'
<1>1. /\ call[t] \in Calls /\ call[t].pc = "open" /\ call[t].addr \in Addresses
      /\ signed[call[t].addr] \in call[t].issued..now /\ call[t].issued \in 0..now
      /\ now \in Nat /\ now \in Time /\ now - call[t].issued <= ChallengeTTL
      /\ now <= MaxTime
  BY Constants DEF AccessInv, TypeOK, SignedFor, Calls, Open, ChallengeHolds, Time
<1>2. cookie' = [subject |-> call[t].addr, expires |-> now + SessionTTL]
  BY DEF Open, Session
<1>3. UNCHANGED <<now, account, present, signed, faults>>
  BY DEF Open, outside
<1>4. /\ DOMAIN call' = Tabs
      /\ call'[t] = [call[t] EXCEPT !.pc = "call", !.issued = Never]
      /\ \A u \in Tabs : u # t =>
           call'[u] = [call[u] EXCEPT !.outrun = @ \/ call[u].pc = "call"]
  BY DEF Open
<1>5. /\ call'[t] \in Calls /\ call'[t].pc = "call" /\ call'[t].addr = call[t].addr
  BY <1>1, <1>4 DEF Calls
<1>6. ASSUME NEW u \in Tabs, u # t
      PROVE  /\ call'[u] \in Calls /\ call'[u].pc = call[u].pc /\ call'[u].addr = call[u].addr
             /\ call'[u].issued = call[u].issued
             /\ call[u].pc = "call" => call'[u].outrun
  <2> DEFINE outrun == call[u].outrun \/ call[u].pc = "call"
  <2>1. call[u] \in Calls
    BY DEF AccessInv, TypeOK, Calls
  <2>2. outrun \in BOOLEAN /\ (call[u].pc = "call" => outrun)
    BY <2>1 DEF Calls
  <2>3. call'[u] = [call[u] EXCEPT !.outrun = outrun]
    BY <1>4, <1>6
  <2> HIDE DEF outrun
  <2> QED BY <2>1, <2>2, <2>3 DEF Calls
<1>7. call' \in [Tabs -> Calls]
  <2>1. call' = [u \in Tabs |-> call'[u]]
    BY DEF Open
  <2> QED BY <1>5, <1>6, <2>1
<1>8. TypeOK'
  <2>1. cookie' \in [subject : Addresses \cup {NoAddress}, expires : 0..MaxTime + SessionTTL]
    BY <1>1, <1>2, Constants
  <2> QED BY <1>3, <1>5, <1>6, <1>7, <2>1 DEF AccessInv, TypeOK, Calls
<1>9. CallsKeepAddress'
  BY <1>1, <1>2, <1>5, <1>6 DEF AccessInv, CallsKeepAddress
<1>10. SignedFor'
  <2>1. /\ signed[call[t].addr] \in 0..now
        /\ now + SessionTTL <= signed[call[t].addr] + ChallengeTTL + SessionTTL
    BY <1>1, Constants
  <2> QED BY <1>2, <1>3, <1>5, <1>6, <2>1 DEF AccessInv, SignedFor
<1> QED BY <1>8, <1>9, <1>10 DEF AccessInv

\* Every other end of a call leaves it idle, granted or refused.
LEMMA EndsHold ==
  ASSUME AccessInv, NEW t \in Tabs,
         \/ SignMismatch(t) \/ OpenRefused(t) \/ Grant(t) \/ NoSession(t)
         \/ Refuse(t) \/ Answer(t) \/ Fail(t)
  PROVE  AccessInv'
<1>1. PICK record \in {Idle, [Idle EXCEPT !.pc = "granted"], [Idle EXCEPT !.pc = "refused"]} :
        call' = [call EXCEPT ![t] = record]
  BY DEF SignMismatch, OpenRefused, Grant, NoSession, Refuse, Answer, Fail, Step
<1>2. record \in Calls /\ record.pc \in {"idle", "granted", "refused"}
  <2>1. CASE record = Idle
    BY <2>1, IdleIsCall
  <2>2. CASE record = [Idle EXCEPT !.pc = "granted"]
    BY <2>2 DEF Idle, Calls
  <2>3. CASE record = [Idle EXCEPT !.pc = "refused"]
    BY <2>3 DEF Idle, Calls
  <2> QED BY <1>1, <2>1, <2>2, <2>3
<1>3. faults' \in 0..MaxFaults /\ UNCHANGED <<outside, cookie, signed>>
  BY FaultCounts DEF SignMismatch, OpenRefused, Grant, NoSession, Refuse, Answer, Fail
<1> QED BY <1>1, <1>2, <1>3, StepKeeps

LEMMA WorldHolds ==
  ASSUME AccessInv,
         \/ Tick
         \/ \E a \in Addresses : Switch(a)
         \/ \E r \in Rules : RemoveRule(r)
  PROVE  AccessInv'
<1>1. UNCHANGED <<cookie, call, signed, faults>>
  BY DEF Tick, Switch, RemoveRule
<1>2. now \in Nat /\ now' \in Time /\ now' \in Nat /\ now <= now'
  BY Constants DEF AccessInv, TypeOK, Tick, Switch, RemoveRule, Time
<1>3. account' \in Addresses /\ present' \subseteq Rules
  BY DEF AccessInv, TypeOK, Tick, Switch, RemoveRule
<1>4. TypeOK'
  <2>1. ASSUME NEW t \in Tabs, call[t].pc \in {"sign", "open"} PROVE call[t].issued \in 0..now'
    BY <1>2, <2>1 DEF AccessInv, TypeOK
  <2> QED BY <1>1, <1>2, <1>3, <2>1 DEF AccessInv, TypeOK
<1>5. CallsKeepAddress'
  BY <1>1 DEF AccessInv, CallsKeepAddress
<1>6. SignedFor'
  <2>1. ASSUME cookie.subject \in Addresses PROVE signed[cookie.subject] \in 0..now'
    BY <1>2, <2>1 DEF AccessInv, SignedFor
  <2>2. ASSUME NEW t \in Tabs, call[t].pc = "open"
        PROVE  signed[call[t].addr] \in call[t].issued..now'
    <3>1. signed[call[t].addr] \in call[t].issued..now /\ call[t].issued \in 0..now
      BY <2>2 DEF AccessInv, SignedFor, TypeOK
    <3> QED BY <1>2, <3>1
  <2> QED BY <1>1, <2>1, <2>2 DEF AccessInv, SignedFor
<1> QED BY <1>4, <1>5, <1>6 DEF AccessInv

LEMMA NextHolds == ASSUME AccessInv, [Next]_vars PROVE AccessInv'
<1>1. CASE UNCHANGED vars
  BY <1>1 DEF vars, AccessInv, TypeOK, CallsKeepAddress, SignedFor
<1>2. ASSUME NEW t \in Tabs, Press(t) \/ Probe(t) \/ Challenge(t) PROVE AccessInv'
  BY <1>2, ReusesHold
<1>3. ASSUME NEW t \in Tabs, Sign(t) PROVE AccessInv'
  BY <1>3, SignHolds
<1>4. ASSUME NEW t \in Tabs, Open(t) PROVE AccessInv'
  BY <1>4, OpenHolds
<1>5. ASSUME NEW t \in Tabs,
             \/ SignMismatch(t) \/ OpenRefused(t) \/ Grant(t) \/ NoSession(t)
             \/ Refuse(t) \/ Answer(t) \/ Fail(t)
      PROVE  AccessInv'
  BY <1>5, EndsHold
<1>6. CASE \/ Tick
           \/ \E a \in Addresses : Switch(a)
           \/ \E r \in Rules : RemoveRule(r)
  BY <1>6, WorldHolds
<1> QED BY <1>1, <1>2, <1>3, <1>4, <1>5, <1>6 DEF Next

-----------------------------------------------------------------------------
(* What a granted call implies. *)

LEMMA GrantedByGrant ==
  ASSUME AccessInv, [Next]_vars, NEW t \in Tabs, Granted(t)
  PROVE  Grant(t)
<1>1. call[t].pc = "call" /\ call'[t].pc = "granted" /\ call \in [Tabs -> Calls]
  BY DEF Granted, AccessInv, TypeOK, Calls
<1>2. ASSUME NEW u \in Tabs, NEW record, call' = [call EXCEPT ![u] = record],
             record.pc # "granted"
      PROVE  FALSE
  <2>1. CASE u = t
    BY <1>1, <1>2, <2>1
  <2>2. CASE u # t
    BY <1>1, <1>2, <2>2
  <2> QED BY <2>1, <2>2
<1>3. ASSUME NEW u \in Tabs, Press(u) \/ SignMismatch(u) \/ OpenRefused(u) \/ NoSession(u)
                             \/ Refuse(u) \/ Answer(u) \/ Fail(u)
      PROVE  FALSE
  <2>1. PICK record \in {Idle, [Idle EXCEPT !.pc = "refused"],
                         [Idle EXCEPT !.pc = "probe", !.addr = account]} :
          call' = [call EXCEPT ![u] = record]
    BY <1>3 DEF Press, SignMismatch, OpenRefused, NoSession, Refuse, Answer, Fail, Step
  <2>2. record.pc # "granted"
    <3>1. record.pc \in {"idle", "refused", "probe"}
      <4>1. CASE record = Idle
        BY <4>1, IdleIsCall
      <4>2. CASE record = [Idle EXCEPT !.pc = "refused"]
        BY <4>2 DEF Idle
      <4>3. CASE record = [Idle EXCEPT !.pc = "probe", !.addr = account]
        BY <4>3 DEF Idle
      <4> QED BY <2>1, <4>1, <4>2, <4>3
    <3> QED BY <3>1
  <2> QED BY <1>2, <2>1, <2>2
<1>4. ASSUME NEW u \in Tabs, Probe(u) \/ Challenge(u) \/ Sign(u) PROVE FALSE
  <2>1. call[u] \in Calls
    BY <1>1
  <2>2. PICK record \in {[call[u] EXCEPT !.pc = "call"], [call[u] EXCEPT !.pc = "challenge"],
                         [call[u] EXCEPT !.pc = "sign", !.issued = now],
                         [call[u] EXCEPT !.pc = "open"]} :
          call' = [call EXCEPT ![u] = record]
    BY <1>4 DEF Probe, Challenge, Sign, Goto, Step
  <2>3. record.pc # "granted"
    <3>1. record.pc \in {"call", "challenge", "sign", "open"}
      BY <2>1, <2>2 DEF Calls
    <3> QED BY <3>1
  <2> QED BY <1>2, <2>2, <2>3
<1>5. ASSUME NEW u \in Tabs, Open(u) PROVE FALSE
  <2>1. call'[t].pc \in {"call", call[t].pc}
    <3>1. call[t] \in Calls /\ call[u] \in Calls
      BY <1>1
    <3>2. call'[t] = IF t = u THEN [call[u] EXCEPT !.pc = "call", !.issued = Never]
                     ELSE [call[t] EXCEPT !.outrun = @ \/ call[t].pc = "call"]
      BY <1>5 DEF Open
    <3> QED BY <3>1, <3>2 DEF Calls
  <2> QED BY <1>1, <2>1
<1>6. ASSUME NEW u \in Tabs, Grant(u) PROVE u = t
  <2>1. call' = [call EXCEPT ![u] = [Idle EXCEPT !.pc = "granted"]]
    BY <1>6 DEF Grant, Step
  <2> QED BY <1>1, <2>1
<1>7. CASE \/ Tick \/ UNCHANGED vars
           \/ \E a \in Addresses : Switch(a)
           \/ \E r \in Rules : RemoveRule(r)
  <2>1. call' = call
    BY <1>7 DEF Tick, Switch, RemoveRule, vars
  <2> QED BY <1>1, <2>1
<1> QED BY <1>3, <1>4, <1>5, <1>6, <1>7 DEF Next

LEMMA GrantMeans ==
  ASSUME AccessInv, NEW t \in Tabs, Grant(t)
  PROVE  /\ cookie.subject \in Addresses /\ cookie.subject \in TreasurySigners
         /\ now < cookie.expires /\ call[t].pc = "call"
<1>1. SessionSubject(cookie) \in TreasurySigners /\ call[t].pc = "call"
  BY DEF Grant, Step
<1>2. TreasurySigners \subseteq Addresses
  BY AccessAssumption DEF TreasurySigners, AccessInv, TypeOK
<1> QED BY <1>1, <1>2, AccessAssumption, SubjectIsTheCookies

LEMMA GrantIsAsShown ==
  ASSUME AccessInv, NEW t \in Tabs, Grant(t)
  PROVE  cookie.subject = call[t].addr \/ call[t].outrun
BY GrantMeans DEF AccessInv, CallsKeepAddress

LEMMA GrantIsProved ==
  ASSUME AccessInv, NEW t \in Tabs, Grant(t)
  PROVE  /\ signed[cookie.subject] \in Time
         /\ now < signed[cookie.subject] + ChallengeTTL + SessionTTL
<1>1. /\ signed[cookie.subject] \in 0..now
      /\ cookie.expires <= signed[cookie.subject] + ChallengeTTL + SessionTTL
      /\ now < cookie.expires /\ cookie.expires \in Nat
      /\ now \in Nat /\ now \in Time
  BY GrantMeans, Constants DEF AccessInv, SignedFor, TypeOK
<1> QED BY <1>1, Constants DEF Time

LEMMA GrantIsOnChain ==
  ASSUME AccessInv, NEW t \in Tabs, Grant(t)
  PROVE  cookie.subject \in ChainSigners
<1>1. PICK r \in present \cap Covers : Unexpired(r) /\ cookie.subject \in Signers[r]
  BY GrantMeans DEF TreasurySigners
<1>2. r \in Rules /\ now \in Nat
  BY Constants DEF AccessInv, TypeOK
<1>3. ValidUntil[r] = NoEnd \/ ValidUntil[r] >= now
  <2>1. CASE ValidUntil[r] = NoEnd
    BY <2>1
  <2>2. CASE ValidUntil[r] # NoEnd
    <3>1. ValidUntil[r] \in Nat
      BY <1>2, <2>2, AccessAssumption
    <3>2. ValidUntil[r] >= Epoch + now
      BY <1>1, <2>2 DEF Unexpired, Seconds
    <3> QED BY <1>2, <3>1, <3>2, Constants
  <2> QED BY <2>1, <2>2
<1> QED BY <1>1, <1>3 DEF ChainSigners

-----------------------------------------------------------------------------
\* The inductive invariant: types, whose call and whose session, and how long
\* after a signature a session may last.
THEOREM AccessInvariant == Spec => []AccessInv
<1>1. Init => AccessInv
  BY InitHolds
<1>2. AccessInv /\ [Next]_vars => AccessInv'
  BY NextHolds
<1> QED BY <1>1, <1>2, PTL DEF Spec

\* The variables of the access model keep their types.
THEOREM AccessTypeOK == Spec => []TypeOK
BY AccessInvariant, PTL DEF AccessInv

\* A call acts under the address its tab showed, however tabs, wallets and
\* sessions interleave, unless it was outrun (relayer-client.ts).
THEOREM CallsActAsShown == Spec => ActsAsShown
<1>1. AccessInv /\ [Next]_vars
        => [\A t \in Tabs : Granted(t) => cookie.subject = call[t].addr \/ call[t].outrun]_vars
  BY GrantedByGrant, GrantIsAsShown
<1> QED BY <1>1, AccessInvariant, PTL DEF Spec, ActsAsShown

\* No stateless cookie or challenge outlives its proof (challenge.ts,
\* session.ts): who acts has signed within the two lifetimes.
THEOREM CallsAreProved == Spec => ProvedOfLate
<1>1. AccessInv /\ [Next]_vars
        => [\A t \in Tabs :
              Granted(t) => /\ signed[cookie.subject] \in Time
                            /\ now < signed[cookie.subject] + ChallengeTTL + SessionTTL]_vars
  BY GrantedByGrant, GrantIsProved
<1> QED BY <1>1, AccessInvariant, PTL DEF Spec, ProvedOfLate

\* The server's reading of the rules (treasuryAccess.ts), which takes a ledger
\* for seconds, never grants what the account would not.
THEOREM GrantsAreOnChain == Spec => GrantedAreSigners
<1>1. AccessInv /\ [Next]_vars
        => [\A t \in Tabs : Granted(t) => cookie.subject \in ChainSigners]_vars
  BY GrantedByGrant, GrantIsOnChain
<1> QED BY <1>1, AccessInvariant, PTL DEF Spec, GrantedAreSigners
=============================================================================
