-------------------------- MODULE TreasuryOnboarding --------------------------
(***************************************************************************)
(* The treasuries page: a deployment (ConsoleWrites), then the             *)
(* registration of what was deployed with POST /api/treasuries, which      *)
(* compares the claim with the chain and inserts it once.  The page        *)
(* retries with the same claim.  Another client of the API registers the   *)
(* same treasury with what it is wired to when that client looks.          *)
(*                                                                         *)
(* A wiring is the owner and the five contracts an account is linked to;   *)
(* wirings are numbered in the order the account has them.  A claim also   *)
(* names an executor and a deployment transaction, which are not compared  *)
(* with the chain, and which another client may name differently.          *)
(***************************************************************************)
EXTENDS ConsoleWrites

CONSTANT MaxWiring   \* bound: wirings

ASSUME OnboardingAssumption == MaxWiring \in Nat \ {0}

VARIABLES
  wiring,  \* what the smart account is wired to on chain
  row,     \* the row of the treasuries table: the claim that was stored
  posts    \* per client, its last request: [stage, claim]

regVars == <<wiring, row, posts>>
allVars == <<vars, regVars>>

Wirings == 1..MaxWiring
Claims == [wiring : Wirings, rest : {"page's", "another's"}]
NoClaim == [wiring |-> 0, rest |-> "none"]
Clients == {"page", "other"}

OnboardingTypeOK ==
  /\ TypeOK
  /\ wiring \in Wirings /\ row \in Claims \cup {NoClaim}
  /\ posts \in [Clients -> [stage : {"idle", "lost", "posted", "verified",
                                     "registered", "refused"},
                            claim : Claims \cup {NoClaim}]]

RegistryInit ==
  /\ wiring = 1 /\ row = NoClaim
  /\ posts = [c \in Clients |-> [stage |-> "idle", claim |-> NoClaim]]

Deployed == kind = "deploy" /\ Landed # {}

\* update_owner, set_adapter and their like.
Rewire ==
  /\ Deployed /\ wiring < MaxWiring
  /\ wiring' = wiring + 1
  /\ UNCHANGED <<vars, row, posts>>

Request(c, stage, claim) ==
  posts' = [posts EXCEPT ![c] = [stage |-> stage, claim |-> claim]]

Stage(c, stage) == Request(c, stage, posts[c].claim)

\* deployAccount reads the deployed addresses back and the page posts them.
ReadBack ==
  /\ kind = "deploy" /\ told = "confirmed" /\ posts["page"].stage = "idle"
  /\ Request("page", "posted", [wiring |-> 1, rest |-> "page's"])
  /\ UNCHANGED <<vars, wiring, row>>

\* They cannot be read back, and are lost to the page.
ReadBackFails ==
  /\ kind = "deploy" /\ told = "confirmed" /\ posts["page"].stage = "idle"
  /\ Request("page", "lost", NoClaim)
  /\ Fault
  /\ UNCHANGED <<kind, page, txs, chain, wiring, row>>

\* The toast's action posts the input it failed with.
Retry ==
  /\ posts["page"].stage = "refused"
  /\ Stage("page", "posted")
  /\ UNCHANGED <<vars, wiring, row>>

PostOther ==
  /\ Deployed /\ posts["other"].stage = "idle"
  /\ \E claim \in Claims :
       claim.wiring = wiring /\ Request("other", "posted", claim)
  /\ UNCHANGED <<vars, wiring, row>>

\* verifyTreasuryRegistration
Verify(c) ==
  /\ posts[c].stage = "posted"
  /\ Stage(c, IF wiring = posts[c].claim.wiring THEN "verified" ELSE "refused")
  /\ UNCHANGED <<vars, wiring, row>>

\* Mutant: a registered treasury is never registered again.
Outcome_NotIdempotent(c) == IF row = NoClaim THEN "registered" ELSE "refused"

\* Mutant: what is registered first is returned, whatever is claimed.
Outcome_FirstWins(c) == "registered"

\* recordsMatch, or TreasuryConflictError
Outcome(c) == IF row \in {NoClaim, posts[c].claim} THEN "registered" ELSE "refused"

\* createTreasury: insert, or leave what is there and compare.
Create(c) ==
  /\ posts[c].stage = "verified"
  /\ row' = IF row = NoClaim THEN posts[c].claim ELSE row
  /\ Stage(c, Outcome(c))
  /\ UNCHANGED <<vars, wiring>>

\* A request that fails, before its insert or after it.
PostFails(c) ==
  /\ \/ posts[c].stage \in {"posted", "verified"} /\ UNCHANGED row
     \/ posts[c].stage = "verified" /\ row = NoClaim /\ row' = posts[c].claim
  /\ Stage(c, "refused")
  /\ Fault
  /\ UNCHANGED <<kind, page, txs, chain, wiring>>

Registration ==
  \/ ReadBack \/ Retry
  \/ \E c \in Clients : Verify(c) \/ Create(c)

OnboardingNext ==
  \/ Next /\ UNCHANGED regVars
  \/ Registration \/ Rewire \/ ReadBackFails \/ PostOther
  \/ \E c \in Clients : PostFails(c)

OnboardingInit == Init /\ RegistryInit

OnboardingSpec == OnboardingInit /\ [][OnboardingNext]_allVars

\* A request is answered, and an owner who is offered a retry takes it.
FairOnboarding == OnboardingSpec /\ WF_allVars(Registration)

-----------------------------------------------------------------------------
\* Whoever is told that the treasury is registered is told so of the wiring
\* the row has: a registration never hides that the row says something else.
RegisteredIsStored ==
  \A c \in Clients : posts[c].stage = "registered" => row = posts[c].claim

\* A registration that failed can be retried to the end, though it may have
\* been stored already, by this page or by another client: the fix is "retry
\* registering this address", unless the treasury has been rewired, or stored
\* with another executor or transaction.
RetryRegisters ==
  posts["page"].stage = "refused" ~>
    \/ posts["page"].stage = "registered"
    \/ wiring # 1 \/ row \notin {NoClaim, posts["page"].claim}
=============================================================================
