----------------------- MODULE LedgerBootstrap_proofs -----------------------
(***************************************************************************)
(* Proofs about the bootstrap of the ledger, for any validators, wallets,  *)
(* windows and numbers of runs.                                            *)
(*                                                                         *)
(* The two scripts share no variable, so each has an invariant of its own: *)
(* NetInv, where the run of init_xrpl_network.py is and what it has        *)
(* finished, and FundInv, what the run of init_anchoring_account.py has on *)
(* disk.  PaidInv counts payments against the runs that lost sight of one  *)
(* or misread the account, Numbered says which sequence numbers are used.  *)
(***************************************************************************)
EXTENDS LedgerBootstrap, FiniteSetTheorems, TLAPS

(* The first script: what its place in the program says of the key files,  *)
(* of what it has read and of what it has written.                         *)
AllKeys == \A v \in Validators : key[v] # 0

Writing == {"token", "config", "unl", "chmod", "done"}

UnlIsKey(f) == f.unl # NoKeys => f.unl = key /\ AllKeys

KeysRead ==
  /\ net.at = "keys" =>
       \A v \in Validators \ net.todo : key[v] # 0 /\ net.keys[v] = key[v]
  /\ net.at \in Writing => net.keys = key /\ AllKeys

TokenIsLast(n) ==
  config[n].token = IF n \in Validators THEN issued[n] ELSE NoToken
TokenMade(n) == n \in Validators => issued[n] > 0

Complete(n) ==
  config[n].private /\ config[n].unl = key /\ TokenIsLast(n) /\ TokenMade(n)

Done ==
  /\ net.at \in {"config", "unl", "chmod"} =>
       net.node \notin net.todo /\ TokenMade(net.node)
  /\ net.at \in {"unl", "chmod"} => TokenIsLast(net.node)
  /\ net.at = "chmod" => config[net.node].unl = key
  /\ net.at = "done" => net.todo = {}
  /\ net.at \in {"token", "done"} => \A n \in Nodes \ net.todo : Complete(n)
  /\ net.at \in {"config", "unl", "chmod"} =>
       \A n \in Nodes \ (net.todo \cup {net.node}) : Complete(n)

NetInv ==
  /\ \A n \in Nodes : UnlIsKey(config[n]) /\ UnlIsKey(running[n])
  /\ \A n \in Nodes : running[n] # Down => Whole(running[n])
  /\ KeysRead /\ Done

(* The second script: what its place says of the seed and of the address,  *)
(* which a run that was killed may have left empty.                        *)
FundInv ==
  /\ ~seed.exists => seed.wallet = NoWallet
  /\ fund.at \in {"propose", "open"} => ~seed.exists
  /\ fund.at = "seed" => seed.wallet = NoWallet
  /\ fund.at \in {"open", "seed"} => fund.wallet \in Wallets
  /\ fund.at \in {"address", "written", "info", "root", "server", "submit", "poll", "done"} =>
       fund.wallet \in Wallets /\ seed.wallet = fund.wallet
  /\ fund.at \in {"info", "root", "server", "submit", "poll", "done"} =>
       address = fund.wallet
  /\ FundedHasSeed /\ ReportedIsFunded

(* The payments that were ever made and may still count.                   *)
Made == floating \cup applied

(* The runs that may have left a payment behind, or paid again, unknowing. *)
Blind == unseen + misread

PaidInv ==
  /\ IsFiniteSet(Made)
  /\ fund.at \in {"root", "server", "submit"} => Cardinality(Made) <= Blind
  /\ fund.at = "poll" => Cardinality(Made \ {Payment}) <= Blind
  /\ Cardinality(Made) <= Blind \/ (applied # {} /\ Cardinality(Made) <= Blind + 1) \/ fund.at = "poll"

(* A payment that failed is gone for good: its number is used.             *)
Numbered ==
  /\ \A t \in applied \cup failed : t.sequence < sequence
  /\ \A t \in floating : t.sequence >= sequence
  /\ applied \cap failed = {}
-----------------------------------------------------------------------------
(* The steps of neither script. *)
Compose == ComposeUp \/ ComposeDown \/ \E n \in Nodes : Boot(n) \/ Stop(n)
Ledgers == ValidateNone \/ ValidatePayment

LEMMA Split == ASSUME Next PROVE Network \/ Fund \/ Compose \/ Ledgers
  BY DEF Next, Compose, Ledgers

LEMMA DownIsFiles == NoKeys \in [Validators -> Nat] /\ Down \in Files /\ Api \in Nodes
  BY DEF Down, NoFiles, Files, NoKeys, Cut, Nodes

(* The network's variables are typed before and after a step. *)
LEMMA TypeInitially == Init => TypeOK
<1> SUFFICES ASSUME Init PROVE TypeOK
  OBVIOUS
<1>1. config \in [Nodes -> Files] /\ running \in [Nodes -> Files]
  BY DownIsFiles DEF Init, Down
<1>2. net \in [at : {"idle", "keys", "token", "config", "unl", "chmod", "done"},
               todo : SUBSET Nodes, node : Nodes, keys : [Validators -> Nat]]
  BY DownIsFiles DEF Init, NetIdle
<1>3. key \in [Validators -> Nat] /\ issued \in [Validators -> Nat]
  BY DownIsFiles DEF Init
<1> QED
  BY <1>1, <1>2, <1>3 DEF Init, TypeOK, FundIdle

LEMMA TypeOfNetwork == ASSUME TypeOK, Network PROVE TypeOK'
<1>1. CASE NetStart
  <2>1. net' = [at |-> "keys", todo |-> Nodes, node |-> Api, keys |-> NoKeys]
    BY <1>1 DEF NetStart, NetIdle
  <2> QED
    BY <1>1, <2>1, DownIsFiles DEF TypeOK, NetStart, chain, fundVars
<1>2. ASSUME NEW n \in Nodes, NetKeys(n) PROVE TypeOK'
  <2>1. key' \in [Validators -> Nat]
    BY <1>2 DEF TypeOK, NetKeys
  <2>2. net' \in [at : {"idle", "keys", "token", "config", "unl", "chmod", "done"},
                  todo : SUBSET Nodes, node : Nodes, keys : [Validators -> Nat]]
    BY <1>2, <2>1 DEF TypeOK, NetKeys
  <2> QED
    BY <1>2, <2>1, <2>2 DEF TypeOK, NetKeys, chain, fundVars
<1>3. ASSUME NEW n \in Nodes, NetToken(n) PROVE TypeOK'
  <2>1. issued' \in [Validators -> Nat]
    BY <1>3 DEF TypeOK, NetToken
  <2>2. net' \in [at : {"idle", "keys", "token", "config", "unl", "chmod", "done"},
                  todo : SUBSET Nodes, node : Nodes, keys : [Validators -> Nat]]
    BY <1>3 DEF TypeOK, NetToken
  <2> QED
    BY <1>3, <2>1, <2>2 DEF TypeOK, NetToken, chain, fundVars
<1>4. CASE NetConfig
  <2> DEFINE token == IF net.node \in Validators THEN issued[net.node] ELSE NoToken
  <2>1. token \in Nat \cup {Cut} /\ net.node \in Nodes
    BY DEF TypeOK, NoToken
  <2>2. config' = [config EXCEPT ![net.node] = [@ EXCEPT !.token = token]]
    BY <1>4 DEF NetConfig
  <2>3. config' \in [Nodes -> Files]
    <3>1. config \in [Nodes -> Files]
      BY DEF TypeOK
    <3>2. [config[net.node] EXCEPT !.token = token] \in Files
      BY <2>1, <3>1 DEF Files
    <3> HIDE DEF token
    <3> QED
      BY <2>1, <2>2, <3>1, <3>2
  <2> QED
    BY <1>4, <2>3 DEF TypeOK, NetConfig, chain, fundVars
<1>5. CASE NetUnl
  <2>1. config' \in [Nodes -> Files]
    <3>1. config' = [config EXCEPT ![net.node] = [@ EXCEPT !.unl = net.keys]]
      BY <1>5 DEF NetUnl
    <3>2. config \in [Nodes -> Files] /\ net.node \in Nodes /\ net.keys \in [Validators -> Nat]
      BY DEF TypeOK
    <3>3. [config[net.node] EXCEPT !.unl = net.keys] \in Files
      BY <3>2 DEF Files
    <3> QED
      BY <3>1, <3>2, <3>3
  <2> QED
    BY <1>5, <2>1 DEF TypeOK, NetUnl, chain, fundVars
<1>6. CASE NetChmod
  <2>1. config' \in [Nodes -> Files]
    <3>1. config' = [config EXCEPT ![net.node] = [@ EXCEPT !.private = TRUE]]
      BY <1>6 DEF NetChmod
    <3>2. config \in [Nodes -> Files] /\ net.node \in Nodes
      BY DEF TypeOK
    <3>3. [config[net.node] EXCEPT !.private = TRUE] \in Files
      BY <3>2 DEF Files
    <3> QED
      BY <3>1, <3>2, <3>3
  <2> QED
    BY <1>6, <2>1 DEF TypeOK, NetChmod, chain, fundVars
<1>7. CASE NetKilled
  <2>1. config' \in [Nodes -> Files]
    <3>1. CASE UNCHANGED config
      BY <3>1 DEF TypeOK
    <3>2. CASE config' = [config EXCEPT ![net.node].token = Cut]
      BY <3>2 DEF TypeOK, Files
    <3>3. CASE config' = [config EXCEPT ![net.node].unl = NoKeys]
      BY <3>3, DownIsFiles DEF TypeOK, Files
    <3> QED
      BY <1>7, <3>1, <3>2, <3>3 DEF NetKilled
  <2> QED
    BY <1>7, <2>1, DownIsFiles DEF TypeOK, NetKilled, NetIdle, chain, fundVars
<1> QED
  BY <1>1, <1>2, <1>3, <1>4, <1>5, <1>6, <1>7 DEF Network

LEMMA TypeOfCompose == ASSUME TypeOK, Compose PROVE TypeOK'
<1>1. CASE ComposeUp
  BY <1>1 DEF TypeOK, ComposeUp, netVars, chain, fundVars
<1>2. CASE ComposeDown
  <2>1. running' \in [Nodes -> Files]
    BY <1>2, DownIsFiles DEF ComposeDown
  <2> QED
    BY <1>2, <2>1 DEF TypeOK, ComposeDown, netVars, fundVars
<1>3. ASSUME NEW n \in Nodes, Boot(n) PROVE TypeOK'
  BY <1>3 DEF TypeOK, Boot, netVars, chain, fundVars
<1>4. ASSUME NEW n \in Nodes, Stop(n) PROVE TypeOK'
  BY <1>4, DownIsFiles DEF TypeOK, Stop, netVars, chain, fundVars
<1> QED
  BY <1>1, <1>2, <1>3, <1>4 DEF Compose

(* A ledger validates nothing, or the next payment with either result.     *)
LEMMA LedgersValidate ==
  ASSUME Ledgers
  PROVE  \E good, bad \in SUBSET floating :
           /\ Validates(good, bad) /\ Cardinality(good \cup bad) \in {0, 1}
           /\ good \cap bad = {}
           /\ good \cup bad # {} => Cardinality(good \cup bad) = 1
           /\ \A t \in good \cup bad : t.sequence = sequence
<1>1. CASE ValidateNone
  <2>1. {} \cup {} = {} /\ Cardinality({}) = 0
    BY FS_EmptySet
  <2> QED
    BY <1>1, <2>1 DEF ValidateNone
<1>2. CASE ValidatePayment
  <2>1. PICK t \in floating : t.sequence = sequence /\ (Validates({t}, {}) \/ Validates({}, {t}))
    BY <1>2 DEF ValidatePayment
  <2>2. {t} \cup {} = {t} /\ {} \cup {t} = {t} /\ Cardinality({t}) = 1
    BY FS_Singleton
  <2>3. CASE Validates({t}, {})
    <3>1. {t} \in SUBSET floating /\ {} \in SUBSET floating /\ {t} \cap {} = {}
      OBVIOUS
    <3> QED
      BY <2>1, <2>2, <2>3, <3>1
  <2>4. CASE Validates({}, {t})
    <3>1. {t} \in SUBSET floating /\ {} \in SUBSET floating /\ {} \cap {t} = {}
      OBVIOUS
    <3> QED
      BY <2>1, <2>2, <2>4, <3>1
  <2> QED
    BY <2>1, <2>3, <2>4
<1> QED
  BY <1>1, <1>2 DEF Ledgers

LEMMA TypeOfLedgers == ASSUME TypeOK, Ledgers PROVE TypeOK'
<1>1. PICK good, bad \in SUBSET floating :
        Validates(good, bad) /\ Cardinality(good \cup bad) \in {0, 1}
  BY LedgersValidate
<1> QED
  BY <1>1 DEF TypeOK, Validates, netVars, fundVars

LEMMA TypeOfFund == ASSUME TypeOK, FundInv, Fund PROVE TypeOK'
<1> USE DEF TypeOK, FundUnchanged, netVars
<1>1. CASE FundStart
  <2>1. CASE seed.exists /\ seed.wallet = NoWallet
    BY <1>1, <2>1 DEF FundStart, FundIdle
  <2>2. CASE ~(seed.exists /\ seed.wallet = NoWallet)
    <3>1. fund' = [at |-> IF seed.exists THEN "address" ELSE "propose",
                   wallet |-> seed.wallet, sequence |-> 0, last |-> 0]
      BY <1>1, <2>2 DEF FundStart, FundIdle
    <3>2. seed.exists \in BOOLEAN /\ seed.wallet \in Wallets \cup {NoWallet}
      OBVIOUS
    <3>3. fund' \in [at : {"idle", "propose", "open", "seed", "address", "written", "info", "root",
                           "server", "submit", "poll", "done"},
                     wallet : Wallets \cup {NoWallet}, sequence : Nat, last : Nat]
      BY <3>1, <3>2
    <3>4. fundRuns' \in Nat
      BY <1>1 DEF FundStart
    <3> QED
      BY <1>1, <3>3, <3>4 DEF FundStart
  <2> QED
    BY <2>1, <2>2
<1>2. CASE FundPropose
  BY <1>2 DEF FundPropose
<1>3. CASE FundOpenSeed
  BY <1>3 DEF FundOpenSeed
<1>4. CASE FundWriteSeed
  BY <1>4 DEF FundWriteSeed
<1>5. CASE FundOpenAddress \/ FundAddress
  BY <1>5 DEF FundOpenAddress, FundAddress
<1>6. CASE FundInfo
  BY <1>6 DEF FundInfo
<1>7. CASE FundRoot
  BY <1>7 DEF FundRoot
<1>8. CASE FundServer
  <2>1. ledger + Window \in Nat
    BY LedgerAssumption DEF LedgerAssumption
  <2> QED
    BY <1>8, <2>1 DEF FundServer
<1>9. CASE FundSubmit
  <2>1. Payment \in Payments
    BY <1>9 DEF FundSubmit, FundInv, Payment, Payments
  <2>2. floating' \subseteq Payments
    BY <1>9, <2>1 DEF FundSubmit
  <2> QED
    BY <1>9, <2>2 DEF FundSubmit, FundIdle
<1>10. CASE FundSeen \/ FundRefused
  BY <1>10 DEF FundSeen, FundRefused, FundIdle
<1>11. CASE FundKilled
  BY <1>11 DEF FundKilled, FundIdle
<1> QED
  BY <1>1, <1>2, <1>3, <1>4, <1>5, <1>6, <1>7, <1>8, <1>9, <1>10, <1>11 DEF Fund
-----------------------------------------------------------------------------
(* Only FundSubmit makes a payment; a ledger moves some of the floating    *)
(* ones, and compose down forgets them.                                    *)
LEMMA MadeByFund ==
  ASSUME Network \/ Compose \/ Ledgers
  PROVE  Made' \subseteq Made /\ applied \subseteq applied' /\ UNCHANGED fundVars
<1>1. CASE Network
  BY <1>1 DEF Network, NetStart, NetKeys, NetToken, NetConfig, NetUnl, NetChmod, NetKilled, chain, Made
<1>2. CASE Compose
  BY <1>2 DEF Compose, ComposeUp, ComposeDown, Boot, Stop, chain, Made
<1>3. CASE Ledgers
  <2>1. PICK good, bad \in SUBSET floating : Validates(good, bad)
    BY <1>3, LedgersValidate
  <2> QED
    BY <2>1 DEF Validates, Made
<1> QED
  BY <1>1, <1>2, <1>3

LEMMA FundInvInitially == Init => FundInv
  BY DEF Init, FundInv, FundIdle, FundedHasSeed, ReportedIsFunded

LEMMA FundInvElsewhere ==
  ASSUME FundInv, Network \/ Compose \/ Ledgers PROVE FundInv'
  BY MadeByFund DEF FundInv, FundedHasSeed, ReportedIsFunded, PaidTo, Made, fundVars

LEMMA FundInvOfFund == ASSUME TypeOK, FundInv, Fund PROVE FundInv'
<1> USE DEF FundInv, FundedHasSeed, ReportedIsFunded, PaidTo, FundUnchanged
<1>1. CASE FundStart
  BY <1>1 DEF FundStart, FundIdle, TypeOK
<1>2. CASE FundPropose
  BY <1>2, LedgerAssumption DEF FundPropose, TypeOK
<1>3. CASE FundOpenSeed
  <2>1. floating \cup applied = {}
    BY <1>3, LedgerAssumption DEF FundOpenSeed, TypeOK, Payments, LedgerAssumption
  <2> QED
    BY <1>3, <2>1 DEF FundOpenSeed, TypeOK
<1>4. CASE FundWriteSeed
  <2>1. floating \cup applied = {}
    BY <1>4, LedgerAssumption DEF FundWriteSeed, TypeOK, Payments, LedgerAssumption
  <2> QED
    BY <1>4, <2>1 DEF FundWriteSeed, TypeOK
<1>5. CASE FundOpenAddress \/ FundAddress
  BY <1>5 DEF FundOpenAddress, FundAddress, TypeOK
<1>6. CASE FundInfo
  BY <1>6 DEF FundInfo, TypeOK
<1>7. CASE FundRoot
  BY <1>7 DEF FundRoot, TypeOK
<1>8. CASE FundServer
  BY <1>8 DEF FundServer, TypeOK
<1>9. CASE FundSubmit
  <2>1. \A t \in floating' \cup applied' : t.to = fund.wallet \/ t \in floating \cup applied
    BY <1>9 DEF FundSubmit, Payment
  <2>2. fund' = FundIdle \/ fund' = [fund EXCEPT !.at = "poll"]
    BY <1>9 DEF FundSubmit
  <2> QED
    BY <1>9, <2>1, <2>2 DEF FundSubmit, FundIdle, TypeOK
<1>10. CASE FundSeen
  <2>1. PaidTo(fund.wallet) # {}
    BY <1>10 DEF FundSeen, Payment
  <2> QED
    BY <1>10, <2>1 DEF FundSeen, TypeOK
<1>11. CASE FundKilled \/ FundRefused
  BY <1>11 DEF FundKilled, FundRefused, FundIdle
<1> QED
  BY <1>1, <1>2, <1>3, <1>4, <1>5, <1>6, <1>7, <1>8, <1>9, <1>10, <1>11 DEF Fund
-----------------------------------------------------------------------------
LEMMA NumberedInitially == Init => Numbered
  BY DEF Init, Numbered

LEMMA NumberedStays == ASSUME TypeOK, FundInv, Numbered, Next PROVE Numbered'
<1>1. CASE Network
  BY <1>1 DEF Network, NetStart, NetKeys, NetToken, NetConfig, NetUnl, NetChmod, NetKilled, chain, Numbered
<1>2. CASE Compose
  BY <1>2 DEF Compose, ComposeUp, ComposeDown, Boot, Stop, chain, Numbered
<1>3. CASE Ledgers
  <2>1. PICK good, bad \in SUBSET floating :
          /\ Validates(good, bad) /\ Cardinality(good \cup bad) \in {0, 1}
          /\ good \cap bad = {}
          /\ good \cup bad # {} => Cardinality(good \cup bad) = 1
          /\ \A t \in good \cup bad : t.sequence = sequence
    BY <1>3, LedgersValidate
  <2>2. sequence \in Nat /\ \A t \in applied \cup failed \cup floating : t.sequence \in Nat
    BY DEF TypeOK, Payments
  <2>3. /\ applied' = applied \cup good /\ failed' = failed \cup bad
        /\ sequence' = sequence + Cardinality(good \cup bad)
        /\ \A t \in floating' : t.sequence >= sequence'
    BY <2>1 DEF Validates
  <2>4. \A t \in applied' \cup failed' : t.sequence < sequence'
    BY <2>1, <2>2, <2>3 DEF Numbered
  <2>5. applied' \cap failed' = {}
    BY <2>1, <2>2, <2>3 DEF Numbered
  <2> QED
    BY <2>3, <2>4, <2>5 DEF Numbered
<1>4. CASE Fund
  <2>1. UNCHANGED <<applied, failed, sequence>>
    BY <1>4 DEF Fund, FundUnchanged, FundStart, FundPropose, FundOpenSeed, FundWriteSeed,
       FundOpenAddress, FundAddress, FundInfo, FundRoot, FundServer, FundSubmit, FundSeen, FundRefused,
       FundKilled
  <2>2. CASE FundSubmit
    <3>1. \A t \in floating' : t \in floating \/ (t = Payment /\ fund.sequence >= sequence)
      BY <2>2 DEF FundSubmit
    <3> QED
      BY <2>1, <3>1 DEF Numbered, Payment
  <2>3. CASE ~FundSubmit
    <3>1. floating' = floating
      BY <1>4, <2>3 DEF Fund, FundStart, FundPropose, FundOpenSeed, FundWriteSeed, FundOpenAddress,
         FundAddress, FundInfo, FundRoot, FundServer, FundSeen, FundRefused, FundKilled
    <3> QED
      BY <2>1, <3>1 DEF Numbered
  <2> QED
    BY <2>2, <2>3
<1> QED
  BY <1>1, <1>2, <1>3, <1>4, Split

LEMMA PaidInvInitially == Init => PaidInv
  BY FS_EmptySet DEF Init, PaidInv, Blind, Made, FundIdle

LEMMA PaidInvElsewhere ==
  ASSUME TypeOK, PaidInv, Network \/ Compose \/ Ledgers PROVE PaidInv'
<1>1. Made' \subseteq Made /\ applied \subseteq applied' /\ UNCHANGED <<fund, unseen, misread>>
  BY MadeByFund DEF fundVars
<1>2. IsFiniteSet(Made') /\ Cardinality(Made') <= Cardinality(Made)
  BY <1>1, FS_Subset DEF PaidInv
<1>3. Cardinality(Made) \in Nat /\ Cardinality(Made') \in Nat /\ Blind \in Nat /\ Blind' = Blind
  BY <1>1, <1>2, FS_CardinalityType DEF PaidInv, TypeOK, Blind
<1>4. applied # {} => applied' # {}
  BY <1>1
<1>5. Payment' = Payment
  BY <1>1 DEF Payment
<1>6. ASSUME fund.at = "poll" PROVE Cardinality(Made' \ {Payment}) <= Blind
  <2>1. IsFiniteSet(Made \ {Payment}) /\ Cardinality(Made \ {Payment}) \in Nat
    BY FS_RemoveElement, FS_CardinalityType DEF PaidInv
  <2>2. Made' \ {Payment} \in SUBSET (Made \ {Payment})
    BY <1>1
  <2>3. /\ IsFiniteSet(Made' \ {Payment})
        /\ Cardinality(Made' \ {Payment}) <= Cardinality(Made \ {Payment})
    BY <2>1, <2>2, FS_Subset
  <2>4. Cardinality(Made' \ {Payment}) \in Nat
    BY <2>3, FS_CardinalityType
  <2> QED
    BY <1>3, <1>6, <2>1, <2>3, <2>4 DEF PaidInv
<1>7. fund'.at = "poll" => Cardinality(Made' \ {Payment'}) <= Blind'
  BY <1>1, <1>3, <1>5, <1>6
<1> QED
  BY <1>1, <1>2, <1>3, <1>4, <1>7 DEF PaidInv

LEMMA PaidInvOfFund == ASSUME TypeOK, FundInv, Numbered, PaidInv, Fund PROVE PaidInv'
<1> USE DEF FundUnchanged
<1>1. Cardinality(Made) \in Nat /\ IsFiniteSet(Made) /\ unseen \in Nat /\ misread \in Nat /\ Blind \in Nat
  BY FS_CardinalityType DEF PaidInv, TypeOK, Blind
<1>2. CASE UNCHANGED <<floating, applied, unseen, misread>> /\ fund.at # "poll"
            /\ fund'.at \notin {"root", "server", "submit", "poll"}
  BY <1>2, <1>1 DEF PaidInv, Made, Blind
<1>3. CASE FundStart \/ FundPropose \/ FundOpenSeed \/ FundWriteSeed \/ FundOpenAddress \/ FundAddress
  <2>1. CASE FundStart
    <3>1. fund.at # "poll" /\ fund'.at \in {"idle", "address", "propose"}
      BY <2>1 DEF FundStart, FundIdle
    <3> QED
      BY <1>2, <2>1, <3>1 DEF FundStart
  <2>2. CASE FundPropose
    BY <1>2, <2>2 DEF FundPropose, TypeOK
  <2>3. CASE FundOpenSeed
    BY <1>2, <2>3 DEF FundOpenSeed, TypeOK
  <2>4. CASE FundWriteSeed
    BY <1>2, <2>4 DEF FundWriteSeed, TypeOK
  <2>5. CASE FundOpenAddress \/ FundAddress
    BY <1>2, <2>5 DEF FundOpenAddress, FundAddress, TypeOK
  <2> QED
    BY <1>3, <2>1, <2>2, <2>3, <2>4, <2>5
<1>4. CASE FundInfo
  <2>1. Made' = Made /\ applied' = applied /\ unseen' = unseen /\ fund'.at \in {"root", "done"}
    BY <1>4 DEF FundInfo, TypeOK, Made
  <2>2. Cardinality(Made) <= Blind \/ (applied # {} /\ Cardinality(Made) <= Blind + 1)
    BY <1>4 DEF FundInfo, PaidInv
  <2>3. CASE PaidTo(fund.wallet) # {} /\ fund'.at = "root"
    <3>1. Blind' = Blind + 1
      BY <1>1, <1>4, <2>1, <2>3 DEF FundInfo, Blind, TypeOK
    <3>2. Cardinality(Made) <= Blind'
      BY <1>1, <2>2, <3>1
    <3> QED
      BY <1>1, <2>1, <2>3, <3>2 DEF PaidInv
  <2>4. CASE PaidTo(fund.wallet) = {} /\ fund'.at = "root"
    <3>1. applied = {} /\ Blind' = Blind
      BY <1>4, <2>1, <2>4 DEF FundInfo, PaidTo, FundInv, FundedHasSeed, Blind
    <3> QED
      BY <1>1, <2>1, <2>2, <2>4, <3>1 DEF PaidInv
  <2>5. CASE fund'.at = "done"
    <3>1. misread' = misread
      BY <1>4, <2>5 DEF FundInfo, TypeOK
    <3>2. UNCHANGED <<floating, applied, unseen, misread>> /\ fund.at # "poll"
      BY <1>4, <3>1 DEF FundInfo
    <3> QED
      BY <1>2, <2>5, <3>2
  <2> QED
    BY <2>1, <2>3, <2>4, <2>5
<1>5. CASE FundRoot \/ FundServer
  <2>1. fund.at \in {"root", "server"} /\ fund'.at \in {"server", "submit"}
        /\ Made' = Made /\ Blind' = Blind
    BY <1>5 DEF FundRoot, FundServer, TypeOK, Made, Blind
  <2>2. Cardinality(Made) <= Blind
    BY <2>1 DEF PaidInv
  <2> QED
    BY <1>1, <2>1, <2>2 DEF PaidInv
<1>6. CASE FundSubmit
  <2>1. Cardinality(Made) <= Blind
    BY <1>6 DEF FundSubmit, PaidInv
  <2>2. CASE fund' = FundIdle /\ UNCHANGED <<floating, unseen>>
    <3>1. Made' = Made /\ Blind' = Blind /\ fund'.at = "idle"
      BY <1>6, <2>2 DEF FundSubmit, FundIdle, Made, Blind
    <3> QED
      BY <1>1, <2>1, <3>1 DEF PaidInv
  <2>3. CASE floating' = floating \cup {Payment} /\ fund' = FundIdle /\ unseen' = unseen + 1
    <3>1. Made' = Made \cup {Payment} /\ fund'.at = "idle"
      BY <1>6, <2>3 DEF FundSubmit, FundIdle, Made
    <3>2. IsFiniteSet(Made') /\ Cardinality(Made') <= Cardinality(Made) + 1 /\ Cardinality(Made') \in Nat
      BY <1>1, <3>1, FS_AddElement
    <3>3. Blind' = Blind + 1
      BY <1>1, <1>6, <2>3 DEF FundSubmit, Blind
    <3> QED
      BY <1>1, <2>1, <3>1, <3>2, <3>3 DEF PaidInv
  <2>4. CASE floating' = floating \cup {Payment} /\ fund' = [fund EXCEPT !.at = "poll"] /\ UNCHANGED unseen
    <3>1. Made' = Made \cup {Payment} /\ fund'.at = "poll" /\ Payment' = Payment /\ Blind' = Blind
      BY <1>6, <2>4 DEF FundSubmit, Made, Payment, Blind, TypeOK
    <3>2. IsFiniteSet(Made')
      BY <1>1, <3>1, FS_AddElement
    <3>3. Made' \ {Payment} \in SUBSET Made
      BY <3>1
    <3>4. Cardinality(Made' \ {Payment}) <= Cardinality(Made) /\ Cardinality(Made' \ {Payment}) \in Nat
      BY <1>1, <3>3, FS_Subset, FS_CardinalityType
    <3>5. Cardinality(Made' \ {Payment'}) <= Blind'
      BY <1>1, <2>1, <3>1, <3>4
    <3> QED
      BY <3>1, <3>2, <3>5 DEF PaidInv
  <2> QED
    BY <1>6, <2>2, <2>3, <2>4 DEF FundSubmit
<1>7. CASE fund.at = "poll" /\ (FundSeen \/ FundRefused \/ FundKilled)
  <2>1. Cardinality(Made \ {Payment}) <= Blind
    BY <1>7 DEF PaidInv
  <2>2. /\ Cardinality(Made \ {Payment}) = IF Payment \in Made THEN Cardinality(Made) - 1 ELSE Cardinality(Made)
    BY <1>1, FS_RemoveElement
  <2>3. Cardinality(Made) <= Blind + 1 /\ (Payment \notin Made => Cardinality(Made) <= Blind)
    BY <1>1, <2>1, <2>2
  <2>4. Made' = Made /\ applied' = applied /\ fund'.at \in {"done", "idle"}
    BY <1>7 DEF FundSeen, FundRefused, FundKilled, FundIdle, TypeOK, Made
  <2>5. CASE FundSeen
    <3>1. applied # {} /\ Blind' = Blind
      BY <2>5 DEF FundSeen, Blind
    <3> QED
      BY <1>1, <2>3, <2>4, <3>1 DEF PaidInv
  <2>6. CASE FundRefused
    <3>1. Payment \notin Made /\ Blind' = Blind
      <4>1. Payment \in failed /\ Blind' = Blind
        BY <2>6 DEF FundRefused, Blind
      <4>2. sequence \in Nat /\ Payment.sequence \in Nat
        BY DEF TypeOK, Payment
      <4> QED
        BY <4>1, <4>2 DEF Numbered, Made
    <3> QED
      BY <1>1, <2>3, <2>4, <3>1 DEF PaidInv
  <2>7. CASE FundKilled
    <3>1. Blind' = Blind + 1
      BY <1>1, <1>7, <2>7 DEF FundKilled, Blind
    <3> QED
      BY <1>1, <2>3, <2>4, <3>1 DEF PaidInv
  <2> QED
    BY <1>7, <2>5, <2>6, <2>7
<1>8. CASE fund.at # "poll" /\ FundKilled
  BY <1>2, <1>8 DEF FundKilled, FundIdle
<1> QED
  BY <1>3, <1>4, <1>5, <1>6, <1>7, <1>8 DEF Fund, FundSeen, FundRefused
-----------------------------------------------------------------------------
LEMMA NetInvInitially == Init => NetInv
  BY DEF Init, NetInv, UnlIsKey, KeysRead, Done, NetIdle, Writing, NoFiles, Down

LEMMA NetInvElsewhere ==
  ASSUME NetInv, Fund \/ Ledgers PROVE NetInv'
<1>1. UNCHANGED <<netVars, running>>
  <2>1. CASE Fund
    BY <2>1 DEF Fund, FundStart, FundPropose, FundOpenSeed, FundWriteSeed, FundOpenAddress,
       FundAddress, FundInfo, FundRoot, FundServer, FundSubmit, FundSeen, FundRefused, FundKilled,
       FundUnchanged
  <2>2. CASE Ledgers
    BY <2>2, LedgersValidate DEF Validates
  <2> QED
    BY <2>1, <2>2
<1> QED
  BY <1>1 DEF netVars, NetInv, UnlIsKey, AllKeys, KeysRead, Writing, Done, Complete, TokenIsLast,
     TokenMade, Whole

LEMMA NetInvOfCompose == ASSUME TypeOK, NetInv, Compose PROVE NetInv'
<1>1. UNCHANGED netVars
  BY DEF Compose, ComposeUp, ComposeDown, Boot, Stop
<1>2. KeysRead' /\ Done'
  BY <1>1 DEF netVars, NetInv, AllKeys, KeysRead, Writing, Done, Complete, TokenIsLast, TokenMade
<1>3. ASSUME NEW n \in Nodes
      PROVE  UnlIsKey(config[n])' /\ UnlIsKey(running[n])' /\ (running[n] # Down => Whole(running[n]))'
  <2>1. running'[n] = running[n] \/ running'[n] = Down \/ (running'[n] = config[n] /\ Whole(config[n]))
    BY DEF Compose, ComposeUp, ComposeDown, Boot, Stop, netVars, chain, TypeOK
  <2>2. UnlIsKey(config[n])'
    BY <1>1 DEF netVars, NetInv, UnlIsKey, AllKeys
  <2>3. UnlIsKey(running[n])'
    BY <1>1, <2>1 DEF netVars, NetInv, UnlIsKey, AllKeys, Down, NoFiles
  <2> QED
    BY <2>1, <2>2, <2>3 DEF NetInv, Whole
<1> QED
  BY <1>2, <1>3 DEF NetInv

(* Key files appear and never change: once all are there the keys stay.    *)
LEMMA KeysStay == ASSUME TypeOK, Network, AllKeys PROVE key' = key /\ AllKeys'
  BY DEF Network, NetStart, NetKeys, NetToken, NetConfig, NetUnl, NetChmod, NetKilled, AllKeys, TypeOK

LEMMA NetKeysNetInv ==
  ASSUME TypeOK, NetInv, NEW n \in Nodes, NetKeys(n) PROVE NetInv'
<1>0. Network
  BY DEF Network
<1>1. UNCHANGED <<config, running>>
  BY DEF NetKeys
<1>2. ASSUME NEW m \in Nodes PROVE UnlIsKey(config[m])' /\ UnlIsKey(running[m])'
  BY <1>0, <1>1, KeysStay DEF NetInv, UnlIsKey
<1> DEFINE read == IF n \in Validators THEN [net.keys EXCEPT ![n] = key'[n]] ELSE net.keys
           left == net.todo \ {n}
<1>3. net' = [net EXCEPT !.at = IF left = {} THEN "token" ELSE "keys",
                         !.todo = IF left = {} THEN Nodes ELSE left, !.keys = read]
  BY DEF NetKeys
<1>4. \A v \in Validators \ left : key'[v] # 0 /\ read[v] = key'[v]
  BY DEF NetKeys, NetInv, KeysRead, TypeOK
<1>5. read \in [Validators -> Nat] /\ key' \in [Validators -> Nat]
  BY DEF NetKeys, TypeOK
<1>6. CASE left = {}
  <2>1. net'.at = "token" /\ net'.todo = Nodes /\ net'.keys = read
    BY <1>3, <1>6 DEF TypeOK
  <2>2. read = key' /\ AllKeys'
    BY <1>4, <1>5, <1>6 DEF AllKeys
  <2>3. KeysRead' /\ Done'
    BY <2>1, <2>2 DEF KeysRead, Done
  <2> QED
    BY <1>1, <1>2, <2>3 DEF NetInv, Whole
<1>7. CASE left # {}
  <2>1. net'.at = "keys" /\ net'.todo = left /\ net'.keys = read
    BY <1>3, <1>7 DEF TypeOK
  <2>2. KeysRead' /\ Done'
    BY <1>4, <2>1 DEF KeysRead, Done, Writing
  <2> QED
    BY <1>1, <1>2, <2>2 DEF NetInv, Whole
<1> QED
  BY <1>6, <1>7

LEMMA NetTokenNetInv ==
  ASSUME TypeOK, NetInv, NEW n \in Nodes, NetToken(n) PROVE NetInv'
<1>1. UNCHANGED <<key, config, running>> /\ net.keys = key /\ AllKeys
  BY DEF NetToken, NetInv, KeysRead, Writing
<1>2. net'.at = "config" /\ net'.node = n /\ net'.todo = net.todo \ {n} /\ net'.keys = net.keys
  BY DEF NetToken, TypeOK
<1>3. \A m \in Nodes : UnlIsKey(config[m])' /\ UnlIsKey(running[m])'
  BY <1>1 DEF NetInv, UnlIsKey, AllKeys
<1>4. KeysRead'
  BY <1>1, <1>2 DEF KeysRead, AllKeys
<1>5. TokenMade(n)'
  BY DEF NetToken, TokenMade, TypeOK
<1>6. ASSUME NEW m \in Nodes \ (net.todo \cup {n}) PROVE Complete(m)'
  <2>1. Complete(m)
    BY DEF NetToken, NetInv, Done
  <2>2. m \in Validators => issued'[m] = issued[m]
    BY DEF NetToken, TypeOK
  <2> QED
    BY <1>1, <2>1, <2>2 DEF Complete, TokenIsLast, TokenMade
<1>7. Done'
  BY <1>2, <1>5, <1>6 DEF Done, NetToken
<1> QED
  BY <1>1, <1>3, <1>4, <1>7 DEF NetInv, Whole

(* The three writes of a node's files leave the other nodes' alone. *)
LEMMA OthersStay ==
  ASSUME UNCHANGED <<key, issued>>, NEW m \in Nodes, config'[m] = config[m], Complete(m)
  PROVE  Complete(m)'
  BY DEF Complete, TokenIsLast, TokenMade

LEMMA NetConfigNetInv == ASSUME TypeOK, NetInv, NetConfig PROVE NetInv'
<1> DEFINE token == IF net.node \in Validators THEN issued[net.node] ELSE NoToken
<1>1. UNCHANGED <<key, issued, running>> /\ net.keys = key /\ AllKeys /\ net.node \in Nodes
  BY DEF NetConfig, NetInv, KeysRead, Writing, TypeOK
<1>2. net'.at = "unl" /\ UNCHANGED <<net.node, net.todo, net.keys>>
  BY DEF NetConfig, TypeOK
<1>3. config' = [config EXCEPT ![net.node].token = token]
  BY DEF NetConfig
<1>4. \A m \in Nodes : config'[m].unl = config[m].unl /\ (m # net.node => config'[m] = config[m])
  BY <1>3 DEF TypeOK, Files
<1>5. config'[net.node].token = token
  BY <1>1, <1>3 DEF TypeOK, Files
<1>6. \A m \in Nodes : UnlIsKey(config[m])' /\ UnlIsKey(running[m])'
  BY <1>1, <1>4 DEF NetInv, UnlIsKey, AllKeys
<1>7. KeysRead'
  BY <1>1, <1>2 DEF KeysRead, AllKeys
<1>8. net.node \notin net.todo /\ TokenMade(net.node)
      /\ \A m \in Nodes \ (net.todo \cup {net.node}) : Complete(m)
  BY DEF NetConfig, NetInv, Done
<1>9. \A m \in Nodes \ (net.todo \cup {net.node}) : Complete(m)'
  BY <1>1, <1>4, <1>8, OthersStay
<1>10. Done'
  <2>1. TokenMade(net.node)' /\ TokenIsLast(net.node)'
    BY <1>1, <1>2, <1>5, <1>8 DEF TokenMade, TokenIsLast
  <2> QED
    BY <1>2, <1>8, <1>9, <2>1 DEF Done
<1> QED
  BY <1>1, <1>6, <1>7, <1>10 DEF NetInv, Whole

LEMMA NetUnlNetInv == ASSUME TypeOK, NetInv, NetUnl PROVE NetInv'
<1>1. UNCHANGED <<key, issued, running>> /\ net.keys = key /\ AllKeys /\ net.node \in Nodes
  BY DEF NetUnl, NetInv, KeysRead, Writing, TypeOK
<1>2. net'.at = "chmod" /\ UNCHANGED <<net.node, net.todo, net.keys>>
  BY DEF NetUnl, TypeOK
<1>3. config' = [config EXCEPT ![net.node].unl = key]
  BY <1>1 DEF NetUnl
<1>4. \A m \in Nodes : config'[m].unl \in {key, config[m].unl} /\ (m # net.node => config'[m] = config[m])
  BY <1>3 DEF TypeOK, Files
<1>5. config'[net.node].unl = key /\ config'[net.node].token = config[net.node].token
  BY <1>1, <1>3 DEF TypeOK, Files
<1>6. \A m \in Nodes : UnlIsKey(config[m])' /\ UnlIsKey(running[m])'
  BY <1>1, <1>4 DEF NetInv, UnlIsKey, AllKeys
<1>7. KeysRead'
  BY <1>1, <1>2 DEF KeysRead, AllKeys
<1>8. net.node \notin net.todo /\ TokenMade(net.node) /\ TokenIsLast(net.node)
      /\ \A m \in Nodes \ (net.todo \cup {net.node}) : Complete(m)
  BY DEF NetUnl, NetInv, Done
<1>9. \A m \in Nodes \ (net.todo \cup {net.node}) : Complete(m)'
  BY <1>1, <1>4, <1>8, OthersStay
<1>10. Done'
  <2>1. TokenMade(net.node)' /\ TokenIsLast(net.node)'
    BY <1>1, <1>2, <1>5, <1>8 DEF TokenMade, TokenIsLast
  <2> QED
    BY <1>1, <1>2, <1>5, <1>8, <1>9, <2>1 DEF Done
<1> QED
  BY <1>1, <1>6, <1>7, <1>10 DEF NetInv, Whole

LEMMA NetChmodNetInv == ASSUME TypeOK, NetInv, NetChmod PROVE NetInv'
<1>1. UNCHANGED <<key, issued, running>> /\ net.keys = key /\ AllKeys /\ net.node \in Nodes
  BY DEF NetChmod, NetInv, KeysRead, Writing, TypeOK
<1>2. net'.at = (IF net.todo = {} THEN "done" ELSE "token") /\ UNCHANGED <<net.node, net.todo, net.keys>>
  BY DEF NetChmod, TypeOK
<1>3. config' = [config EXCEPT ![net.node].private = TRUE]
  BY DEF NetChmod
<1>4. \A m \in Nodes : config'[m].unl = config[m].unl /\ (m # net.node => config'[m] = config[m])
  BY <1>3 DEF TypeOK, Files
<1>5. config'[net.node].private /\ config'[net.node].token = config[net.node].token
  BY <1>1, <1>3 DEF TypeOK, Files
<1>6. \A m \in Nodes : UnlIsKey(config[m])' /\ UnlIsKey(running[m])'
  BY <1>1, <1>4 DEF NetInv, UnlIsKey, AllKeys
<1>7. KeysRead'
  BY <1>1, <1>2 DEF KeysRead, AllKeys
<1>8. /\ net.node \notin net.todo /\ TokenMade(net.node) /\ TokenIsLast(net.node)
      /\ config[net.node].unl = key
      /\ \A m \in Nodes \ (net.todo \cup {net.node}) : Complete(m)
  BY DEF NetChmod, NetInv, Done
<1>9. \A m \in Nodes \ net.todo : Complete(m)'
  <2>1. ASSUME NEW m \in Nodes \ net.todo, m # net.node PROVE Complete(m)'
    BY <1>1, <1>4, <1>8, <2>1, OthersStay
  <2>2. ASSUME NEW m \in Nodes, m = net.node PROVE Complete(m)'
    BY <1>1, <1>2, <1>4, <1>5, <1>8, <2>2 DEF Complete, TokenMade, TokenIsLast
  <2> QED
    BY <2>1, <2>2
<1>10. Done'
  BY <1>2, <1>9 DEF Done
<1> QED
  BY <1>1, <1>6, <1>7, <1>10 DEF NetInv, Whole

LEMMA NetRestNetInv == ASSUME TypeOK, NetInv, NetStart \/ NetKilled PROVE NetInv'
<1>1. UNCHANGED <<key, running>>
  BY DEF NetStart, NetKilled
<1>2. \A m \in Nodes : config'[m].unl \in {config[m].unl, NoKeys}
  <2>1. CASE UNCHANGED config
    BY <2>1
  <2>2. CASE config' = [config EXCEPT ![net.node].token = Cut]
    BY <2>2 DEF TypeOK, Files
  <2>3. CASE config' = [config EXCEPT ![net.node].unl = NoKeys]
    BY <2>3 DEF TypeOK, Files
  <2> QED
    BY <2>1, <2>2, <2>3 DEF NetStart, NetKilled
<1>3. \A m \in Nodes : UnlIsKey(config[m])' /\ UnlIsKey(running[m])'
  BY <1>1, <1>2 DEF NetInv, UnlIsKey, AllKeys
<1>4. net'.at = "idle" \/ (net'.at = "keys" /\ net'.todo = Nodes)
  <2>1. CASE NetStart
    <3>1. net' = [at |-> "keys", todo |-> Nodes, node |-> Api, keys |-> NoKeys]
      BY <2>1 DEF NetStart, NetIdle
    <3> QED
      BY <3>1
  <2>2. CASE NetKilled
    BY <2>2 DEF NetKilled, NetIdle
  <2> QED
    BY <2>1, <2>2
<1>5. KeysRead' /\ Done'
  BY <1>4 DEF KeysRead, Writing, Done, Nodes
<1> QED
  BY <1>1, <1>3, <1>5 DEF NetInv, Whole
-----------------------------------------------------------------------------
IInv == TypeOK /\ FundInv /\ PaidInv /\ NetInv /\ Numbered

LEMMA Inductive == ASSUME IInv, [Next]_vars PROVE IInv'
<1> USE DEF IInv
<1>0. Next => Numbered'
  BY NumberedStays
<1>1. CASE Network
  <2>1. NetInv'
    BY <1>1, NetKeysNetInv, NetTokenNetInv, NetConfigNetInv, NetUnlNetInv, NetChmodNetInv, NetRestNetInv
    DEF Network
  <2> QED
    BY <1>0, <1>1, <2>1, TypeOfNetwork, FundInvElsewhere, PaidInvElsewhere DEF Next
<1>2. CASE Fund
  BY <1>0, <1>2, TypeOfFund, FundInvOfFund, PaidInvOfFund, NetInvElsewhere DEF Next
<1>3. CASE Compose
  BY <1>0, <1>3, TypeOfCompose, FundInvElsewhere, PaidInvElsewhere, NetInvOfCompose DEF Next, Compose
<1>4. CASE Ledgers
  BY <1>0, <1>4, TypeOfLedgers, FundInvElsewhere, PaidInvElsewhere, NetInvElsewhere DEF Next, Ledgers
<1>5. CASE UNCHANGED vars
  BY <1>5 DEF vars, netVars, fundVars, chain, TypeOK, FundInv, FundedHasSeed, ReportedIsFunded, PaidTo,
     PaidInv, Blind, Payment, Made, Numbered, NetInv, UnlIsKey, AllKeys, KeysRead, Writing, Done, Complete, TokenIsLast, TokenMade,
     Whole
<1> QED
  BY <1>1, <1>2, <1>3, <1>4, <1>5, Split

LEMMA Invariant == Spec => []IInv
<1>1. Init => IInv
  BY TypeInitially, FundInvInitially, PaidInvInitially, NetInvInitially,
     NumberedInitially DEF IInv
<1>2. IInv /\ [Next]_vars => IInv'
  BY Inductive
<1> QED
  BY <1>1, <1>2, PTL DEF Spec

(* Every variable keeps its type, whatever is killed and run again.        *)
THEOREM TypeCorrect == Spec => []TypeOK
<1>1. IInv => TypeOK
  BY DEF IInv
<1> QED
  BY <1>1, Invariant, PTL

(* Running nodes trust the same keys, those of the key files: no killed or *)
(* repeated run of init_xrpl_network.py can split the network.             *)
THEOREM TrustAlwaysAgrees == Spec => []TrustAgrees
<1>1. IInv => TrustAgrees
  BY DEF IInv, NetInv, TrustAgrees, UnlIsKey, Whole
<1> QED
  BY <1>1, Invariant, PTL

(* A run of init_xrpl_network.py that ends well leaves every node complete. *)
THEOREM FinishedRunsAreComplete == Spec => []FinishedIsComplete
<1>1. ASSUME IInv, net.at = "done", NEW n \in Nodes
      PROVE  /\ config[n].private /\ config[n].unl = key /\ Whole(config[n])
             /\ n \in Validators => config[n].token = issued[n] /\ key[n] > 0 /\ issued[n] > 0
  <2>1. Complete(n) /\ AllKeys
    BY <1>1 DEF IInv, NetInv, Done, KeysRead, Writing
  <2>2. \A v \in Validators : key[v] \in Nat /\ issued[v] \in Nat /\ key[v] # 0
    BY <1>1, <2>1 DEF IInv, TypeOK, AllKeys
  <2>3. key # NoKeys
    BY <2>2, LedgerAssumption DEF LedgerAssumption, NoKeys
  <2>4. Whole(config[n])
    BY <1>1, <2>1, <2>2, <2>3 DEF Whole, Complete, TokenIsLast, NoToken, Cut
  <2> QED
    BY <2>1, <2>2, <2>4 DEF Complete, TokenIsLast, TokenMade
<1>2. IInv => FinishedIsComplete
  BY <1>1 DEF FinishedIsComplete
<1> QED
  BY <1>2, Invariant, PTL

(* No payment goes to an account whose seed is not on the disk, wherever   *)
(* init_anchoring_account.py was killed.                                   *)
THEOREM FundedAccountsHaveSeed == Spec => []FundedHasSeed
<1>1. IInv => FundedHasSeed
  BY DEF IInv, FundInv
<1> QED
  BY <1>1, Invariant, PTL

(* A run that reports the account funded has left its address and seed.    *)
THEOREM ReportsAreTrue == Spec => []ReportedIsFunded
<1>1. IInv => ReportedIsFunded
  BY DEF IInv, FundInv
<1> QED
  BY <1>1, Invariant, PTL

(* The account is paid once, and once more at most for each run that ended *)
(* between its submit and the validation it waited for, or that read the   *)
(* funded account as one without money.                                    *)
THEOREM PaidOnce == Spec => []PaidOnceUnlessUnseen
<1>1. ASSUME IInv PROVE PaidOnceUnlessUnseen
  <2>1. IsFiniteSet(Made) /\ applied \subseteq Made
    BY <1>1 DEF IInv, PaidInv, Made
  <2>2. Cardinality(applied) <= Cardinality(Made) /\ IsFiniteSet(applied)
    BY <2>1, FS_Subset
  <2>3. Cardinality(applied) \in Nat /\ Cardinality(Made) \in Nat /\ Blind \in Nat
    BY <1>1, <2>1, <2>2, FS_CardinalityType DEF IInv, TypeOK, Blind
  <2>4. Cardinality(Made \ {Payment}) >= Cardinality(Made) - 1 /\ Cardinality(Made \ {Payment}) \in Int
    BY <2>1, <2>3, FS_RemoveElement
  <2>5. Cardinality(Made) <= Blind + 1
    BY <1>1, <2>3, <2>4 DEF IInv, PaidInv
  <2>6. Cardinality(applied) <= Blind + 1
    BY <2>2, <2>3, <2>5
  <2> QED
    BY <1>1, <2>3, <2>6 DEF PaidOnceUnlessUnseen, Blind, IInv, TypeOK
<1> QED
  BY <1>1, Invariant, PTL
=============================================================================
