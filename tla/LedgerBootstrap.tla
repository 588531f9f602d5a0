-------------------------- MODULE LedgerBootstrap --------------------------
(***************************************************************************)
(* The bootstrap of the private ledger: init_xrpl_network.py (keys, tokens *)
(* and configurations of the nodes), start_xrpl.sh and                     *)
(* cold_restart_test.sh (compose up and down), init_anchoring_account.py   *)
(* (the seed, the address and the funding payment of the anchoring         *)
(* account).  Every script is started by hand, one operator at a time, may *)
(* be killed anywhere and is then run again.                               *)
(*                                                                         *)
(* External: validator-keys, which numbers the tokens of a key in its key  *)
(* file; xrpld, which validates at most one payment per sequence number of *)
(* the paying account and none after its last ledger.                      *)
(***************************************************************************)
EXTENDS Integers, FiniteSets

CONSTANTS
  Validators,   \* VALIDATORS
  Api,          \* API_NODE: follows the validators, has no key
  Wallets,      \* the key pairs wallet_propose may return
  NoWallet,     \* no seed, or a seed file without content
  Window,       \* ledgers a signed payment stays valid for (20 in the script)
  MaxLedger,    \* bound: validated ledgers
  MaxNetRuns,   \* bound: runs of init_xrpl_network.py
  MaxFundRuns   \* bound: runs of init_anchoring_account.py

ASSUME LedgerAssumption ==
  /\ Validators # {} /\ Api \notin Validators /\ NoWallet \notin Wallets
  /\ Window \in Nat \ {0} /\ {MaxLedger, MaxNetRuns, MaxFundRuns} \subseteq Nat

Nodes == Validators \cup {Api}

VARIABLES
  key,       \* key[v]: how many keys were made in v's key file; 0: no file
  issued,    \* issued[v]: how many tokens were made of it
  config,    \* config[n]: the two files xrpld reads, see Files
  net,       \* init_xrpl_network.py: where it is, nodes to do, keys it read
  up,        \* whether compose wants the nodes up
  running,   \* running[n]: what the node was started with
  ledger,    \* the last validated ledger
  sequence,  \* the paying account's next sequence number, validated
  floating,  \* payments submitted, not validated and not expired
  applied,   \* payments validated with success
  failed,    \* payments validated with another result: no money moved
  seed,      \* anchor.seed: whether it exists, and the wallet in it
  address,   \* address.txt
  fund,      \* init_anchoring_account.py: where it is and what it has read
  netRuns, fundRuns,  \* history: how often each script was started
  unseen,             \* history: runs that submitted and did not see the end
  misread             \* history: runs that took a funded account for an unfunded one

netVars  == <<key, issued, config, net, netRuns>>
fundVars == <<seed, address, fund, fundRuns, unseen, misread>>
chain    == <<ledger, sequence, floating, applied, failed>>
vars     == <<netVars, up, running, chain, fundVars>>

(* A configuration: the token in xrpld.cfg (NoToken: none, as for the API  *)
(* node; Cut: the file is missing or was cut off), the keys in             *)
(* validators.txt, and whether the mode was set.                           *)
Cut     == -1
NoToken == 0
Files   == [token : Nat \cup {Cut}, unl : [Validators -> Nat], private : BOOLEAN]
NoKeys  == [v \in Validators |-> 0]
NoFiles == [token |-> Cut, unl |-> NoKeys, private |-> FALSE]
Down    == NoFiles

NetIdle  == [at |-> "idle", todo |-> {}, node |-> Api, keys |-> NoKeys]
FundIdle == [at |-> "idle", wallet |-> NoWallet, sequence |-> 0, last |-> 0]

Payments == [to : Wallets, sequence : Nat, last : Nat]

Init ==
  /\ key = NoKeys /\ issued = NoKeys
  /\ config = [n \in Nodes |-> NoFiles]
  /\ net = NetIdle /\ netRuns = 0
  /\ up = FALSE /\ running = [n \in Nodes |-> Down]
  /\ ledger = 0 /\ sequence = 1 /\ floating = {} /\ applied = {} /\ failed = {}
  /\ seed = [exists |-> FALSE, wallet |-> NoWallet] /\ address = NoWallet
  /\ fund = FundIdle /\ fundRuns = 0 /\ unseen = 0 /\ misread = 0
-----------------------------------------------------------------------------
(* init_xrpl_network.py *)

(* Arguments, template; nothing is written. *)
NetStart ==
  /\ net.at \in {"idle", "done"} /\ netRuns < MaxNetRuns
  /\ net' = [NetIdle EXCEPT !.at = "keys", !.todo = Nodes]
  /\ netRuns' = netRuns + 1
  /\ UNCHANGED <<key, issued, config, up, running, chain, fundVars>>

BugNetKeysOneLoop(n) ==
  /\ net.at = "keys" /\ n \in net.todo
  /\ key' = IF n \in Validators /\ key[n] = 0 THEN [key EXCEPT ![n] = 1] ELSE key
  /\ net' = [net EXCEPT !.at = "token", !.todo = {n},
                        !.keys = IF n \in Validators THEN [@ EXCEPT ![n] = key'[n]] ELSE @]
  /\ UNCHANGED <<issued, config, netRuns, up, running, chain, fundVars>>

(* The first loop: directories, a key pair where there is none, the public *)
(* key.  The second loop begins when every node had its turn.              *)
NetKeys(n) ==
  /\ net.at = "keys" /\ n \in net.todo
  /\ key' = IF n \in Validators /\ key[n] = 0 THEN [key EXCEPT ![n] = 1] ELSE key
  /\ LET read == IF n \in Validators THEN [net.keys EXCEPT ![n] = key'[n]] ELSE net.keys
         left == net.todo \ {n}
     IN  net' = [net EXCEPT !.at = IF left = {} THEN "token" ELSE "keys",
                            !.todo = IF left = {} THEN Nodes ELSE left, !.keys = read]
  /\ UNCHANGED <<issued, config, netRuns, up, running, chain, fundVars>>

(* The second loop, for one node: a new token (none for the API node), ... *)
NetToken(n) ==
  /\ net.at = "token" /\ n \in net.todo
  /\ issued' = IF n \in Validators THEN [issued EXCEPT ![n] = @ + 1] ELSE issued
  /\ net' = [net EXCEPT !.at = "config", !.node = n, !.todo = @ \ {n}]
  /\ UNCHANGED <<key, config, netRuns, up, running, chain, fundVars>>

BugNetConfigKept ==
  /\ net.at = "config"
  /\ LET n == net.node
     IN  config' = [config EXCEPT ![n].token =
           IF @ # Cut THEN @ ELSE IF n \in Validators THEN issued[n] ELSE NoToken]
  /\ net' = [net EXCEPT !.at = "unl"]
  /\ UNCHANGED <<key, issued, netRuns, up, running, chain, fundVars>>
(* ... xrpld.cfg, whose mode survives a rewrite, ... *)
NetConfig ==
  /\ net.at = "config"
  /\ LET n == net.node
     IN  config' = [config EXCEPT ![n].token = IF n \in Validators THEN issued[n] ELSE NoToken]
  /\ net' = [net EXCEPT !.at = "unl"]
  /\ UNCHANGED <<key, issued, netRuns, up, running, chain, fundVars>>

(* ... validators.txt with the keys read in the first loop, ... *)
NetUnl ==
  /\ net.at = "unl"
  /\ config' = [config EXCEPT ![net.node].unl = net.keys]
  /\ net' = [net EXCEPT !.at = "chmod"]
  /\ UNCHANGED <<key, issued, netRuns, up, running, chain, fundVars>>

(* ... and the mode. *)
NetChmod ==
  /\ net.at = "chmod"
  /\ config' = [config EXCEPT ![net.node].private = TRUE]
  /\ net' = [net EXCEPT !.at = IF net.todo = {} THEN "done" ELSE "token"]
  /\ UNCHANGED <<key, issued, netRuns, up, running, chain, fundVars>>

(* The run is killed, or docker run or the template fails; a write_text    *)
(* that was under way leaves the file cut off.                             *)
NetKilled ==
  /\ net.at \notin {"idle", "done"}
  /\ \/ UNCHANGED config
     \/ net.at = "config" /\ config' = [config EXCEPT ![net.node].token = Cut]
     \/ net.at = "unl" /\ config' = [config EXCEPT ![net.node].unl = NoKeys]
  /\ net' = NetIdle
  /\ UNCHANGED <<key, issued, netRuns, up, running, chain, fundVars>>
-----------------------------------------------------------------------------
(* start_xrpl.sh, cold_restart_test.sh and the nodes *)

ComposeUp ==
  /\ ~up /\ up' = TRUE
  /\ UNCHANGED <<netVars, running, chain, fundVars>>

(* Payments that no ledger holds yet are in the nodes' memory. *)
ComposeDown ==
  /\ up /\ up' = FALSE
  /\ running' = [n \in Nodes |-> Down] /\ floating' = {}
  /\ UNCHANGED <<netVars, ledger, sequence, applied, failed, fundVars>>

Whole(f) == f.token # Cut /\ f.unl # NoKeys

(* A wanted node starts with the files it finds then (restart:             *)
(* unless-stopped: until it finds whole ones).                             *)
Boot(n) ==
  /\ up /\ running[n] = Down /\ Whole(config[n])
  /\ running' = [running EXCEPT ![n] = config[n]]
  /\ UNCHANGED <<netVars, up, chain, fundVars>>

Stop(n) ==
  /\ running[n] # Down
  /\ running' = [running EXCEPT ![n] = Down]
  /\ UNCHANGED <<netVars, up, chain, fundVars>>

(* Ledgers are validated while every validator runs and all trust the same *)
(* keys: an empty one, or one with the next payment of the paying account, *)
(* whose final result need not be the one submit foresaw.                  *)
Agreeing == \A v, w \in Validators : running[v] # Down /\ running[v].unl = running[w].unl

Validates(good, bad) ==
  /\ Agreeing /\ ledger < MaxLedger
  /\ ledger' = ledger + 1
  /\ applied' = applied \cup good /\ failed' = failed \cup bad
  /\ sequence' = sequence + Cardinality(good \cup bad)
  /\ floating' = {t \in floating : t.sequence >= sequence' /\ t.last > ledger'}
  /\ UNCHANGED <<netVars, up, running, fundVars>>

ValidateNone == Validates({}, {})

ValidatePayment ==
  \E t \in floating :
    /\ t.sequence = sequence /\ t.last > ledger
    /\ Validates({t}, {}) \/ Validates({}, {t})
-----------------------------------------------------------------------------
(* init_anchoring_account.py.  Every call goes to one validator's RPC.     *)

FundUnchanged == UNCHANGED <<netVars, up, running, ledger, sequence, applied, failed>>
RpcUp == \E v \in Validators : running[v] # Down

BugFundStartAnew ==
  /\ fund.at \in {"idle", "done"} /\ fundRuns < MaxFundRuns
  /\ fundRuns' = fundRuns + 1
  /\ fund' = [FundIdle EXCEPT !.at = "propose"]
  /\ UNCHANGED <<seed, address, unseen, misread, floating>> /\ FundUnchanged
(* Directories, mode of the directory, seed_path.exists(); wallet_propose  *)
(* refuses the empty seed of a file without content.                       *)
FundStart ==
  /\ fund.at \in {"idle", "done"} /\ fundRuns < MaxFundRuns
  /\ fundRuns' = fundRuns + 1
  /\ fund' = IF seed.exists /\ seed.wallet = NoWallet THEN FundIdle
             ELSE [FundIdle EXCEPT !.at = IF seed.exists THEN "address" ELSE "propose",
                                   !.wallet = seed.wallet]
  /\ UNCHANGED <<seed, address, unseen, misread, floating>> /\ FundUnchanged

(* wallet_propose without a seed. *)
FundPropose ==
  /\ fund.at = "propose" /\ RpcUp
  /\ \E w \in Wallets : fund' = [fund EXCEPT !.at = "open", !.wallet = w]
  /\ UNCHANGED <<seed, address, fundRuns, unseen, misread, floating>> /\ FundUnchanged

(* write_text, first half: the file exists and is empty. *)
FundOpenSeed ==
  /\ fund.at = "open"
  /\ seed' = [exists |-> TRUE, wallet |-> NoWallet]
  /\ fund' = [fund EXCEPT !.at = "seed"]
  /\ UNCHANGED <<address, fundRuns, unseen, misread, floating>> /\ FundUnchanged

(* write_text, second half, and the mode. *)
FundWriteSeed ==
  /\ fund.at = "seed"
  /\ seed' = [exists |-> TRUE, wallet |-> fund.wallet]
  /\ fund' = [fund EXCEPT !.at = "address"]
  /\ UNCHANGED <<address, fundRuns, unseen, misread, floating>> /\ FundUnchanged

(* address.txt is written on every run, first half ...                     *)
FundOpenAddress ==
  /\ fund.at = "address"
  /\ address' = NoWallet
  /\ fund' = [fund EXCEPT !.at = "written"]
  /\ UNCHANGED <<seed, fundRuns, unseen, misread, floating>> /\ FundUnchanged

(* ... and second half.                                                    *)
FundAddress ==
  /\ fund.at = "written"
  /\ address' = fund.wallet
  /\ fund' = [fund EXCEPT !.at = "info"]
  /\ UNCHANGED <<seed, fundRuns, unseen, misread, floating>> /\ FundUnchanged

PaidTo(w) == {t \in applied : t.to = w}

BugFundInfoUnasked ==
  /\ fund.at = "info" /\ RpcUp
  /\ fund' = [fund EXCEPT !.at = "root"]
  /\ UNCHANGED <<seed, address, fundRuns, unseen, misread, floating>> /\ FundUnchanged
(* account_info of the anchoring account in the validated ledger.  An      *)
(* error of this call is no exception: like every answer without account   *)
(* data it reads as "not funded", also when the account is.                *)
FundInfo ==
  /\ fund.at = "info" /\ RpcUp
  /\ \/ /\ PaidTo(fund.wallet) # {}
        /\ fund' = [fund EXCEPT !.at = "done"] /\ UNCHANGED misread
     \/ /\ fund' = [fund EXCEPT !.at = "root"]
        /\ misread' = IF PaidTo(fund.wallet) # {} THEN misread + 1 ELSE misread
  /\ UNCHANGED <<seed, address, fundRuns, unseen, floating>> /\ FundUnchanged

(* account_info of the paying account, in the validated ledger of now (an  *)
(* answer without account data is a KeyError: FundKilled).                 *)
FundRoot ==
  /\ fund.at = "root" /\ RpcUp
  /\ fund' = [fund EXCEPT !.at = "server", !.sequence = sequence]
  /\ UNCHANGED <<seed, address, fundRuns, unseen, misread, floating>> /\ FundUnchanged

BugFundServer ==
  /\ fund.at = "server" /\ RpcUp
  /\ fund' = [fund EXCEPT !.at = "submit", !.last = ledger - Window]
  /\ UNCHANGED <<seed, address, fundRuns, unseen, misread, floating>> /\ FundUnchanged
(* server_info: the last ledger the payment may be in; sign. *)
FundServer ==
  /\ fund.at = "server" /\ RpcUp
  /\ fund' = [fund EXCEPT !.at = "submit", !.last = ledger + Window]
  /\ UNCHANGED <<seed, address, fundRuns, unseen, misread, floating>> /\ FundUnchanged

Payment == [to |-> fund.wallet, sequence |-> fund.sequence, last |-> fund.last]

(* submit: tesSUCCESS; a payment that may be validated although the run    *)
(* ends (the answer never comes, or it is terQUEUED); or one that may not, *)
(* as its sequence or its ledgers are over or another payment has them.    *)
FundSubmit ==
  /\ fund.at = "submit" /\ RpcUp
  /\ \/ /\ fund.sequence >= sequence /\ fund.last > ledger
        /\ floating' = floating \cup {Payment}
        /\ \/ fund' = [fund EXCEPT !.at = "poll"] /\ UNCHANGED unseen
           \/ fund' = FundIdle /\ unseen' = unseen + 1
     \/ /\ \/ fund.sequence < sequence \/ fund.last <= ledger
           \/ \E t \in floating : t.sequence = fund.sequence
        /\ fund' = FundIdle /\ UNCHANGED <<floating, unseen>>
  /\ UNCHANGED <<seed, address, fundRuns, misread>> /\ FundUnchanged

BugFundSeenFound ==
  /\ fund.at = "poll" /\ RpcUp /\ Payment \in floating \cup applied
  /\ fund' = [fund EXCEPT !.at = "done"]
  /\ UNCHANGED <<seed, address, fundRuns, unseen, misread, floating>> /\ FundUnchanged
(* tx, every two seconds: seen validated with success, ...                 *)
FundSeen ==
  /\ fund.at = "poll" /\ RpcUp /\ Payment \in applied
  /\ fund' = [fund EXCEPT !.at = "done"]
  /\ UNCHANGED <<seed, address, fundRuns, unseen, misread, floating>> /\ FundUnchanged

(* ... or with another result, which ends the run with an error.           *)
FundRefused ==
  /\ fund.at = "poll" /\ RpcUp /\ Payment \in failed
  /\ fund' = FundIdle
  /\ UNCHANGED <<seed, address, fundRuns, unseen, misread, floating>> /\ FundUnchanged

(* SystemExit (an error answer of any call but account_info and tx, or the *)
(* end of the 90 seconds), an exception of urlopen, or a kill.             *)
FundKilled ==
  /\ fund.at \notin {"idle", "done"}
  /\ fund' = FundIdle
  /\ unseen' = IF fund.at = "poll" THEN unseen + 1 ELSE unseen
  /\ UNCHANGED <<seed, address, fundRuns, misread, floating>> /\ FundUnchanged

Fund ==
  \/ FundStart \/ FundPropose \/ FundOpenSeed \/ FundWriteSeed \/ FundOpenAddress \/ FundAddress
  \/ FundInfo \/ FundRoot \/ FundServer \/ FundSubmit \/ FundSeen \/ FundRefused \/ FundKilled

Network ==
  \/ NetStart \/ NetConfig \/ NetUnl \/ NetChmod \/ NetKilled
  \/ \E n \in Nodes : NetKeys(n) \/ NetToken(n)

Next ==
  \/ Network \/ Fund
  \/ ComposeUp \/ ComposeDown \/ ValidateNone \/ ValidatePayment
  \/ \E n \in Nodes : Boot(n) \/ Stop(n)

Spec == Init /\ [][Next]_vars
-----------------------------------------------------------------------------
TypeOK ==
  /\ key \in [Validators -> Nat] /\ issued \in [Validators -> Nat]
  /\ config \in [Nodes -> Files] /\ running \in [Nodes -> Files] /\ up \in BOOLEAN
  /\ net \in [at : {"idle", "keys", "token", "config", "unl", "chmod", "done"},
              todo : SUBSET Nodes, node : Nodes, keys : [Validators -> Nat]]
  /\ ledger \in Nat /\ sequence \in Nat
  /\ floating \subseteq Payments /\ applied \subseteq Payments /\ failed \subseteq Payments
  /\ seed \in [exists : BOOLEAN, wallet : Wallets \cup {NoWallet}]
  /\ address \in Wallets \cup {NoWallet}
  /\ fund \in [at : {"idle", "propose", "open", "seed", "address", "written", "info", "root",
                     "server", "submit", "poll", "done"},
               wallet : Wallets \cup {NoWallet}, sequence : Nat, last : Nat]
  /\ netRuns \in Nat /\ fundRuns \in Nat /\ unseen \in Nat /\ misread \in Nat

(* Any two running nodes trust the same keys, and these are the keys of    *)
(* the key files, whatever runs were killed between two files and whichever *)
(* nodes were restarted meanwhile: the first loop reads every key before    *)
(* the second one writes any (init_xrpl_network.py:67-79).                  *)
TrustAgrees == \A n \in Nodes : running[n] # Down => running[n].unl = key

(* A run that ends well leaves every node with both files, their mode, and *)
(* the last token of its own key, whatever earlier runs left behind.       *)
FinishedIsComplete ==
  net.at = "done" =>
    \A n \in Nodes :
      /\ config[n].private /\ config[n].unl = key /\ Whole(config[n])
      /\ n \in Validators => config[n].token = issued[n] /\ key[n] > 0 /\ issued[n] > 0

(* "keys and tokens that already exist are kept, never regenerated"        *)
(* (init_xrpl_network.py:11): the token of a configuration stays.          *)
TokensKept ==
  [][\A v \in Validators : config[v].token > 0 => config'[v].token = config[v].token]_vars

(* Money only goes to an account whose seed is on the disk, although the   *)
(* run may be killed between any two of its steps                          *)
(* (init_anchoring_account.py:49-56 before :86).  Its address need not be: *)
(* every run empties address.txt before it writes it again (:58).          *)
FundedHasSeed == \A t \in floating \cup applied : seed.wallet = t.to

(* However often it is run again, the account is paid once, and once more  *)
(* at most for each run that ended without seeing what became of its       *)
(* payment (init_anchoring_account.py:87-101) or took an error of          *)
(* account_info for an account without money (:28, 60-61).                 *)
PaidOnceUnlessUnseen == Cardinality(applied) <= 1 + unseen + misread

(* A run that reports the account funded has left its address and its seed *)
(* (init_anchoring_account.py:61-64, 102-104).                             *)
ReportedIsFunded ==
  fund.at = "done" => seed.wallet = fund.wallet /\ address = fund.wallet /\ PaidTo(address) # {}

=============================================================================
