---------------------------- MODULE Marketplace ----------------------------
(***************************************************************************)
(* Users, listings, negotiations and agreements of a tenant, as the        *)
(* marketplace drivers (smoke.py, marketplace_e2e.py, multitenant.py) and  *)
(* the fixtures of the community drivers fix them.                         *)
(*                                                                         *)
(* External: the service is another repository.  A request is a record, an *)
(* answer its HTTP status.  The refusals and their place among the others  *)
(* are those the drivers observe, with one exception: a counter offer, an  *)
(* acceptance or a refusal made from an older version of the negotiation   *)
(* is refused like the edit of a listing (smoke.py:51), which no driver    *)
(* tries.                                                                  *)
(***************************************************************************)
EXTENDS Integers, Sequences, FiniteSets

CONSTANTS
  Users,      \* accounts, the platform's administrator "admin" among them
  Granted,    \* per platform role: the permissions its users' tokens carry
  Listings,   \* identifiers of listings
  Deals       \* identifiers of negotiations

ASSUME MarketplaceAssumption ==
  /\ {"admin", "nobody"} \subseteq Users /\ IsFiniteSet(Users)
  /\ "NONE" \in DOMAIN Granted /\ Granted["NONE"] = {}

VARIABLES
  user,     \* per account: tenant, platform role, rank in the tenant
  listing,  \* per listing: owner, tenant, status, version
  deal      \* per negotiation: listing, buyer, author of the head offer, version, status

market == <<user, listing, deal>>

Tenants == {"A", "B"}
Ranks   == {"owner", "admin", "user", "readonly", "service"}
NoUser    == [tenant |-> "NONE", role |-> "NONE", rank |-> "user"]
NoListing == [owner |-> "nobody", tenant |-> "NONE", status |-> "NONE", version |-> 0]
NoDeal    == [listing |-> 0, buyer |-> "nobody", head |-> "nobody", version |-> 0,
              status |-> "NONE", amount |-> 0, shared |-> FALSE]

MarketInit ==
  /\ user = [u \in Users |-> IF u = "admin" THEN [NoUser EXCEPT !.tenant = "PLATFORM"] ELSE NoUser]
  /\ listing = [l \in Listings |-> NoListing]
  /\ deal = [d \in Deals |-> NoDeal]

(* Who asks, by the token: the platform's administrator reaches every      *)
(* tenant with every permission, anybody else one tenant with the          *)
(* permissions of a role.                                                  *)
Anonymous(r) == user[r.by].tenant = "NONE"
Belongs(r)   == r.by = "admin" \/ user[r.by].tenant = r.tenant
Holds(u, permission) == u = "admin" \/ permission \in Granted[user[u].role]

Parties(d) == {deal[d].buyer, listing[deal[d].listing].owner}

ListingOps == {"read_listing", "edit", "close"}
DealOps    == {"counter", "accept", "decline", "read_deal", "read_agreement"}
MarketOps  == ListingOps \cup DealOps \cup {"list", "publish", "offer"}

(* 400: the body names an owner.  403: two headers name different tenants. *)
ForgesOwner(r) == r.op = "publish" /\ r.kind = "FORGED"
Contradicts(r) == r.op = "list" /\ r.kind = "CONTRADICTORY"

(* 404: what is another tenant's, or between two others, is not there. *)
HiddenThing(r) ==
  \/ r.op \in ListingOps /\ listing[r.id].tenant # r.tenant
  \/ r.op = "offer" /\ listing[r.of].tenant # r.tenant
  \/ r.op \in {"edit", "close"} /\ listing[r.id].owner # r.by
  \/ r.op \in DealOps /\ (deal[r.id].status = "NONE" \/ r.by \notin Parties(r.id))
  \/ r.op = "read_agreement" /\ deal[r.id].status # "ACCEPTED"

(* 409: the request was made from an older version, or by who made the     *)
(* offer that stands.  A listing that is closed closes once more.          *)
Stale(r) ==
  \/ r.op = "edit" /\ (listing[r.id].status # "ACTIVE" \/ listing[r.id].version # r.version)
  \/ r.op = "close" /\ listing[r.id].status = "ACTIVE" /\ listing[r.id].version # r.version
  \/ r.op = "offer" /\ (listing[r.of].status # "ACTIVE" \/ deal[r.id].status # "NONE")
  \/ r.op = "publish" /\ listing[r.id].status # "NONE"
  \/ /\ r.op \in {"counter", "accept", "decline"}
     /\ \/ deal[r.id].status # "OPEN" \/ deal[r.id].version # r.version
        \/ r.op # "decline" /\ deal[r.id].head = r.by

-----------------------------------------------------------------------------
(* Fixtures.  make_user logs in after the role is assigned: the token      *)
(* keeps the permissions of that moment.  A rank is written into the table *)
(* and counts at once.                                                     *)
Provision(r) ==
  /\ user' = [user EXCEPT ![r.who] = [tenant |-> r.tenant, role |-> r.kind, rank |-> "user"]]
  /\ UNCHANGED <<listing, deal>>
Rank(r) == user' = [user EXCEPT ![r.who].rank = r.kind] /\ UNCHANGED <<listing, deal>>

Publish(r) ==
  /\ listing' = [listing EXCEPT ![r.id] =
       [owner |-> r.by, tenant |-> r.tenant, status |-> "ACTIVE", version |-> 0]]
  /\ UNCHANGED <<user, deal>>
Edit(r) == listing' = [listing EXCEPT ![r.id].version = @ + 1] /\ UNCHANGED <<user, deal>>
Close(r) ==
  /\ listing' = IF listing[r.id].status = "CLOSED" THEN listing
                ELSE [listing EXCEPT ![r.id].status = "CLOSED", ![r.id].version = @ + 1]
  /\ UNCHANGED <<user, deal>>

Offer(r) ==
  /\ deal' = [deal EXCEPT ![r.id] = [listing |-> r.of, buyer |-> r.by, head |-> r.by, version |-> 0,
                                     status |-> "OPEN", amount |-> r.n, shared |-> r.share]]
  /\ UNCHANGED <<user, listing>>
Counter(r) ==
  /\ deal' = [deal EXCEPT ![r.id].head = r.by, ![r.id].version = @ + 1, ![r.id].amount = r.n]
  /\ UNCHANGED <<user, listing>>
Ends(r, status) ==
  /\ deal' = [deal EXCEPT ![r.id].status = status, ![r.id].version = @ + 1]
  /\ UNCHANGED <<user, listing>>

MarketStep(r) ==
  \/ r.op = "provision" /\ Provision(r)
  \/ r.op = "rank" /\ Rank(r)
  \/ r.op = "publish" /\ Publish(r)
  \/ r.op = "edit" /\ Edit(r)
  \/ r.op = "close" /\ Close(r)
  \/ r.op = "offer" /\ Offer(r)
  \/ r.op = "counter" /\ Counter(r)
  \/ r.op = "accept" /\ Ends(r, "ACCEPTED")
  \/ r.op = "decline" /\ Ends(r, "DECLINED")
  \/ r.op \in {"list", "read_listing", "read_deal", "read_agreement"} /\ UNCHANGED market
-----------------------------------------------------------------------------
MarketTypeOK ==
  /\ user \in [Users -> [tenant : Tenants \cup {"PLATFORM", "NONE"}, role : DOMAIN Granted, rank : Ranks]]
  /\ listing \in [Listings -> [owner : Users, tenant : Tenants \cup {"NONE"},
                               status : {"NONE", "ACTIVE", "CLOSED"}, version : Nat]]
  /\ deal \in [Deals -> [listing : Listings \cup {0}, buyer : Users, head : Users, version : Nat,
                         status : {"NONE", "OPEN", "ACCEPTED", "DECLINED"}, amount : Nat, shared : BOOLEAN]]
=============================================================================
