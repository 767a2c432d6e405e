----------------------------- MODULE MerchantCache ----------------------------
(***************************************************************************)
(* A merchant's row and its two Redis keys, merchant:{id}:razorpay_creds   *)
(* and merchant:{id}:trusted_issuers.  Every sync_merchant_cache writes    *)
(* the keys one after the other from a copy of the row read before; the    *)
(* keys do not expire.  Syncs are made by sign-up, login and profile       *)
(* updates of the auth service, by the credential store of the payment     *)
(* service and by the mandate verifier when a key is missing.              *)
(***************************************************************************)
EXTENDS Naturals, FiniteSets

CONSTANTS
  Ops,        \* requests to the auth service and look-ups of credentials
  Requests,   \* turns that come in at the gateway
  Issuers,    \* mandate issuers
  IssuerLists,\* lists of trusted issuers a merchant may give
  Creds,      \* Razorpay credentials: a pair of id and secret, both set; a new id or
              \* secret alone makes another pair, and half a pair is NoValue
  MaxFaults,  \* bound on failed calls
  NoValue

(* A merchant always has an issuer (resolved_trusted_issuers refuses an    *)
(* empty list); credentials are optional.                                  *)
ASSUME MerchantAssumption ==
  /\ Ops \intersect Requests = {}
  /\ IssuerLists \subseteq (SUBSET Issuers) \ {{}}
  /\ NoValue \notin Creds \union IssuerLists
  /\ NoValue \notin [issuers: IssuerLists, creds: Creds \union {NoValue}]
  /\ MaxFaults \in Nat

Procs == Ops \union Requests
Merchants == [issuers: IssuerLists, creds: Creds \union {NoValue}]

VARIABLES
  row,         \* the row of the merchant, NoValue before it signs up
  credsKey,    \* merchant:{id}:razorpay_creds
  issuersKey,  \* merchant:{id}:trusted_issuers
  sync,        \* how far each process is with a sync
  copy,        \* the row as each process has read it
  op,          \* what an Op is doing
  wrote,       \* processes that changed the row and have not synced it yet
  late,        \* processes whose copy another commit has overtaken
  torn,        \* keys last written from an overtaken copy, or not at all
  faults

merchantVars == <<row, credsKey, issuersKey, sync, copy, op, wrote, late, torn>>

MerchantInit ==
  /\ row \in Merchants \union {NoValue}
  /\ credsKey = NoValue /\ issuersKey = NoValue
  /\ sync = [p \in Procs |-> "none"]
  /\ copy = [p \in Procs |-> NoValue]
  /\ op = [o \in Ops |-> "idle"]
  /\ wrote = {} /\ late = {} /\ torn = {}
  /\ faults = 0

Fault == faults < MaxFaults /\ faults' = faults + 1
-----------------------------------------------------------------------------
(* A SELECT of the merchant, after which it is synced.                     *)
BeginSync(p) == sync' = [sync EXCEPT ![p] = "row"]

EndSync(p) ==
  /\ sync' = [sync EXCEPT ![p] = "none"]
  /\ copy' = [copy EXCEPT ![p] = NoValue]
  /\ wrote' = wrote \ {p}
  /\ late' = late \ {p}

(* Nothing is synced of a merchant that is not there, and the credential   *)
(* store leaves one without credentials alone.                             *)
Synced(p) == row # NoValue /\ (p \in Ops /\ op[p] = "lookup" => row.creds # NoValue)

ReadRow(p) ==
  /\ sync[p] = "row"
  /\ IF Synced(p)
       THEN /\ sync' = [sync EXCEPT ![p] = "creds"]
            /\ copy' = [copy EXCEPT ![p] = row]
            /\ UNCHANGED <<wrote, late>>
       ELSE EndSync(p)
  /\ UNCHANGED <<row, credsKey, issuersKey, op, torn, faults>>

SetCreds(p) ==
  /\ sync[p] = "creds"
  /\ credsKey' = copy[p].creds
  /\ torn' = IF p \in late THEN torn \union {"creds"} ELSE torn \ {"creds"}
  /\ sync' = [sync EXCEPT ![p] = "issuers"]
  /\ UNCHANGED <<row, issuersKey, copy, op, wrote, late, faults>>

SetIssuers(p) ==
  /\ sync[p] = "issuers"
  /\ issuersKey' = copy[p].issuers
  /\ torn' = IF p \in late THEN torn \union {"issuers"} ELSE torn \ {"issuers"}
  /\ EndSync(p)
  /\ UNCHANGED <<row, credsKey, op, faults>>

(* Redis or the database fails.  Keys of a changed row that were not       *)
(* written stay as they are.                                               *)
SyncFails(p) ==
  /\ Fault
  /\ sync[p] # "none"
  /\ torn' = torn \union (IF p \notin wrote THEN {}
                          ELSE IF sync[p] = "issuers" THEN {"issuers"} ELSE {"creds", "issuers"})
  /\ EndSync(p)
  /\ UNCHANGED <<row, credsKey, issuersKey, op>>
-----------------------------------------------------------------------------
(* Mutant: the keys are written from the row as it was before the commit.  *)
MutCommitCopiesFirst(p, new) ==
  /\ row' = new
  /\ copy' = [copy EXCEPT ![p] = IF row = NoValue THEN new ELSE row]
  /\ wrote' = wrote \union {p}
  /\ late' = late \union {q \in Procs : sync[q] \in {"creds", "issuers"}}
  /\ sync' = [sync EXCEPT ![p] = "creds"]
  /\ UNCHANGED <<credsKey, issuersKey, torn, faults>>

(* A commit of the row by p.  The copy of p is read afterwards.            *)
Commit(p, new) ==
  /\ row' = new
  /\ wrote' = wrote \union {p}
  /\ late' = late \union {q \in Procs : sync[q] \in {"creds", "issuers"}}
  /\ BeginSync(p)
  /\ UNCHANGED <<credsKey, issuersKey, copy, torn, faults>>

Starts(o, what) == op[o] = "idle" /\ op' = [op EXCEPT ![o] = what]

SignUp(o, m) ==
  /\ Starts(o, "signup")
  /\ row = NoValue
  /\ Commit(o, m)

(* Mutant: an update may leave the merchant without an issuer.             *)
MutUpdated(m, columns) ==
  [c \in DOMAIN row |-> IF c \in columns THEN m[c] ELSE IF c = "issuers" THEN {} ELSE row[c]]

(* update_profile writes the columns its request names.                    *)
Updated(m, columns) == [c \in DOMAIN row |-> IF c \in columns THEN m[c] ELSE row[c]]

UpdateProfile(o, m) ==
  /\ Starts(o, "update")
  /\ row # NoValue
  /\ \E columns \in SUBSET DOMAIN row : Commit(o, Updated(m, columns))

Login(o) ==
  /\ Starts(o, "login")
  /\ row # NoValue
  /\ BeginSync(o)
  /\ UNCHANGED <<row, credsKey, issuersKey, copy, wrote, late, torn, faults>>

(* get_credentials: what the key has, else the row.  A key without an id   *)
(* or a secret counts as missing.                                          *)
GetCredentials(o) ==
  /\ Starts(o, "lookup")
  /\ IF credsKey # NoValue THEN UNCHANGED sync ELSE BeginSync(o)
  /\ UNCHANGED <<row, credsKey, issuersKey, copy, wrote, late, torn, faults>>

OpStep(o) ==
  \/ ReadRow(o) \/ SetCreds(o) \/ SetIssuers(o) \/ SyncFails(o)
  \/ Login(o) \/ GetCredentials(o)
  \/ \E m \in Merchants : SignUp(o, m) \/ UpdateProfile(o, m)
-----------------------------------------------------------------------------
(* Every variable has values of its type.                                  *)
MerchantTypeOK ==
  /\ row \in Merchants \union {NoValue}
  /\ credsKey \in Creds \union {NoValue}
  /\ issuersKey = NoValue \/ issuersKey \subseteq Issuers
  /\ sync \in [Procs -> {"none", "row", "creds", "issuers"}]
  /\ copy \in [Procs -> Merchants \union {NoValue}]
  /\ op \in [Ops -> {"idle", "signup", "update", "login", "lookup"}]
  /\ wrote \subseteq Procs /\ late \subseteq Procs
  /\ torn \subseteq {"creds", "issuers"}
  /\ faults \in Nat

(* Both keys say what the row says, although they are written one after    *)
(* the other and after the commit: a key differs only while the process    *)
(* that changed the row has its sync to do, or when the last write of the  *)
(* key came from a copy read before the change, or failed.                 *)
KeysAgree ==
  row # NoValue /\ wrote = {} =>
    /\ credsKey \in {NoValue, row.creds} \/ "creds" \in torn
    /\ issuersKey \in {NoValue, row.issuers} \/ "issuers" \in torn
===============================================================================
