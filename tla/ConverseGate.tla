----------------------------- MODULE ConverseGate -----------------------------
(***************************************************************************)
(* A turn's way to the merchant agent: the gateway's rate limit, then the  *)
(* mandate checks of the async worker, which reads the merchant's trusted  *)
(* issuers through MerchantCache.  All requests are of one consumer agent; *)
(* buckets of others are independent.  Time passes in ticks shorter than a *)
(* second: the worker compares whole seconds, Redis and the gateway do     *)
(* not.                                                                    *)
(***************************************************************************)
EXTENDS MerchantCache, Sequences, FiniteSetsExt

CONSTANTS
  Mandates,       \* mandates a request may carry: signature, issuer, issued_at
  GlobalIssuers,  \* trusted_mandate_issuers
  TicksPerSecond,
  RateLimit,      \* rate_limit_per_minute
  Window,         \* 60 seconds, in ticks
  MaxAge,         \* mandate_max_age_seconds
  SeenTtl,        \* lifetime of mandate:seen:{hash}, in ticks
  MaxTime         \* bound on the clock

Signatures == {m.signature : m \in Mandates}

ASSUME GateAssumption ==
  /\ Mandates \subseteq [signature: Signatures, issuer: Issuers, issued: Nat]
  /\ GlobalIssuers \subseteq Issuers
  /\ TicksPerSecond \in Nat \ {0}
  /\ RateLimit \in Nat /\ Window \in Nat /\ MaxAge \in Nat /\ SeenTtl \in Nat
  /\ MaxTime \in Nat

VARIABLES
  fallback,  \* allow_global_trusted_issuers_fallback
  now,       \* the clock, in ticks
  bucket,    \* _rate_limit_buckets of the consumer agent
  admitted,  \* times the gateway let a request in, since it started
  limited,   \* times it did not
  pc,        \* where each request is
  mandate,   \* the mandate of each request
  named,     \* whether the request names the merchant
  trusted,   \* the issuers a request is checked against
  listed,    \* history: issuers that some version of the row has named
  basis,     \* the issuers that list may have, by the row and its history
  checked,   \* when the age of the mandate was checked
  seenAt     \* when mandate:seen of a signature was last set

gateVars == <<bucket, admitted, limited>>
claimVars == <<mandate, named, trusted, basis, checked>>
vars == <<merchantVars, faults, fallback, now, gateVars, pc, claimVars, seenAt,
          listed>>

(* The issuers the row names.                                              *)
Named == IF row = NoValue THEN {} ELSE row.issuers

Init ==
  /\ MerchantInit
  /\ fallback \in BOOLEAN
  /\ now = 0
  /\ bucket = <<>> /\ admitted = <<>> /\ limited = {}
  /\ pc = [r \in Requests |-> "idle"]
  /\ mandate = [r \in Requests |-> NoValue]
  /\ named = [r \in Requests |-> FALSE]
  /\ trusted = [r \in Requests |-> {}]
  /\ basis = [r \in Requests |-> {}]
  /\ checked = [r \in Requests |-> 0]
  /\ seenAt = [s \in Signatures |-> NoValue]
  /\ listed = Named

Goes(r, where) == pc' = [pc EXCEPT ![r] = where]

(* A request that was answered: what it held is gone.                      *)
Ends(r, where) ==
  /\ Goes(r, where)
  /\ mandate' = [mandate EXCEPT ![r] = NoValue]
  /\ named' = [named EXCEPT ![r] = FALSE]
  /\ trusted' = [trusted EXCEPT ![r] = {}]
  /\ basis' = [basis EXCEPT ![r] = {}]
  /\ checked' = [checked EXCEPT ![r] = 0]

Tick ==
  /\ now < MaxTime
  /\ now' = now + 1
  /\ UNCHANGED <<merchantVars, faults, gateVars, pc, claimVars, seenAt>>
-----------------------------------------------------------------------------
(* Entries leave from the front, up to the first one that counts.          *)
From(b, counts) == IF counts = {} THEN <<>> ELSE SubSeq(b, Min(counts), Len(b))

(* Mutant: an entry leaves as soon as it is as old as the window.          *)
MutRecent(b) == From(b, {k \in 1..Len(b) : b[k] + Window > now})

(* _is_rate_limited.  Entries older than the window leave.                 *)
Recent(b) == From(b, {k \in 1..Len(b) : b[k] + Window >= now})

Enter(r, m, n) ==
  /\ pc[r] = "idle"
  /\ IF Len(Recent(bucket)) >= RateLimit
       THEN /\ bucket' = Recent(bucket)
            /\ limited' = limited \union {now}
            /\ Goes(r, "limited")
            /\ UNCHANGED <<admitted, mandate, named>>
       ELSE /\ bucket' = Append(Recent(bucket), now)
            /\ admitted' = Append(admitted, now)
            /\ Goes(r, "verify")
            /\ mandate' = [mandate EXCEPT ![r] = m]
            /\ named' = [named EXCEPT ![r] = n]
            /\ UNCHANGED limited
  /\ UNCHANGED <<merchantVars, faults, now, trusted, basis, checked, seenAt>>

(* The buckets are in the memory of the gateway.                           *)
RestartGateway ==
  /\ Fault
  /\ bucket' = <<>> /\ admitted' = <<>> /\ limited' = {}
  /\ UNCHANGED <<merchantVars, now, pc, claimVars, seenAt>>

(* The worker cannot be reached: WORKER_UNAVAILABLE.                       *)
WorkerUnavailable(r) ==
  /\ pc[r] = "verify"
  /\ Fault
  /\ Ends(r, "unavailable")
  /\ UNCHANGED <<merchantVars, now, gateVars, seenAt>>
-----------------------------------------------------------------------------
(* verify_mandate raises: the refusal is audited.                          *)
Refused(r) == Ends(r, "refused")

(* What the list of a named merchant may have: the issuers its row names,  *)
(* and those an earlier version named while the key lags behind the row (a *)
(* write is due, failed, or was made from an overtaken copy); the global   *)
(* ones for a merchant that is not known, where the settings allow it.     *)
Basis ==
  IF row = NoValue THEN (IF fallback THEN GlobalIssuers ELSE {})
  ELSE IF wrote # {} \/ "issuers" \in torn THEN listed
  ELSE row.issuers

(* Mutant: the merchant's issuers are trusted besides the global ones.     *)
MutTrusts(r, list) ==
  /\ trusted' = [trusted EXCEPT ![r] = list \union GlobalIssuers]
  /\ basis' = [basis EXCEPT ![r] = IF named[r] THEN Basis ELSE GlobalIssuers]
  /\ named' = [named EXCEPT ![r] = FALSE]
  /\ Goes(r, "claims")

Trusts(r, list) ==
  /\ trusted' = [trusted EXCEPT ![r] = list]
  /\ basis' = [basis EXCEPT ![r] = IF named[r] THEN Basis ELSE GlobalIssuers]
  /\ named' = [named EXCEPT ![r] = FALSE]
  /\ Goes(r, "claims")

LoadIssuers(r) ==
  /\ pc[r] = "verify"
  /\ \/ /\ ~named[r]
        /\ Trusts(r, GlobalIssuers)
        /\ UNCHANGED merchantVars
     \/ /\ named[r] /\ issuersKey # NoValue
        /\ Trusts(r, issuersKey)
        /\ UNCHANGED merchantVars
     \/ /\ named[r] /\ issuersKey = NoValue
        /\ BeginSync(r)
        /\ Goes(r, "sync")
        /\ UNCHANGED <<row, credsKey, issuersKey, copy, op, wrote, late, torn,
                       named, trusted, basis>>
  /\ UNCHANGED <<faults, now, gateVars, mandate, checked, seenAt>>

(* _load_merchant_trusted_issuers without a key: the row, the sync, and    *)
(* the key once more, which is there then.  A merchant that is not in the  *)
(* table has no issuers.                                                   *)
ReadMerchant(r) ==
  /\ pc[r] = "sync"
  /\ ReadRow(r)
  /\ \/ Synced(r) /\ UNCHANGED <<pc, claimVars>>
     \/ ~Synced(r) /\ fallback /\ Trusts(r, GlobalIssuers) /\ UNCHANGED <<mandate, checked>>
     \/ ~Synced(r) /\ ~fallback /\ Refused(r)
  /\ UNCHANGED <<now, gateVars, seenAt>>

SyncMerchant(r) ==
  /\ pc[r] = "sync"
  /\ \/ SetCreds(r) /\ UNCHANGED pc
     \/ SetIssuers(r) /\ Goes(r, "again")
  /\ UNCHANGED <<now, gateVars, claimVars, seenAt>>

ReadIssuersAgain(r) ==
  /\ pc[r] = "again"
  /\ Trusts(r, issuersKey)
  /\ UNCHANGED <<merchantVars, faults, now, gateVars, mandate, checked, seenAt>>
-----------------------------------------------------------------------------
Second == now \div TicksPerSecond

Valid(m, issuers) ==
  /\ m.issuer \in issuers
  /\ m.issued <= Second
  /\ Second - m.issued <= MaxAge

CheckClaims(r) ==
  /\ pc[r] = "claims"
  /\ \/ /\ Valid(mandate[r], trusted[r])
        /\ checked' = [checked EXCEPT ![r] = now]
        /\ trusted' = [trusted EXCEPT ![r] = {}]
        /\ Goes(r, "get")
        /\ UNCHANGED <<mandate, named, basis>>
     \/ /\ ~Valid(mandate[r], trusted[r])
        /\ Refused(r)
  /\ UNCHANGED <<merchantVars, faults, now, gateVars, seenAt>>

(* Mutant: the lifetime of the key is given in the wrong unit.             *)
MutSeen(s) == seenAt[s] # NoValue /\ now < seenAt[s] + SeenTtl \div TicksPerSecond

Seen(s) == seenAt[s] # NoValue /\ now <= seenAt[s] + SeenTtl

GetSeen(r) ==
  /\ pc[r] = "get"
  /\ \/ /\ Seen(mandate[r].signature)
        /\ Refused(r)
     \/ /\ ~Seen(mandate[r].signature)
        /\ checked' = [checked EXCEPT ![r] = 0]
        /\ Goes(r, "set")
        /\ UNCHANGED <<mandate, named, trusted, basis>>
  /\ UNCHANGED <<merchantVars, faults, now, gateVars, seenAt>>

SetSeen(r) ==
  /\ pc[r] = "set"
  /\ seenAt' = [seenAt EXCEPT ![mandate[r].signature] = now]
  /\ Goes(r, "accepted")
  /\ UNCHANGED <<merchantVars, faults, now, gateVars, claimVars>>

(* Redis fails, before or after a SET took effect; any exception refuses   *)
(* the mandate.  The audit may be lost with it.                            *)
VerifyFails(r) ==
  /\ pc[r] \in {"verify", "again", "get", "set"}
  /\ Fault
  /\ Refused(r) \/ Ends(r, "unaudited")
  /\ \/ UNCHANGED seenAt
     \/ pc[r] = "set" /\ seenAt' = [seenAt EXCEPT ![mandate[r].signature] = now]
  /\ UNCHANGED <<merchantVars, now, gateVars>>

VerifySyncFails(r) ==
  /\ pc[r] = "sync"
  /\ SyncFails(r)
  /\ Refused(r) \/ Ends(r, "unaudited")
  /\ UNCHANGED <<now, gateVars, seenAt>>

(* forward_to_agent, with mandate_verified.  The mandate is spent also     *)
(* when the agent does not answer.                                         *)
ForwardToAgent(r) ==
  /\ pc[r] = "accepted"
  /\ \/ Ends(r, "forwarded") /\ UNCHANGED faults
     \/ Ends(r, "no_agent") /\ Fault
  /\ UNCHANGED <<merchantVars, now, gateVars, seenAt>>

RequestStep(r) ==
  \/ \E m \in Mandates, n \in BOOLEAN : Enter(r, m, n)
  \/ WorkerUnavailable(r) \/ LoadIssuers(r) \/ ReadMerchant(r) \/ SyncMerchant(r)
  \/ ReadIssuersAgain(r) \/ CheckClaims(r) \/ GetSeen(r) \/ SetSeen(r)
  \/ VerifyFails(r) \/ VerifySyncFails(r) \/ ForwardToAgent(r)

MerchantStep ==
  /\ \E o \in Ops : OpStep(o)
  /\ UNCHANGED <<now, gateVars, pc, claimVars, seenAt>>

Next ==
  /\ \/ Tick
     \/ RestartGateway
     \/ MerchantStep
     \/ \E r \in Requests : RequestStep(r)
  /\ UNCHANGED fallback
  /\ listed' = listed \union Named'

Spec == Init /\ [][Next]_vars
-----------------------------------------------------------------------------
(* Every variable has values of its type.                                  *)
TypeOK ==
  /\ MerchantTypeOK
  /\ fallback \in BOOLEAN
  /\ now \in Nat
  /\ bucket \in Seq(Nat) /\ admitted \in Seq(Nat) /\ limited \subseteq Nat
  /\ pc \in [Requests -> {"idle", "limited", "verify", "unavailable", "sync", "again", "claims",
                          "get", "set", "accepted", "refused", "unaudited", "forwarded",
                          "no_agent"}]
  /\ mandate \in [Requests -> Mandates \union {NoValue}]
  /\ named \in [Requests -> BOOLEAN]
  /\ trusted \in [Requests -> SUBSET Issuers] /\ basis \in [Requests -> SUBSET Issuers]
  /\ checked \in [Requests -> Nat]
  /\ seenAt \in [Signatures -> Nat \union {NoValue}]
  /\ listed \subseteq Issuers

(* The rate limit is exact while the gateway runs: no window of 60 seconds *)
(* has more than rate_limit_per_minute requests let in, and a request is   *)
(* only turned away when the window that ends with it has that many.       *)
GateIsExact ==
  /\ \A k \in 1..Len(admitted) :
       k + RateLimit <= Len(admitted) => admitted[k + RateLimit] > admitted[k] + Window
  /\ \A t \in limited :
       RateLimit <= Cardinality({k \in 1..Len(admitted) :
                                   admitted[k] <= t /\ t <= admitted[k] + Window})

(* A request that looks a signature up after it was spent gets through     *)
(* only if the first use was within a second of the issue (and of the time *)
(* between the age check and the GET): the age is counted in whole         *)
(* seconds, the lifetime of the key is not.  Requests that look it up      *)
(* before either spends it are not covered: they all get through.          *)
LaterUseOnlyAtEdge ==
  [][\A r \in Requests :
       LET m == mandate[r] IN
       pc[r] = "get" /\ pc'[r] = "set" /\ seenAt[m.signature] # NoValue =>
         seenAt[m.signature] + SeenTtl + checked[r]
           < (m.issued + MaxAge + 1) * TicksPerSecond + now]_vars

(* docs/HOW_THE_AGENT_BUILT_THIS.md: "Same signature used twice", "Second  *)
(* use rejected".  So no two turns stand accepted on one signature.        *)
SecondUseRejected ==
  \A r, q \in Requests : pc[r] = "accepted" /\ pc[q] = "accepted" /\ r # q =>
    mandate[r].signature # mandate[q].signature

(* A turn that names a merchant reaches the agent only with an issuer the  *)
(* merchant's row named when the list was read: the list replaces the      *)
(* global one, which counts only for a merchant that is not known, where   *)
(* the settings allow it, and for a turn that names none.  While the key   *)
(* lags behind the row, an issuer of an earlier version counts too: after  *)
(* an update whose write was overtaken or failed that is for good, until   *)
(* the next sync.                                                          *)
AcceptedWasTrusted ==
  \A r \in Requests : pc[r] \in {"set", "accepted"} => mandate[r].issuer \in basis[r]
===============================================================================
