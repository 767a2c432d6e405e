-------------------------- MODULE ConverseGateProofs --------------------------
(***************************************************************************)
(* Proofs about a merchant's keys and the gate that trusts them: for any   *)
(* requests, updates, look-ups and failures.                               *)
(***************************************************************************)
EXTENDS ConverseGate, SequenceTheorems, FiniteSetTheorems, WellFoundedInduction, TLAPS

RowType == row \in Merchants \union {NoValue}

ShapeInv ==
  /\ RowType
  /\ sync \in [Procs -> {"none", "row", "creds", "issuers"}]
  /\ DOMAIN copy = Procs
  /\ op \in [Ops -> {"idle", "signup", "update", "login", "lookup"}]
  /\ wrote \subseteq Ops

Writing(p) == sync[p] \in {"creds", "issuers"}

(* A copy that no commit has overtaken is the row.                         *)
CopyInv ==
  /\ \A p \in Procs : Writing(p) => copy[p] \in Merchants /\ row # NoValue
  /\ \A p \in Procs : Writing(p) /\ p \notin late => copy[p] = row
  /\ \A p \in Procs : p \in late => Writing(p)

(* Who has changed the row has its sync to do.                             *)
WroteInv ==
  /\ \A p \in wrote : row # NoValue /\ op[p] \in {"signup", "update"}
  /\ \A p \in Ops : op[p] = "idle" => sync[p] = "none"

(* Which syncs still have to write which key.                              *)
CredsDue == \E p \in wrote : sync[p] \in {"row", "creds"}
IssuersDue == \E p \in wrote : sync[p] \in {"row", "creds", "issuers"}

KeyInv ==
  /\ row = NoValue => issuersKey = NoValue
  /\ row # NoValue =>
       /\ credsKey \in {NoValue, row.creds} \/ "creds" \in torn \/ CredsDue
       /\ issuersKey \in {NoValue, row.issuers} \/ "issuers" \in torn \/ IssuersDue

(* The inductive invariant of the keys.                                    *)
MerchantInv == ShapeInv /\ CopyInv /\ WroteInv /\ KeyInv

LEMMA MerchantStart == MerchantInit => MerchantInv
BY MerchantAssumption
   DEF MerchantInit, MerchantInv, ShapeInv, RowType, CopyInv, WroteInv, KeyInv, Writing, Procs

(* A record of a merchant has its fields.                                  *)
LEMMA MerchantFields ==
  ASSUME NEW m \in Merchants
  PROVE  m # NoValue /\ m.issuers \in IssuerLists /\ m.issuers # NoValue
BY MerchantAssumption DEF Merchants

LEMMA ReadRowKeeps ==
  ASSUME MerchantInv, NEW p \in Procs, ReadRow(p)
  PROVE  MerchantInv'
<1> USE DEF MerchantInv, Writing
<1>1. CASE Synced(p)
  <2>1. /\ sync' = [sync EXCEPT ![p] = "creds"] /\ copy' = [copy EXCEPT ![p] = row]
        /\ UNCHANGED <<wrote, late, row, credsKey, issuersKey, op, torn>>
        /\ sync[p] = "row"
    BY <1>1 DEF ReadRow
  <2>2. ShapeInv'
    BY <2>1 DEF ShapeInv, RowType
  <2>3. CopyInv'
    BY <1>1, <2>1 DEF ShapeInv, RowType, CopyInv, Synced
  <2>4. WroteInv'
    BY <2>1 DEF ShapeInv, WroteInv, Procs
  <2>5. KeyInv'
    BY <2>1 DEF ShapeInv, KeyInv, CredsDue, IssuersDue, Procs
  <2>. QED
    BY <2>2, <2>3, <2>4, <2>5
<1>2. CASE ~Synced(p)
  <2>1. p \notin wrote
    BY <1>2 DEF WroteInv, Synced
  <2>2. /\ sync' = [sync EXCEPT ![p] = "none"] /\ copy' = [copy EXCEPT ![p] = NoValue]
        /\ wrote' = wrote /\ late' = late \ {p}
        /\ UNCHANGED <<row, credsKey, issuersKey, op, torn>>
    BY <1>2, <2>1 DEF ReadRow, EndSync
  <2>3. ShapeInv'
    BY <2>2 DEF ShapeInv, RowType
  <2>4. CopyInv'
    BY <2>2 DEF ShapeInv, CopyInv
  <2>5. WroteInv'
    BY <2>2 DEF ShapeInv, WroteInv, Procs
  <2>6. KeyInv'
    BY <2>1, <2>2 DEF ShapeInv, KeyInv, CredsDue, IssuersDue, Procs
  <2>. QED
    BY <2>3, <2>4, <2>5, <2>6
<1>. QED
  BY <1>1, <1>2

LEMMA SetCredsKeeps ==
  ASSUME MerchantInv, NEW p \in Procs, SetCreds(p)
  PROVE  MerchantInv'
<1> USE DEF MerchantInv, Writing
<1>1. ShapeInv'
  BY DEF ShapeInv, RowType, SetCreds
<1>2. CopyInv'
  BY DEF ShapeInv, CopyInv, SetCreds
<1>3. WroteInv'
  BY DEF ShapeInv, WroteInv, SetCreds, Procs
<1>4. KeyInv'
  <2>1. p \notin late => credsKey' = row.creds
    BY DEF CopyInv, SetCreds
  <2>2. p \in late => "creds" \in torn'
    BY DEF SetCreds
  <2>3. IssuersDue => IssuersDue'
    BY DEF ShapeInv, IssuersDue, SetCreds, Procs
  <2>4. "issuers" \in torn => "issuers" \in torn'
    BY DEF SetCreds
  <2>. QED
    BY <2>1, <2>2, <2>3, <2>4 DEF KeyInv, SetCreds
<1>. QED
  BY <1>1, <1>2, <1>3, <1>4

LEMMA SetIssuersKeeps ==
  ASSUME MerchantInv, NEW p \in Procs, SetIssuers(p)
  PROVE  MerchantInv'
<1> USE DEF MerchantInv, Writing
<1>1. ShapeInv'
  BY DEF ShapeInv, RowType, SetIssuers, EndSync
<1>2. CopyInv'
  BY DEF ShapeInv, CopyInv, SetIssuers, EndSync
<1>3. WroteInv'
  BY DEF ShapeInv, WroteInv, SetIssuers, EndSync, Procs
<1>4. KeyInv'
  <2>1. row # NoValue /\ (p \notin late => issuersKey' = row.issuers)
    BY DEF CopyInv, SetIssuers
  <2>2. p \in late => "issuers" \in torn'
    BY DEF SetIssuers
  <2>3. CredsDue => CredsDue'
    BY DEF ShapeInv, CredsDue, SetIssuers, EndSync, Procs
  <2>4. "creds" \in torn => "creds" \in torn'
    BY DEF SetIssuers
  <2>. QED
    BY <2>1, <2>2, <2>3, <2>4 DEF KeyInv, SetIssuers
<1>. QED
  BY <1>1, <1>2, <1>3, <1>4

LEMMA SyncFailsKeeps ==
  ASSUME MerchantInv, NEW p \in Procs, SyncFails(p)
  PROVE  MerchantInv'
<1> USE DEF MerchantInv, Writing
<1>1. ShapeInv'
  BY DEF ShapeInv, RowType, SyncFails, EndSync
<1>2. CopyInv'
  BY DEF ShapeInv, CopyInv, SyncFails, EndSync
<1>3. WroteInv'
  BY DEF ShapeInv, WroteInv, SyncFails, EndSync, Procs
<1>4. KeyInv'
  <2>1. CredsDue => CredsDue' \/ "creds" \in torn'
    BY DEF ShapeInv, CredsDue, SyncFails, EndSync, Procs
  <2>2. IssuersDue => IssuersDue' \/ "issuers" \in torn'
    BY DEF ShapeInv, IssuersDue, SyncFails, EndSync, Procs
  <2>3. torn \subseteq torn' /\ UNCHANGED <<row, credsKey, issuersKey>>
    BY DEF SyncFails
  <2>. QED
    BY <2>1, <2>2, <2>3 DEF KeyInv
<1>. QED
  BY <1>1, <1>2, <1>3, <1>4

(* A process without a sync begins one.                                    *)
LEMMA BeginKeeps ==
  ASSUME MerchantInv, NEW p \in Procs, sync[p] = "none", BeginSync(p),
         op' \in [Ops -> {"idle", "signup", "update", "login", "lookup"}],
         \A o \in Ops : op'[o] = op[o] \/ (o = p /\ op'[o] # "idle" /\ op[o] = "idle"),
         p \in Ops => op'[p] # "idle",
         UNCHANGED <<row, credsKey, issuersKey, copy, wrote, late, torn>>
  PROVE  MerchantInv'
<1> USE DEF MerchantInv, Writing
<1>1. p \notin wrote \/ op'[p] = op[p]
  BY DEF ShapeInv, WroteInv
<1>2. ShapeInv'
  BY DEF ShapeInv, RowType, BeginSync
<1>3. CopyInv'
  BY DEF ShapeInv, CopyInv, BeginSync
<1>4. WroteInv'
  BY <1>1 DEF ShapeInv, WroteInv, BeginSync, Procs
<1>5. KeyInv'
  BY DEF ShapeInv, KeyInv, CredsDue, IssuersDue, BeginSync, Procs
<1>. QED
  BY <1>2, <1>3, <1>4, <1>5

(* A commit: the copies of the others are overtaken, both keys are due.    *)
LEMMA CommitKeeps ==
  ASSUME MerchantInv, NEW o \in Ops, NEW new \in Merchants, NEW what \in {"signup", "update"},
         Starts(o, what), Commit(o, new)
  PROVE  MerchantInv'
<1> USE DEF MerchantInv, Writing
<1>1. sync[o] = "none" /\ o \in Procs /\ new # NoValue
  BY MerchantFields DEF WroteInv, Starts, Procs
<1>2. ShapeInv'
  BY DEF ShapeInv, RowType, Commit, BeginSync, Starts
<1>3. CopyInv'
  BY <1>1 DEF ShapeInv, CopyInv, Commit, BeginSync
<1>4. WroteInv'
  BY <1>1 DEF ShapeInv, WroteInv, Commit, BeginSync, Starts, Procs
<1>5. CredsDue' /\ IssuersDue'
  BY <1>1 DEF ShapeInv, CredsDue, IssuersDue, Commit, BeginSync
<1>6. KeyInv'
  BY <1>1, <1>5 DEF KeyInv, Commit
<1>. QED
  BY <1>2, <1>3, <1>4, <1>6

LEMMA UnchangedKeeps ==
  ASSUME MerchantInv, UNCHANGED merchantVars
  PROVE  MerchantInv'
BY DEF MerchantInv, ShapeInv, RowType, CopyInv, WroteInv, KeyInv, CredsDue, IssuersDue, Writing,
       merchantVars

(* Every step of the auth service and of the credential store.             *)
LEMMA OpKeeps ==
  ASSUME MerchantInv, NEW o \in Ops, OpStep(o)
  PROVE  MerchantInv'
<1> o \in Procs
  BY DEF Procs
<1>1. CASE ReadRow(o) \/ SetCreds(o) \/ SetIssuers(o) \/ SyncFails(o)
  BY <1>1, ReadRowKeeps, SetCredsKeeps, SetIssuersKeeps, SyncFailsKeeps
<1>2. ASSUME NEW m \in Merchants, SignUp(o, m) PROVE MerchantInv'
  BY <1>2, CommitKeeps DEF SignUp
<1>3. ASSUME NEW m \in Merchants, UpdateProfile(o, m) PROVE MerchantInv'
  <2>1. row \in Merchants
    BY <1>3 DEF MerchantInv, ShapeInv, RowType, UpdateProfile
  <2>2. PICK columns \in SUBSET DOMAIN row : Commit(o, Updated(m, columns))
    BY <1>3 DEF UpdateProfile
  <2>3. Updated(m, columns) \in Merchants
    BY <2>1, <2>2 DEF Updated, Merchants
  <2>. QED
    BY <1>3, <2>2, <2>3, CommitKeeps DEF UpdateProfile
<1>4. ASSUME NEW what \in {"login", "lookup"}, Starts(o, what), BeginSync(o),
             UNCHANGED <<row, credsKey, issuersKey, copy, wrote, late, torn>>
      PROVE  MerchantInv'
  <2>1. sync[o] = "none"
    BY <1>4 DEF MerchantInv, WroteInv, Starts
  <2>2. /\ op' \in [Ops -> {"idle", "signup", "update", "login", "lookup"}]
        /\ \A q \in Ops : op'[q] = op[q] \/ (q = o /\ op'[q] # "idle" /\ op[q] = "idle")
        /\ op'[o] # "idle"
    BY <1>4 DEF MerchantInv, ShapeInv, Starts
  <2>. QED
    BY <1>4, <2>1, <2>2, BeginKeeps
<1>5. CASE Login(o)
  BY <1>4, <1>5 DEF Login
<1>6. CASE GetCredentials(o)
  <2>1. CASE credsKey = NoValue
    BY <1>4, <1>6, <2>1 DEF GetCredentials
  <2>2. CASE credsKey # NoValue
    <3>1. /\ op[o] = "idle" /\ op' = [op EXCEPT ![o] = "lookup"]
          /\ UNCHANGED <<sync, row, credsKey, issuersKey, copy, wrote, late, torn>>
      BY <1>6, <2>2 DEF GetCredentials, Starts
    <3>2. o \notin wrote
      BY <3>1 DEF MerchantInv, WroteInv
    <3>3. ShapeInv' /\ WroteInv'
      BY <3>1, <3>2 DEF MerchantInv, ShapeInv, RowType, WroteInv
    <3>4. CopyInv' /\ KeyInv'
      BY <3>1 DEF MerchantInv, CopyInv, KeyInv, CredsDue, IssuersDue, Writing
    <3>. QED
      BY <3>3, <3>4 DEF MerchantInv
  <2>. QED
    BY <2>1, <2>2
<1>. QED
  BY <1>1, <1>2, <1>3, <1>5, <1>6 DEF OpStep
-----------------------------------------------------------------------------
ClaimShape ==
  /\ DOMAIN pc = Requests /\ DOMAIN mandate = Requests
  /\ named \in [Requests -> BOOLEAN]
  /\ DOMAIN trusted = Requests /\ DOMAIN basis = Requests /\ DOMAIN checked = Requests
  /\ issuersKey # NoValue => issuersKey \subseteq Issuers

(* What a request has established on its way.                              *)
Claim(r) ==
  /\ pc[r] \in {"idle", "verify"} => sync[r] = "none"
  /\ pc[r] \in {"sync", "again"} => named[r]
  /\ pc[r] = "again" => issuersKey # NoValue
  /\ pc[r] = "claims" => trusted[r] \subseteq basis[r]
  /\ pc[r] \in {"get", "set", "accepted"} => mandate[r].issuer \in basis[r]

(* The inductive invariant of the gate.                                    *)
GateInv == MerchantInv /\ ClaimShape /\ \A r \in Requests : Claim(r)

LEMMA GateStart == Init => GateInv
<1> SUFFICES ASSUME Init PROVE GateInv
  OBVIOUS
<1>1. MerchantInv
  BY MerchantStart DEF Init
<1>2. ClaimShape /\ \A r \in Requests : Claim(r)
  BY DEF Init, MerchantInit, ClaimShape, Claim, Procs
<1>. QED
  BY <1>1, <1>2 DEF GateInv

(* Every list in Redis, or on its way there, was in some version of the    *)
(* row.                                                                    *)
ListedInv ==
  /\ row # NoValue => row.issuers \subseteq listed
  /\ \A p \in Procs : Writing(p) => copy[p].issuers \subseteq listed
  /\ issuersKey # NoValue => issuersKey \subseteq listed

(* Where a step takes the copies and the key from.                         *)
FromTheRow ==
  /\ \A p \in Procs : Writing(p)' => \/ Writing(p) /\ copy'[p] = copy[p]
                                     \/ row # NoValue /\ copy'[p] = row
  /\ issuersKey' = issuersKey
       \/ \E p \in Procs : Writing(p) /\ issuersKey' = copy[p].issuers

LEMMA SyncSources ==
  ASSUME MerchantInv, NEW p \in Procs,
         ReadRow(p) \/ SetCreds(p) \/ SetIssuers(p) \/ SyncFails(p)
  PROVE  FromTheRow
<1> USE DEF MerchantInv, ShapeInv, Writing, FromTheRow
<1>1. CASE ReadRow(p)
  <2>1. UNCHANGED issuersKey
    BY <1>1 DEF ReadRow
  <2>2. CASE Synced(p)
    BY <1>1, <2>1, <2>2 DEF ReadRow, Synced
  <2>3. CASE ~Synced(p)
    BY <1>1, <2>1, <2>3 DEF ReadRow, EndSync
  <2>. QED
    BY <2>2, <2>3
<1>2. CASE SetCreds(p)
  BY <1>2 DEF SetCreds
<1>3. CASE SetIssuers(p)
  BY <1>3 DEF SetIssuers, EndSync
<1>4. CASE SyncFails(p)
  BY <1>4 DEF SyncFails, EndSync
<1>. QED
  BY <1>1, <1>2, <1>3, <1>4

(* A sync that begins has nothing of its own yet.                          *)
LEMMA BeginSources ==
  ASSUME MerchantInv, NEW p \in Procs, BeginSync(p) \/ UNCHANGED sync,
         UNCHANGED <<copy, issuersKey>>
  PROVE  FromTheRow
BY DEF MerchantInv, ShapeInv, Writing, FromTheRow, BeginSync

LEMMA OpSources ==
  ASSUME MerchantInv, NEW o \in Ops, OpStep(o)
  PROVE  FromTheRow
<1> o \in Procs
  BY DEF Procs
<1>1. CASE ReadRow(o) \/ SetCreds(o) \/ SetIssuers(o) \/ SyncFails(o)
  BY <1>1, SyncSources
<1>2. ASSUME NEW m \in Merchants, SignUp(o, m) \/ UpdateProfile(o, m) PROVE FromTheRow
  BY <1>2, BeginSources DEF SignUp, UpdateProfile, Commit
<1>3. CASE Login(o) \/ GetCredentials(o)
  BY <1>3, BeginSources DEF Login, GetCredentials
<1>. QED
  BY <1>1, <1>2, <1>3 DEF OpStep

LEMMA RequestSources ==
  ASSUME MerchantInv, NEW r \in Requests, RequestStep(r)
  PROVE  FromTheRow
<1> r \in Procs
  BY DEF Procs
<1>1. ASSUME UNCHANGED merchantVars PROVE FromTheRow
  BY <1>1, BeginSources DEF merchantVars
<1>2. CASE ReadMerchant(r) \/ SyncMerchant(r) \/ VerifySyncFails(r)
  BY <1>2, SyncSources DEF ReadMerchant, SyncMerchant, VerifySyncFails
<1>3. CASE LoadIssuers(r)
  BY <1>1, <1>3, BeginSources DEF LoadIssuers
<1>. QED
  BY <1>1, <1>2, <1>3
     DEF RequestStep, Enter, WorkerUnavailable, ReadIssuersAgain, CheckClaims, GetSeen, SetSeen,
         VerifyFails, ForwardToAgent

LEMMA ListedStart == Init => ListedInv
<1> SUFFICES ASSUME Init PROVE ListedInv
  OBVIOUS
<1>1. issuersKey = NoValue /\ \A p \in Procs : sync[p] = "none"
  BY DEF Init, MerchantInit
<1>. QED
  BY <1>1 DEF Init, Named, ListedInv, Writing

LEMMA ListedStep ==
  ASSUME MerchantInv, ListedInv, [Next]_vars
  PROVE  ListedInv'
<1>1. FromTheRow
  <2>1. ASSUME UNCHANGED merchantVars PROVE FromTheRow
    <3>1. UNCHANGED <<sync, copy, issuersKey>>
      BY <2>1 DEF merchantVars
    <3>. QED
      BY <3>1 DEF FromTheRow, Writing
  <2>. QED
    BY <2>1, OpSources, RequestSources DEF Next, MerchantStep, Tick, RestartGateway, vars
<1>2. listed \subseteq listed' /\ (row' # NoValue => row'.issuers \subseteq listed')
  <2>1. CASE Next
    BY <2>1 DEF Next, Named
  <2>2. CASE UNCHANGED vars
    BY <2>2 DEF vars, merchantVars, ListedInv
  <2>. QED
    BY <2>1, <2>2
<1>3. ASSUME NEW p \in Procs, Writing(p)' PROVE copy'[p].issuers \subseteq listed'
  BY <1>1, <1>2, <1>3 DEF FromTheRow, ListedInv
<1>4. issuersKey' # NoValue => issuersKey' \subseteq listed'
  BY <1>1, <1>2 DEF FromTheRow, ListedInv
<1>. QED
  BY <1>2, <1>3, <1>4 DEF ListedInv

(* The issuers in the key are in the row, or in a version of it before     *)
(* while the key lags behind.                                              *)
LEMMA KeyIsTrusted ==
  ASSUME GateInv, ListedInv, issuersKey # NoValue
  PROVE  issuersKey \subseteq Basis
<1>1. CASE wrote # {} \/ "issuers" \in torn
  BY <1>1 DEF GateInv, MerchantInv, KeyInv, ListedInv, Basis
<1>2. CASE wrote = {} /\ "issuers" \notin torn
  <2>1. row # NoValue /\ ~IssuersDue
    BY <1>2 DEF GateInv, MerchantInv, KeyInv, IssuersDue
  <2>2. issuersKey = row.issuers
    BY <1>2, <2>1 DEF GateInv, MerchantInv, KeyInv
  <2>. QED
    BY <1>2, <2>1, <2>2 DEF Basis
<1>. QED
  BY <1>1, <1>2

(* A key that is there is only replaced by another list.                   *)
KeyStays ==
  /\ issuersKey # NoValue => issuersKey' # NoValue
  /\ issuersKey' # NoValue => issuersKey' \subseteq Issuers

LEMMA SameKeyStays ==
  ASSUME GateInv, UNCHANGED issuersKey
  PROVE  KeyStays
BY DEF GateInv, ClaimShape, KeyStays

LEMMA SetIssuersStays ==
  ASSUME GateInv, NEW p \in Procs, SetIssuers(p)
  PROVE  KeyStays /\ issuersKey' # NoValue
<1>1. copy[p] \in Merchants /\ issuersKey' = copy[p].issuers
  BY DEF GateInv, MerchantInv, CopyInv, Writing, SetIssuers
<1>2. issuersKey' \in IssuerLists /\ issuersKey' # NoValue
  BY <1>1, MerchantFields
<1>. QED
  BY <1>2, MerchantAssumption DEF KeyStays

LEMMA OpStays ==
  ASSUME GateInv, NEW o \in Ops, OpStep(o)
  PROVE  KeyStays /\ \A r \in Requests : sync'[r] = sync[r]
<1> o \in Procs /\ o \notin Requests
  BY MerchantAssumption DEF Procs
<1>1. UNCHANGED issuersKey \/ SetIssuers(o)
  BY DEF OpStep, ReadRow, SetCreds, SyncFails, Login, GetCredentials, SignUp, UpdateProfile, Commit
<1>2. KeyStays
  BY <1>1, SameKeyStays, SetIssuersStays
<1>3. UNCHANGED sync \/ \E v : sync' = [sync EXCEPT ![o] = v]
  BY DEF OpStep, ReadRow, SetCreds, SetIssuers, SyncFails, EndSync, Login, GetCredentials, SignUp,
         UpdateProfile, Commit, BeginSync
<1>4. \A r \in Requests : sync'[r] = sync[r]
  BY <1>3 DEF GateInv, MerchantInv, ShapeInv, Procs
<1>. QED
  BY <1>2, <1>4

(* A step of one request, or of none, does not touch the claims of others. *)
LEMMA ClaimsKeep ==
  ASSUME GateInv, MerchantInv', KeyStays, NEW S \in SUBSET Requests,
         DOMAIN pc' = Requests, DOMAIN mandate' = Requests,
         named' \in [Requests -> BOOLEAN],
         DOMAIN trusted' = Requests, DOMAIN basis' = Requests, DOMAIN checked' = Requests,
         \A q \in Requests \ S :
            /\ pc'[q] = pc[q] /\ sync'[q] = sync[q] /\ named'[q] = named[q]
            /\ trusted'[q] = trusted[q] /\ basis'[q] = basis[q] /\ mandate'[q] = mandate[q],
         \A q \in S : Claim(q)'
  PROVE  GateInv'
<1>1. ClaimShape'
  BY DEF ClaimShape, KeyStays
<1>2. ASSUME NEW q \in Requests \ S PROVE Claim(q)'
  BY <1>2 DEF GateInv, Claim, KeyStays
<1>. QED
  BY <1>1, <1>2 DEF GateInv

(* An answered request claims nothing.                                     *)
LEMMA EndsKeeps ==
  ASSUME GateInv, MerchantInv', KeyStays, NEW r \in Requests,
         NEW where \in {"unavailable", "refused", "unaudited", "forwarded", "no_agent"},
         Ends(r, where),
         \A q \in Requests : q # r => sync'[q] = sync[q]
  PROVE  GateInv'
<1>1. Claim(r)'
  BY DEF GateInv, ClaimShape, Claim, Ends, Goes
<1> DEFINE S == {r}
<1>2. /\ DOMAIN pc' = Requests /\ DOMAIN mandate' = Requests
      /\ named' \in [Requests -> BOOLEAN]
      /\ DOMAIN trusted' = Requests /\ DOMAIN basis' = Requests /\ DOMAIN checked' = Requests
  BY DEF GateInv, ClaimShape, Ends, Goes
<1>3. \A q \in Requests \ S :
        /\ pc'[q] = pc[q] /\ sync'[q] = sync[q] /\ named'[q] = named[q]
        /\ trusted'[q] = trusted[q] /\ basis'[q] = basis[q] /\ mandate'[q] = mandate[q]
  BY DEF GateInv, ClaimShape, Ends, Goes
<1>4. S \in SUBSET Requests /\ \A q \in S : Claim(q)'
  BY <1>1
<1> HIDE DEF S
<1>. QED
  BY <1>2, <1>3, <1>4, ClaimsKeep

(* A list that the basis allows is trusted.                                *)
LEMMA TrustsKeeps ==
  ASSUME GateInv, MerchantInv', KeyStays, NEW r \in Requests, NEW list, Trusts(r, list),
         list \subseteq (IF named[r] THEN Basis ELSE GlobalIssuers),
         UNCHANGED <<mandate, checked>>,
         \A q \in Requests : q # r => sync'[q] = sync[q]
  PROVE  GateInv'
<1>1. Claim(r)'
  BY DEF GateInv, ClaimShape, Claim, Trusts, Goes
<1> DEFINE S == {r}
<1>2. /\ DOMAIN pc' = Requests /\ DOMAIN mandate' = Requests
      /\ named' \in [Requests -> BOOLEAN]
      /\ DOMAIN trusted' = Requests /\ DOMAIN basis' = Requests /\ DOMAIN checked' = Requests
  BY DEF GateInv, ClaimShape, Trusts, Goes
<1>3. \A q \in Requests \ S :
        /\ pc'[q] = pc[q] /\ sync'[q] = sync[q] /\ named'[q] = named[q]
        /\ trusted'[q] = trusted[q] /\ basis'[q] = basis[q] /\ mandate'[q] = mandate[q]
  BY DEF GateInv, ClaimShape, Trusts, Goes
<1>4. S \in SUBSET Requests /\ \A q \in S : Claim(q)'
  BY <1>1
<1> HIDE DEF S
<1>. QED
  BY <1>2, <1>3, <1>4, ClaimsKeep

(* A step to another stage, with what it has to establish.                 *)
LEMMA GoesKeeps ==
  ASSUME GateInv, MerchantInv', KeyStays, NEW r \in Requests,
         UNCHANGED pc \/ \E where : Goes(r, where),
         UNCHANGED <<mandate, named, basis>>,
         DOMAIN trusted' = Requests, DOMAIN checked' = Requests,
         \A q \in Requests : q # r => trusted'[q] = trusted[q] /\ sync'[q] = sync[q],
         Claim(r)'
  PROVE  GateInv'
<1> DEFINE S == {r}
<1>1. /\ DOMAIN pc' = Requests /\ DOMAIN mandate' = Requests
      /\ named' \in [Requests -> BOOLEAN] /\ DOMAIN basis' = Requests
  BY DEF GateInv, ClaimShape, Goes
<1>2. \A q \in Requests \ S :
        /\ pc'[q] = pc[q] /\ sync'[q] = sync[q] /\ named'[q] = named[q]
        /\ trusted'[q] = trusted[q] /\ basis'[q] = basis[q] /\ mandate'[q] = mandate[q]
  BY DEF GateInv, ClaimShape, Goes
<1>3. S \in SUBSET Requests /\ \A q \in S : Claim(q)'
  OBVIOUS
<1> HIDE DEF S
<1>. QED
  BY <1>1, <1>2, <1>3, ClaimsKeep

(* Steps outside the requests.                                             *)
LEMMA IdleKeeps ==
  ASSUME GateInv, MerchantInv', KeyStays, UNCHANGED <<pc, claimVars>>,
         \A q \in Requests : sync'[q] = sync[q]
  PROVE  GateInv'
<1> DEFINE S == {}
<1>1. S \in SUBSET Requests
  OBVIOUS
<1>2. /\ DOMAIN pc' = Requests /\ DOMAIN mandate' = Requests
      /\ named' \in [Requests -> BOOLEAN]
      /\ DOMAIN trusted' = Requests /\ DOMAIN basis' = Requests /\ DOMAIN checked' = Requests
  BY DEF GateInv, ClaimShape, claimVars
<1>3. \A q \in Requests \ S :
        /\ pc'[q] = pc[q] /\ sync'[q] = sync[q] /\ named'[q] = named[q]
        /\ trusted'[q] = trusted[q] /\ basis'[q] = basis[q] /\ mandate'[q] = mandate[q]
  BY DEF claimVars
<1>4. \A q \in S : Claim(q)'
  OBVIOUS
<1> HIDE DEF S
<1>. QED
  BY <1>1, <1>2, <1>3, <1>4, ClaimsKeep
-----------------------------------------------------------------------------
(* Where a request gets its issuers.                                       *)
LEMMA LoadKeeps ==
  ASSUME GateInv, ListedInv, NEW r \in Requests, LoadIssuers(r)
  PROVE  GateInv'
<1>1. CASE ~named[r] /\ Trusts(r, GlobalIssuers) /\ UNCHANGED merchantVars
  <2>1. MerchantInv' /\ KeyStays
    BY <1>1, UnchangedKeeps, SameKeyStays DEF GateInv, merchantVars
  <2>. QED
    BY <1>1, <2>1, TrustsKeeps DEF LoadIssuers, merchantVars
<1>2. CASE named[r] /\ issuersKey # NoValue /\ Trusts(r, issuersKey) /\ UNCHANGED merchantVars
  <2>1. MerchantInv' /\ KeyStays
    BY <1>2, UnchangedKeeps, SameKeyStays DEF GateInv, merchantVars
  <2>2. issuersKey \subseteq (IF named[r] THEN Basis ELSE GlobalIssuers)
    BY <1>2, KeyIsTrusted
  <2>. QED
    BY <1>2, <2>1, <2>2, TrustsKeeps DEF LoadIssuers, merchantVars
<1>3. CASE /\ named[r] /\ BeginSync(r) /\ Goes(r, "sync")
           /\ UNCHANGED <<row, credsKey, issuersKey, copy, op, wrote, late, torn,
                          named, trusted, basis>>
  <2>1. r \in Procs /\ r \notin Ops /\ sync[r] = "none"
    BY MerchantAssumption DEF Procs, GateInv, Claim, LoadIssuers
  <2>2. MerchantInv'
    BY <1>3, <2>1, BeginKeeps DEF GateInv, MerchantInv, ShapeInv
  <2>3. KeyStays
    BY <1>3, SameKeyStays
  <2>4. \A q \in Requests : q # r => trusted'[q] = trusted[q] /\ sync'[q] = sync[q]
    BY <1>3 DEF BeginSync, GateInv, MerchantInv, ShapeInv, Procs
  <2>5. Claim(r)'
    BY <1>3 DEF GateInv, ClaimShape, Claim, Goes
  <2>6. UNCHANGED <<mandate, named, basis, trusted, checked>>
    BY <1>3 DEF LoadIssuers
  <2>. QED
    BY <1>3, <2>2, <2>3, <2>4, <2>5, <2>6, GoesKeeps DEF GateInv, ClaimShape
<1>. QED
  BY <1>1, <1>2, <1>3 DEF LoadIssuers

LEMMA SyncMerchantKeeps ==
  ASSUME GateInv, ListedInv, NEW r \in Requests,
         ReadMerchant(r) \/ SyncMerchant(r) \/ ReadIssuersAgain(r)
  PROVE  GateInv'
<1> r \in Procs /\ r \notin Ops /\ MerchantInv
  BY MerchantAssumption DEF Procs, GateInv
<1>1. CASE ReadMerchant(r)
  <2>1. MerchantInv' /\ KeyStays
    BY <1>1, ReadRowKeeps, SameKeyStays DEF ReadMerchant, ReadRow
  <2>2. \A q \in Requests : q # r => sync'[q] = sync[q]
    BY <1>1 DEF ReadMerchant, ReadRow, EndSync, MerchantInv, ShapeInv, Procs
  <2>3. CASE Synced(r) /\ UNCHANGED <<pc, claimVars>>
    <3>1. UNCHANGED pc
      BY <2>3
    <3>2. UNCHANGED <<mandate, named, basis, trusted, checked>>
      BY <2>3 DEF claimVars
    <3>3. Claim(r)'
      BY <1>1, <2>3, <3>2 DEF GateInv, Claim, ReadMerchant
    <3>. QED
      BY <2>1, <2>2, <3>1, <3>2, <3>3, GoesKeeps DEF GateInv, ClaimShape
  <2>4. CASE ~Synced(r) /\ fallback /\ Trusts(r, GlobalIssuers) /\ UNCHANGED <<mandate, checked>>
    <3>1. row = NoValue /\ wrote = {} /\ named[r]
      BY <1>1, <2>4 DEF Synced, GateInv, MerchantInv, WroteInv, Claim, ReadMerchant
    <3>2. GlobalIssuers \subseteq (IF named[r] THEN Basis ELSE GlobalIssuers)
      BY <2>4, <3>1, GateAssumption DEF Basis
    <3>. QED
      BY <2>1, <2>2, <2>4, <3>2, TrustsKeeps
  <2>5. CASE Refused(r)
    BY <2>1, <2>2, <2>5, EndsKeeps DEF Refused
  <2>. QED
    BY <1>1, <2>3, <2>4, <2>5 DEF ReadMerchant
<1>2. CASE SyncMerchant(r)
  <2>1. UNCHANGED <<mandate, named, basis, trusted, checked>> /\ pc[r] = "sync"
    BY <1>2 DEF SyncMerchant, claimVars
  <2>2. CASE SetCreds(r) /\ UNCHANGED pc
    <3>1. MerchantInv' /\ KeyStays
      BY <2>2, SetCredsKeeps, SameKeyStays DEF SetCreds
    <3>2. \A q \in Requests : q # r => sync'[q] = sync[q]
      BY <2>2 DEF SetCreds, MerchantInv, ShapeInv, Procs
    <3>3. Claim(r)'
      BY <2>1, <2>2 DEF GateInv, Claim
    <3>. QED
      BY <2>1, <2>2, <3>1, <3>2, <3>3, GoesKeeps DEF GateInv, ClaimShape
  <2>3. CASE SetIssuers(r) /\ Goes(r, "again")
    <3>1. MerchantInv' /\ KeyStays /\ issuersKey' # NoValue
      BY <2>3, SetIssuersKeeps, SetIssuersStays
    <3>2. \A q \in Requests : q # r => sync'[q] = sync[q]
      BY <2>3 DEF SetIssuers, EndSync, MerchantInv, ShapeInv, Procs
    <3>3. Claim(r)'
      BY <2>1, <2>3, <3>1 DEF GateInv, ClaimShape, Claim, Goes
    <3>. QED
      BY <2>1, <2>3, <3>1, <3>2, <3>3, GoesKeeps DEF GateInv, ClaimShape
  <2>. QED
    BY <1>2, <2>2, <2>3 DEF SyncMerchant
<1>3. CASE ReadIssuersAgain(r)
  <2>1. MerchantInv' /\ KeyStays
    BY <1>3, UnchangedKeeps, SameKeyStays DEF ReadIssuersAgain, merchantVars
  <2>2. issuersKey \subseteq (IF named[r] THEN Basis ELSE GlobalIssuers)
    BY <1>3, KeyIsTrusted DEF GateInv, Claim, ReadIssuersAgain
  <2>. QED
    BY <1>3, <2>1, <2>2, TrustsKeeps DEF ReadIssuersAgain, merchantVars
<1>. QED
  BY <1>1, <1>2, <1>3

LEMMA RequestKeeps ==
  ASSUME GateInv, ListedInv, NEW r \in Requests, RequestStep(r)
  PROVE  GateInv'
<1> r \in Procs /\ r \notin Ops /\ MerchantInv
  BY MerchantAssumption DEF Procs, GateInv
<1>1. CASE LoadIssuers(r) \/ ReadMerchant(r) \/ SyncMerchant(r) \/ ReadIssuersAgain(r)
  BY <1>1, LoadKeeps, SyncMerchantKeeps
<1>2. CASE VerifySyncFails(r)
  <2>1. MerchantInv' /\ KeyStays
    BY <1>2, SyncFailsKeeps, SameKeyStays DEF VerifySyncFails, SyncFails
  <2>2. \A q \in Requests : q # r => sync'[q] = sync[q]
    BY <1>2 DEF VerifySyncFails, SyncFails, EndSync, MerchantInv, ShapeInv, Procs
  <2>. QED
    BY <1>2, <2>1, <2>2, EndsKeeps DEF VerifySyncFails, Refused
<1>3. ASSUME UNCHANGED merchantVars
      PROVE  MerchantInv' /\ KeyStays /\ UNCHANGED sync
  BY <1>3, UnchangedKeeps, SameKeyStays DEF merchantVars
<1>4. ASSUME UNCHANGED merchantVars,
             NEW where \in {"unavailable", "refused", "unaudited", "forwarded", "no_agent"},
             Ends(r, where)
      PROVE  GateInv'
  BY <1>3, <1>4, EndsKeeps
<1>5. CASE WorkerUnavailable(r) \/ VerifyFails(r) \/ ForwardToAgent(r)
  BY <1>4, <1>5 DEF WorkerUnavailable, VerifyFails, ForwardToAgent, Refused
<1>6. ASSUME NEW m \in Mandates, NEW n \in BOOLEAN, Enter(r, m, n)
      PROVE  GateInv'
  <2>1. MerchantInv' /\ KeyStays /\ UNCHANGED sync
    BY <1>3, <1>6 DEF Enter
  <2> DEFINE S == {r}
  <2>2. /\ DOMAIN pc' = Requests /\ DOMAIN mandate' = Requests
        /\ named' \in [Requests -> BOOLEAN]
        /\ DOMAIN trusted' = Requests /\ DOMAIN basis' = Requests /\ DOMAIN checked' = Requests
    BY <1>6 DEF GateInv, ClaimShape, Enter, Goes
  <2>3. \A q \in Requests \ S :
          /\ pc'[q] = pc[q] /\ sync'[q] = sync[q] /\ named'[q] = named[q]
          /\ trusted'[q] = trusted[q] /\ basis'[q] = basis[q] /\ mandate'[q] = mandate[q]
    BY <1>6, <2>1 DEF GateInv, ClaimShape, Enter, Goes
  <2>4. S \in SUBSET Requests /\ \A q \in S : Claim(q)'
    <3>1. sync[r] = "none" /\ pc'[r] \in {"limited", "verify"}
      BY <1>6 DEF GateInv, ClaimShape, Claim, Enter, Goes
    <3>. QED
      BY <2>1, <3>1 DEF Claim
  <2> HIDE DEF S
  <2>. QED
    BY <2>1, <2>2, <2>3, <2>4, ClaimsKeep
<1>7. CASE CheckClaims(r)
  <2>1. MerchantInv' /\ KeyStays /\ UNCHANGED sync
    BY <1>3, <1>7 DEF CheckClaims
  <2>2. CASE Refused(r)
    BY <1>4, <1>7, <2>2 DEF CheckClaims, Refused
  <2>3. CASE /\ Valid(mandate[r], trusted[r])
             /\ checked' = [checked EXCEPT ![r] = now]
             /\ trusted' = [trusted EXCEPT ![r] = {}]
             /\ Goes(r, "get")
             /\ UNCHANGED <<mandate, named, basis>>
    <3>1. mandate[r].issuer \in basis[r]
      BY <1>7, <2>3 DEF CheckClaims, GateInv, Claim, Valid
    <3>2. Claim(r)'
      BY <2>3, <3>1 DEF GateInv, ClaimShape, Claim, Goes
    <3>3. /\ DOMAIN trusted' = Requests /\ DOMAIN checked' = Requests
          /\ \A q \in Requests : q # r => trusted'[q] = trusted[q] /\ sync'[q] = sync[q]
      BY <2>1, <2>3 DEF GateInv, ClaimShape
    <3>. QED
      BY <2>1, <2>3, <3>2, <3>3, GoesKeeps
  <2>. QED
    BY <1>7, <2>2, <2>3 DEF CheckClaims
<1>8. CASE GetSeen(r)
  <2>1. MerchantInv' /\ KeyStays /\ UNCHANGED sync
    BY <1>3, <1>8 DEF GetSeen
  <2>2. CASE Refused(r)
    BY <1>4, <1>8, <2>2 DEF GetSeen, Refused
  <2>3. CASE /\ checked' = [checked EXCEPT ![r] = 0]
             /\ Goes(r, "set")
             /\ UNCHANGED <<mandate, named, trusted, basis>>
    <3>1. Claim(r)'
      BY <1>8, <2>3 DEF GetSeen, GateInv, ClaimShape, Claim, Goes
    <3>2. DOMAIN trusted' = Requests /\ DOMAIN checked' = Requests
      BY <2>3 DEF GateInv, ClaimShape
    <3>. QED
      BY <2>1, <2>3, <3>1, <3>2, GoesKeeps
  <2>. QED
    BY <1>8, <2>2, <2>3 DEF GetSeen
<1>9. CASE SetSeen(r)
  <2>1. MerchantInv' /\ KeyStays /\ UNCHANGED sync
    BY <1>3, <1>9 DEF SetSeen
  <2>2. Goes(r, "accepted") /\ UNCHANGED <<mandate, named, trusted, basis, checked>>
    BY <1>9 DEF SetSeen, claimVars
  <2>3. Claim(r)'
    BY <1>9, <2>2 DEF SetSeen, GateInv, ClaimShape, Claim, Goes
  <2>. QED
    BY <2>1, <2>2, <2>3, GoesKeeps DEF GateInv, ClaimShape
<1>. QED
  BY <1>1, <1>2, <1>5, <1>6, <1>7, <1>8, <1>9 DEF RequestStep

LEMMA GateStep == GateInv /\ ListedInv /\ [Next]_vars => GateInv' /\ ListedInv'
<1> SUFFICES ASSUME GateInv, ListedInv, [Next]_vars PROVE GateInv'
  BY ListedStep DEF GateInv
<1>1. ASSUME NEW r \in Requests, RequestStep(r) PROVE GateInv'
  BY <1>1, RequestKeeps
<1>2. CASE MerchantStep
  <2>1. PICK o \in Ops : OpStep(o)
    BY <1>2 DEF MerchantStep
  <2>2. MerchantInv' /\ KeyStays /\ \A q \in Requests : sync'[q] = sync[q]
    BY <2>1, OpKeeps, OpStays DEF GateInv
  <2>. QED
    BY <1>2, <2>2, IdleKeeps DEF MerchantStep
<1>3. CASE UNCHANGED <<merchantVars, pc, claimVars>>
  <2>1. MerchantInv' /\ KeyStays /\ \A q \in Requests : sync'[q] = sync[q]
    BY <1>3, UnchangedKeeps, SameKeyStays DEF GateInv, merchantVars
  <2>. QED
    BY <1>3, <2>1, IdleKeeps
<1>. QED
  BY <1>1, <1>2, <1>3 DEF Next, Tick, RestartGateway, vars

(* sync_merchant_cache writes two keys after the commit; each says what    *)
(* the row says unless its last writer was overtaken, failed or is not     *)
(* done.                                                                   *)
THEOREM MerchantKeysAgree == Spec => []KeysAgree
<1>1. GateInv => KeysAgree
  BY DEF GateInv, MerchantInv, KeyInv, CredsDue, IssuersDue, KeysAgree
<1>. QED
  BY <1>1, GateStart, ListedStart, GateStep, PTL DEF Spec

(* verify_mandate lets a turn that names a merchant through only with an   *)
(* issuer the merchant's row named when the list was read; one of an       *)
(* earlier version while the key lags behind the row; a global one for a   *)
(* merchant that is not known, where the settings allow it, and for a turn *)
(* that names none.                                                        *)
THEOREM TrustedIssuersOnly == Spec => []AcceptedWasTrusted
<1>1. GateInv => AcceptedWasTrusted
  BY DEF GateInv, Claim, AcceptedWasTrusted
<1>. QED
  BY <1>1, GateStart, ListedStart, GateStep, PTL DEF Spec
-----------------------------------------------------------------------------
(* The least of some positions.                                            *)
LEMMA LeastOf ==
  ASSUME NEW S \in SUBSET Nat, S # {}
  PROVE  Min(S) \in S /\ \A k \in S : Min(S) <= k
<1> DEFINE R == {ss \in Nat \X Nat : ss[1] < ss[2]}
<1>1. IsWellFoundedOn(R, Nat)
  BY NatLessThanWellFounded DEF OpToRel
<1> HIDE DEF R
<1>2. PICK m \in S : \A k \in S : <<k, m>> \notin R
  BY <1>1, WFMin
<1>3. ASSUME NEW k \in S PROVE m <= k
  <2>1. k \in Nat /\ m \in Nat
    OBVIOUS
  <2>2. k < m => <<k, m>> \in R
    BY <2>1 DEF R
  <2>. QED
    BY <1>2, <2>1, <2>2
<1>. QED
  BY <1>2, <1>3 DEF Min

(* A bucket is the end of the log of the admitted requests, and those that *)
(* left it are older than the window.                                      *)
Sorted(log) == \A j, k \in 1..Len(log) : j <= k => log[j] <= log[k]

TailOf(b, log) ==
  /\ Len(b) <= Len(log)
  /\ \A k \in 1..Len(b) : b[k] = log[k + (Len(log) - Len(b))]

Left(b, log) == \A k \in 1..(Len(log) - Len(b)) : log[k] + Window < now

WindowInv ==
  /\ TailOf(bucket, admitted)
  /\ Left(bucket, admitted)
  /\ Sorted(admitted)
  /\ \A k \in 1..Len(admitted) : admitted[k] <= now

(* What is left of a bucket is the entries within the window.              *)
LEMMA RecentEntries ==
  ASSUME now \in Nat, NEW b \in Seq(Nat), NEW log \in Seq(Nat),
         TailOf(b, log), Left(b, log), Sorted(log)
  PROVE  /\ Recent(b) \in Seq(Nat)
         /\ TailOf(Recent(b), log)
         /\ Left(Recent(b), log)
         /\ \A k \in 1..Len(Recent(b)) : Recent(b)[k] + Window >= now
<1> DEFINE counts == {k \in 1..Len(b) : b[k] + Window >= now}
           gone == Len(log) - Len(b)
<1>1. /\ Len(b) \in Nat /\ Len(log) \in Nat /\ gone \in Nat /\ Window \in Nat
      /\ gone = Len(log) - Len(b)
      /\ \A k \in 1..Len(b) : b[k] \in Nat /\ k + gone \in 1..Len(log) /\ b[k] = log[k + gone]
      /\ \A k \in 1..Len(log) : log[k] \in Nat
      /\ \A k \in 1..gone : log[k] + Window < now
  BY GateAssumption, ElementOfSeq, SMTT(30) DEF TailOf, Left
<1>2. /\ counts \in SUBSET Nat
      /\ \A k \in counts : k \in 1..Len(b) /\ b[k] + Window >= now
      /\ \A k \in 1..Len(b) : k \notin counts => b[k] + Window < now
      /\ Recent(b) = IF counts = {} THEN <<>> ELSE SubSeq(b, Min(counts), Len(b))
  <2>1. counts \in SUBSET Nat
    BY <1>1
  <2>2. \A k \in counts : k \in 1..Len(b) /\ b[k] + Window >= now
    OBVIOUS
  <2>3. ASSUME NEW k \in 1..Len(b), k \notin counts PROVE b[k] + Window < now
    <3>1. ~(b[k] + Window >= now)
      BY <2>3
    <3>2. b[k] \in Nat
      BY <1>1
    <3>. QED
      BY <1>1, <3>1, <3>2, SMTT(30)
  <2>4. Recent(b) = IF counts = {} THEN <<>> ELSE SubSeq(b, Min(counts), Len(b))
    BY DEF Recent, From
  <2>. QED
    BY <2>1, <2>2, <2>3, <2>4
<1> HIDE DEF counts, gone
(* Up to the first entry that counts, all are older than the window.       *)
<1>3. ASSUME NEW n \in Nat, \A k \in 1..Len(b) : k <= n => b[k] + Window < now
      PROVE  \A k \in 1..Len(log) : k <= gone + n => log[k] + Window < now
  <2> SUFFICES ASSUME NEW k \in 1..Len(log), k <= gone + n PROVE log[k] + Window < now
    OBVIOUS
  <2>1. CASE k <= gone
    BY <1>1, <2>1
  <2>2. CASE ~(k <= gone)
    <3> DEFINE j == k - gone
    <3>1. j \in 1..Len(b) /\ j <= n /\ j + gone = k
      BY <1>1, <2>2
    <3> HIDE DEF j
    <3>. QED
      BY <1>1, <1>3, <3>1
  <2>. QED
    BY <2>1, <2>2
<1>4. CASE counts = {}
  <2>1. Recent(b) = <<>> /\ Len(Recent(b)) = 0
    BY <1>2, <1>4
  <2>2. \A k \in 1..Len(log) : log[k] + Window < now
    <3>1. gone + Len(b) = Len(log) /\ \A k \in 1..Len(log) : k <= gone + Len(b)
      BY <1>1
    <3>2. \A k \in 1..Len(b) : k <= Len(b) => b[k] + Window < now
      BY <1>2, <1>4
    <3>. QED
      BY <1>1, <1>3, <3>1, <3>2
  <2>. QED
    BY <1>1, <2>1, <2>2 DEF TailOf, Left
<1>5. CASE counts # {}
  <2> DEFINE m == Min(counts)
             rest == Recent(b)
  <2>1. m \in counts /\ \A k \in counts : m <= k
    BY <1>2, <1>5, LeastOf
  <2>2. rest = SubSeq(b, m, Len(b))
    BY <1>2, <1>5
  <2> HIDE DEF m, rest
  <2>3. m \in 1..Len(b) /\ m \in Nat /\ b[m] + Window >= now
    BY <1>1, <1>2, <2>1
  <2>4. m \in Int /\ Len(b) \in Int /\ m <= Len(b) /\ \A i \in m..Len(b) : b[i] \in Nat
    BY <1>1, <2>3
  <2>5. /\ rest \in Seq(Nat)
        /\ Len(rest) = Len(b) - m + 1
        /\ \A k \in 1..(Len(b) - m + 1) : rest[k] = b[m + k - 1]
    BY <2>2, <2>4, SubSeqProperties
  <2>6. Len(log) - Len(rest) = gone + (m - 1) /\ Len(rest) <= Len(log)
    BY <1>1, <2>3, <2>5
  <2>7. ASSUME NEW k \in 1..Len(rest)
        PROVE  /\ rest[k] = log[k + (gone + (m - 1))]
               /\ rest[k] + Window >= now
    <3> DEFINE j == m + k - 1
    <3>1. j \in 1..Len(b) /\ m <= j /\ rest[k] = b[j] /\ j + gone = k + (gone + (m - 1))
      BY <1>1, <2>3, <2>5
    <3> HIDE DEF j
    <3>2. rest[k] = log[j + gone]
      BY <1>1, <3>1
    <3>3. /\ m + gone \in 1..Len(log) /\ j + gone \in 1..Len(log)
          /\ m + gone <= j + gone
      BY <1>1, <2>3, <3>1
    <3>4. b[m] <= b[j] /\ b[m] \in Nat /\ b[j] \in Nat
      BY <1>1, <2>3, <3>1, <3>3 DEF Sorted
    <3>5. b[j] + Window >= now
      <4>. DEFINE x == b[m]
                  y == b[j]
      <4>1. x <= y /\ x \in Nat /\ y \in Nat /\ x + Window >= now /\ Window \in Nat
        BY <1>1, <2>3, <3>4
      <4>. HIDE DEF x, y
      <4>2. y + Window >= now
        BY <4>1
      <4>. QED
        BY <4>2 DEF y
    <3>. QED
      BY <3>1, <3>2, <3>5
  <2>8. \A k \in 1..Len(b) : k <= m - 1 => b[k] + Window < now
    BY <1>1, <1>2, <2>1, <2>3
  <2>9. m - 1 \in Nat
    BY <2>3
  <2>10. \A k \in 1..Len(log) : k <= gone + (m - 1) => log[k] + Window < now
    BY <1>3, <2>8, <2>9
  <2>11. Left(rest, log)
    BY <1>1, <2>3, <2>5, <2>6, <2>10 DEF Left
  <2>12. TailOf(rest, log)
    BY <2>6, <2>7 DEF TailOf
  <2>. QED
    BY <2>5, <2>7, <2>11, <2>12 DEF rest
<1>. QED
  BY <1>4, <1>5

(* The window as a request finds it, before it is let in or not.           *)
LEMMA EnterKeeps ==
  ASSUME TypeOK, WindowInv, GateIsExact,
         NEW r \in Requests, NEW m \in Mandates, NEW n \in BOOLEAN, Enter(r, m, n)
  PROVE  WindowInv' /\ GateIsExact'
<1> DEFINE b == Recent(bucket)
           gone == Len(admitted) - Len(b)
<1>1. /\ now \in Nat /\ bucket \in Seq(Nat) /\ admitted \in Seq(Nat) /\ limited \subseteq Nat
      /\ RateLimit \in Nat /\ Window \in Nat /\ now' = now
  BY GateAssumption DEF TypeOK, Enter
<1>2. /\ b \in Seq(Nat) /\ TailOf(b, admitted) /\ Left(b, admitted)
      /\ \A k \in 1..Len(b) : b[k] + Window >= now
  BY <1>1, RecentEntries DEF WindowInv
<1>3. /\ Len(b) \in Nat /\ Len(admitted) \in Nat /\ gone \in Nat
      /\ gone = Len(admitted) - Len(b)
      /\ \A k \in 1..Len(b) : b[k] \in Nat /\ b[k] = admitted[k + gone]
      /\ \A k \in 1..Len(admitted) : admitted[k] \in Nat /\ admitted[k] <= now
  <2>1. /\ Len(b) \in Nat /\ Len(admitted) \in Nat /\ gone \in Nat
        /\ gone = Len(admitted) - Len(b)
    BY <1>1, <1>2 DEF TailOf
  <2>2. /\ \A k \in 1..Len(b) : b[k] \in Nat
        /\ \A k \in 1..Len(admitted) : admitted[k] \in Nat
    BY <1>1, <1>2, ElementOfSeq, Zenon
  <2>3. \A k \in 1..Len(b) : b[k] = admitted[k + gone]
    BY <1>2 DEF TailOf
  <2>4. \A k \in 1..Len(admitted) : admitted[k] <= now
    BY DEF WindowInv
  <2>. QED
    BY <2>1, <2>2, <2>3, <2>4
<1>. HIDE DEF b, gone
<1>4. CASE Len(b) >= RateLimit
  <2>1. bucket' = b /\ admitted' = admitted /\ limited' = limited \union {now}
    BY <1>4 DEF Enter, b
  <2>2. WindowInv'
    BY <1>1, <1>2, <2>1 DEF WindowInv, TailOf, Left, Sorted
  <2> DEFINE within == {k \in 1..Len(admitted) : admitted[k] <= now /\ now <= admitted[k] + Window}
             last == (gone + 1)..Len(admitted)
  <2>3. \A k \in last : k \in within
    <3> SUFFICES ASSUME NEW k \in last PROVE k \in within
      OBVIOUS
    <3>1. k - gone \in 1..Len(b) /\ k \in 1..Len(admitted)
      BY <1>3
    <3>2. b[k - gone] = admitted[k]
      <4>1. b[k - gone] = admitted[(k - gone) + gone] /\ (k - gone) + gone = k
        BY <1>3, <3>1
      <4>. QED
        BY <4>1
    <3>3. admitted[k] + Window >= now
      BY <1>2, <3>1, <3>2
    <3>. QED
      BY <1>1, <1>3, <3>1, <3>3
  <2>4. Cardinality(last) = Len(b)
    <3>1. gone + 1 \in Int /\ Len(admitted) \in Int
      BY <1>3
    <3>2. Cardinality(last) = IF gone + 1 > Len(admitted) THEN 0
                              ELSE Len(admitted) - (gone + 1) + 1
      BY <3>1, FS_Interval
    <3>. QED
      BY <1>2, <1>3, <3>2 DEF TailOf
  <2>5. IsFiniteSet(within)
    <3>1. IsFiniteSet(1..Len(admitted))
      BY <1>3, FS_Interval
    <3>2. within \in SUBSET (1..Len(admitted))
      OBVIOUS
    <3>. QED
      BY <3>1, <3>2, FS_Subset
  <2>6. RateLimit <= Cardinality(within)
    <3>1. Cardinality(last) <= Cardinality(within) /\ Cardinality(within) \in Nat
      BY <2>3, <2>5, FS_Subset, FS_CardinalityType
    <3>. QED
      BY <1>1, <1>3, <1>4, <2>4, <3>1
  <2> HIDE DEF within
  <2>7. GateIsExact'
    BY <1>1, <2>1, <2>6 DEF GateIsExact, within
  <2>. QED
    BY <2>2, <2>7
<1>5. CASE ~(Len(b) >= RateLimit)
  <2>1. bucket' = Append(b, now) /\ admitted' = Append(admitted, now) /\ limited' = limited
    BY <1>5 DEF Enter, b
  <2>2. /\ bucket' \in Seq(Nat) /\ Len(bucket') = Len(b) + 1 /\ bucket'[Len(b) + 1] = now
        /\ \A k \in 1..Len(b) : bucket'[k] = b[k]
    BY <1>1, <1>2, <2>1, AppendProperties
  <2>3. /\ admitted' \in Seq(Nat) /\ Len(admitted') = Len(admitted) + 1
        /\ admitted'[Len(admitted) + 1] = now
        /\ \A k \in 1..Len(admitted) : admitted'[k] = admitted[k]
    BY <1>1, <2>1, AppendProperties
  <2>4. TailOf(bucket', admitted')
    <3>1. ASSUME NEW k \in 1..Len(bucket')
          PROVE  bucket'[k] = admitted'[k + (Len(admitted') - Len(bucket'))]
      <4>1. CASE k = Len(b) + 1
        BY <1>3, <2>2, <2>3, <4>1
      <4>2. CASE k \in 1..Len(b)
        <5>1. Len(admitted') - Len(bucket') = gone /\ k + gone \in 1..Len(admitted)
          BY <1>3, <2>2, <2>3, <4>2
        <5>2. b[k] = admitted[k + gone]
          BY <1>3, <4>2
        <5>. QED
          BY <2>2, <2>3, <4>2, <5>1, <5>2
      <4>. QED
        BY <1>3, <2>2, <3>1, <4>1, <4>2
    <3>2. Len(bucket') <= Len(admitted')
      BY <1>2, <1>3, <2>2, <2>3 DEF TailOf
    <3>. QED
      BY <3>1, <3>2 DEF TailOf
  <2>5. \A k \in 1..gone : admitted'[k] + Window < now
    BY <1>2, <1>3, <2>3 DEF Left
  <2>6. \A k \in 1..(Len(admitted') - Len(bucket')) : admitted'[k] + Window < now'
    BY <1>1, <1>3, <2>2, <2>3, <2>5
  <2>7. \A k \in 1..Len(admitted') : admitted'[k] <= now /\ admitted'[k] \in Nat
    <3> SUFFICES ASSUME NEW k \in 1..Len(admitted')
                 PROVE  admitted'[k] <= now /\ admitted'[k] \in Nat
      OBVIOUS
    <3>1. CASE k = Len(admitted) + 1
      BY <1>1, <2>3, <3>1
    <3>2. CASE k \in 1..Len(admitted)
      BY <1>3, <2>3, <3>2
    <3>. QED
      BY <1>3, <2>3, <3>1, <3>2
  <2>8. Sorted(admitted')
    <3> SUFFICES ASSUME NEW j \in 1..Len(admitted'), NEW k \in 1..Len(admitted'), j <= k
                 PROVE  admitted'[j] <= admitted'[k]
      BY DEF Sorted
    <3>1. CASE k = Len(admitted) + 1
      BY <2>3, <2>7, <3>1
    <3>2. CASE k \in 1..Len(admitted)
      <4>1. j \in 1..Len(admitted)
        BY <1>3, <2>3, <3>2
      <4>. QED
        BY <2>3, <3>2, <4>1 DEF WindowInv, Sorted
    <3>. QED
      BY <1>3, <2>3, <3>1, <3>2
  <2>9. WindowInv'
    BY <1>1, <2>4, <2>6, <2>7, <2>8 DEF WindowInv, Left, Sorted, TailOf
  <2>10. ASSUME NEW k \in 1..Len(admitted'), k + RateLimit <= Len(admitted')
         PROVE  admitted'[k + RateLimit] > admitted'[k] + Window
    <3>1. CASE k + RateLimit <= Len(admitted)
      <4>1. k \in 1..Len(admitted) /\ k + RateLimit \in 1..Len(admitted)
        BY <1>1, <1>3, <3>1
      <4>2. admitted[k + RateLimit] > admitted[k] + Window
        BY <3>1, <4>1 DEF GateIsExact
      <4>. QED
        BY <2>3, <4>1, <4>2
    <3>2. CASE k + RateLimit = Len(admitted) + 1
      <4>1. k \in 1..gone
        BY <1>1, <1>3, <1>5, <3>2
      <4>. QED
        BY <1>1, <1>3, <2>3, <2>5, <2>7, <3>2, <4>1
    <3>3. k \in Nat /\ k + RateLimit <= Len(admitted) + 1
      BY <1>3, <2>3, <2>10
    <3>4. k + RateLimit <= Len(admitted) \/ k + RateLimit = Len(admitted) + 1
      BY <1>1, <1>3, <3>3
    <3>. QED
      BY <3>1, <3>2, <3>4
  <2>11. ASSUME NEW t \in limited
         PROVE  RateLimit <= Cardinality({k \in 1..Len(admitted') :
                                  admitted'[k] <= t /\ t <= admitted'[k] + Window})
    <3> DEFINE before == {k \in 1..Len(admitted) : admitted[k] <= t /\ t <= admitted[k] + Window}
               after == {k \in 1..Len(admitted') : admitted'[k] <= t /\ t <= admitted'[k] + Window}
    <3>1. before \subseteq after
      BY <1>3, <2>3
    <3>2. IsFiniteSet(after)
      <4>1. IsFiniteSet(1..Len(admitted'))
        BY <1>3, <2>3, FS_Interval
      <4>2. after \in SUBSET (1..Len(admitted'))
        OBVIOUS
      <4>. QED
        BY <4>1, <4>2, FS_Subset
    <3>3. Cardinality(before) <= Cardinality(after)
      BY <3>1, <3>2, FS_Subset
    <3>4. RateLimit <= Cardinality(before)
      BY DEF GateIsExact
    <3>5. Cardinality(before) \in Nat /\ Cardinality(after) \in Nat
      BY <3>1, <3>2, FS_Subset, FS_CardinalityType
    <3> HIDE DEF before, after
    <3>6. RateLimit <= Cardinality(after)
      BY <1>1, <3>3, <3>4, <3>5
    <3>. QED
      BY <3>6 DEF after
  <2>12. GateIsExact'
    BY <2>1, <2>10, <2>11 DEF GateIsExact
  <2>. QED
    BY <2>9, <2>12
<1>. QED
  BY <1>4, <1>5

(* Steps that leave the bucket and its log alone, time passing.            *)
LEMMA WindowFrame ==
  ASSUME TypeOK, WindowInv, GateIsExact, UNCHANGED <<bucket, admitted, limited>>,
         now' \in Nat, now <= now'
  PROVE  WindowInv' /\ GateIsExact'
<1>1. GateIsExact'
  BY DEF GateIsExact
<1>2. /\ now \in Nat /\ Window \in Nat /\ Len(admitted) \in Nat /\ Len(bucket) \in Nat
      /\ \A k \in 1..Len(admitted) : admitted[k] \in Nat
  BY GateAssumption, ElementOfSeq DEF TypeOK
<1>3. Left(bucket, admitted)'
  <2> SUFFICES ASSUME NEW k \in 1..(Len(admitted) - Len(bucket))
               PROVE  admitted[k] + Window < now'
    BY DEF Left
  <2>1. k \in 1..Len(admitted)
    BY <1>2
  <2>2. admitted[k] + Window < now /\ admitted[k] \in Nat
    BY <1>2, <2>1 DEF WindowInv, Left
  <2>. QED
    BY <1>2, <2>2
<1>4. \A k \in 1..Len(admitted) : admitted[k] <= now'
  <2> SUFFICES ASSUME NEW k \in 1..Len(admitted) PROVE admitted[k] <= now'
    OBVIOUS
  <2>1. admitted[k] <= now /\ admitted[k] \in Nat
    BY <1>2 DEF WindowInv
  <2>. QED
    BY <1>2, <2>1
<1>. QED
  BY <1>1, <1>3, <1>4 DEF WindowInv, TailOf, Sorted
-----------------------------------------------------------------------------
(* The types of a merchant's keys are kept by every step of a sync.        *)
LEMMA SyncTypes ==
  ASSUME MerchantInv, MerchantTypeOK, NEW p \in Procs,
         ReadRow(p) \/ SetCreds(p) \/ SetIssuers(p) \/ SyncFails(p)
  PROVE  MerchantTypeOK'
<1>1. CASE ReadRow(p)
  <2>1. CASE Synced(p)
    BY <1>1, <2>1 DEF MerchantTypeOK, ReadRow, Synced
  <2>2. CASE ~Synced(p)
    BY <1>1, <2>2 DEF MerchantTypeOK, ReadRow, EndSync
  <2>. QED
    BY <2>1, <2>2
<1>2. CASE SetCreds(p)
  <2>1. copy[p] \in Merchants
    BY <1>2 DEF MerchantInv, CopyInv, Writing, SetCreds
  <2>2. copy[p].creds \in Creds \union {NoValue}
    BY <2>1 DEF Merchants
  <2>. QED
    BY <1>2, <2>2 DEF MerchantTypeOK, SetCreds
<1>3. CASE SetIssuers(p)
  <2>1. copy[p] \in Merchants
    BY <1>3 DEF MerchantInv, CopyInv, Writing, SetIssuers
  <2>2. copy[p].issuers \subseteq Issuers
    BY <2>1, MerchantAssumption DEF Merchants
  <2>. QED
    BY <1>3, <2>2 DEF MerchantTypeOK, SetIssuers, EndSync
<1>4. CASE SyncFails(p)
  BY <1>4 DEF MerchantTypeOK, SyncFails, EndSync, Fault
<1>. QED
  BY <1>1, <1>2, <1>3, <1>4

LEMMA OpTypes ==
  ASSUME MerchantInv, MerchantTypeOK, NEW o \in Ops, OpStep(o)
  PROVE  MerchantTypeOK'
<1> o \in Procs
  BY DEF Procs
<1>1. CASE ReadRow(o) \/ SetCreds(o) \/ SetIssuers(o) \/ SyncFails(o)
  BY <1>1, SyncTypes
<1>2. ASSUME NEW new \in Merchants, NEW what \in {"signup", "update"},
             Starts(o, what), Commit(o, new)
      PROVE  MerchantTypeOK'
  BY <1>2 DEF MerchantTypeOK, Starts, Commit, BeginSync
<1>3. ASSUME NEW m \in Merchants, SignUp(o, m) PROVE MerchantTypeOK'
  BY <1>2, <1>3 DEF SignUp
<1>4. ASSUME NEW m \in Merchants, UpdateProfile(o, m) PROVE MerchantTypeOK'
  <2>1. row \in Merchants
    BY <1>4 DEF MerchantTypeOK, UpdateProfile
  <2>2. PICK columns \in SUBSET DOMAIN row : Commit(o, Updated(m, columns))
    BY <1>4 DEF UpdateProfile
  <2>3. Updated(m, columns) \in Merchants
    BY <2>1, <2>2 DEF Updated, Merchants
  <2>. QED
    BY <1>2, <1>4, <2>2, <2>3 DEF UpdateProfile
<1>5. CASE Login(o) \/ GetCredentials(o)
  BY <1>5 DEF MerchantTypeOK, Login, GetCredentials, Starts, BeginSync
<1>. QED
  BY <1>1, <1>3, <1>4, <1>5 DEF OpStep

(* The mandate of a request on its way, and how old it was when checked.   *)
Carrying == {"verify", "sync", "again", "claims", "get", "set", "accepted"}

AgeInv ==
  \A r \in Requests :
    /\ pc[r] \in Carrying => mandate[r] \in Mandates
    /\ pc[r] = "get" => checked[r] < (mandate[r].issued + MaxAge + 1) * TicksPerSecond

(* The inductive invariant: the keys and claims, the types, the ages and   *)
(* the window.                                                             *)
IInv == GateInv /\ ListedInv /\ TypeOK /\ AgeInv /\ WindowInv /\ GateIsExact

(* The types of a request and the clock.                                   *)
GateTypes ==
  /\ fallback \in BOOLEAN
  /\ now \in Nat
  /\ pc \in [Requests -> {"idle", "limited", "verify", "unavailable", "sync", "again", "claims",
                          "get", "set", "accepted", "refused", "unaudited", "forwarded",
                          "no_agent"}]
  /\ mandate \in [Requests -> Mandates \union {NoValue}]
  /\ named \in [Requests -> BOOLEAN]
  /\ trusted \in [Requests -> SUBSET Issuers] /\ basis \in [Requests -> SUBSET Issuers]
  /\ checked \in [Requests -> Nat]
  /\ seenAt \in [Signatures -> Nat \union {NoValue}]

ListedType == listed \subseteq Issuers

BucketTypes == bucket \in Seq(Nat) /\ admitted \in Seq(Nat) /\ limited \subseteq Nat

LEMMA TypeParts == TypeOK <=> MerchantTypeOK /\ GateTypes /\ BucketTypes /\ ListedType
BY DEF TypeOK, GateTypes, BucketTypes, ListedType

(* A row of its type adds a list of its type.                              *)
LEMMA ListedTypes ==
  ASSUME ListedType, MerchantTypeOK', [Next]_vars
  PROVE  ListedType'
<1>1. CASE UNCHANGED listed
  BY <1>1 DEF ListedType
<1>2. CASE listed' = listed \union Named'
  <2>1. ASSUME row' # NoValue PROVE row'.issuers \subseteq Issuers
    BY <2>1, MerchantAssumption DEF MerchantTypeOK, Merchants
  <2>. QED
    BY <1>2, <2>1 DEF ListedType, Named
<1>. QED
  BY <1>1, <1>2 DEF Next, vars

(* A step of one request leaves the mandates of the others alone.          *)
LEMMA AgeFrame ==
  ASSUME AgeInv, NEW r \in Requests,
         \A q \in Requests \ {r} : /\ pc'[q] = pc[q] /\ mandate'[q] = mandate[q]
                                   /\ checked'[q] = checked[q],
         pc'[r] \in Carrying => mandate'[r] \in Mandates,
         pc'[r] = "get" =>
           checked'[r] < (mandate'[r].issued + MaxAge + 1) * TicksPerSecond
  PROVE  AgeInv'
BY DEF AgeInv, Carrying

LEMMA EndsTypes ==
  ASSUME GateTypes, AgeInv, NEW r \in Requests,
         NEW where \in {"unavailable", "refused", "unaudited", "forwarded", "no_agent"},
         Ends(r, where), UNCHANGED <<fallback, now>>,
         seenAt' \in [Signatures -> Nat \union {NoValue}]
  PROVE  GateTypes' /\ AgeInv'
<1>1. GateTypes'
  BY DEF GateTypes, Ends, Goes
<1>2. pc'[r] \notin Carrying
  BY DEF GateTypes, Ends, Goes, Carrying
<1>3. \A q \in Requests \ {r} : /\ pc'[q] = pc[q] /\ mandate'[q] = mandate[q]
                                /\ checked'[q] = checked[q]
  BY DEF GateTypes, Ends, Goes
<1>. QED
  BY <1>1, <1>2, <1>3, AgeFrame DEF Carrying

LEMMA BasisType ==
  ASSUME MerchantTypeOK, ListedType
  PROVE  Basis \subseteq Issuers
<1>1. ASSUME row # NoValue PROVE row.issuers \subseteq Issuers
  BY <1>1, MerchantAssumption DEF MerchantTypeOK, Merchants
<1>. QED
  BY <1>1, GateAssumption DEF Basis, ListedType

LEMMA TrustsTypes ==
  ASSUME MerchantTypeOK, ListedType, GateTypes, AgeInv, NEW r \in Requests,
         NEW list \in SUBSET Issuers, pc[r] \in Carrying,
         Trusts(r, list), UNCHANGED <<fallback, now, mandate, checked, seenAt>>
  PROVE  GateTypes' /\ AgeInv'
<1>1. (IF named[r] THEN Basis ELSE GlobalIssuers) \subseteq Issuers
  BY BasisType, GateAssumption
<1>2. GateTypes'
  BY <1>1 DEF GateTypes, Trusts, Goes
<1>3. pc'[r] = "claims" /\ \A q \in Requests \ {r} : pc'[q] = pc[q]
  BY DEF GateTypes, Trusts, Goes
<1>4. mandate[r] \in Mandates
  BY DEF AgeInv
<1>. QED
  BY <1>2, <1>3, <1>4, AgeFrame

(* A request that goes on, with what it carries.                           *)
LEMMA GoesTypes ==
  ASSUME GateTypes, AgeInv, NEW r \in Requests, pc[r] \in Carrying,
         NEW where \in {"sync", "again", "claims", "set", "accepted"}, Goes(r, where),
         UNCHANGED <<fallback, now, mandate, named, trusted, basis>>,
         checked' \in [Requests -> Nat], \A q \in Requests \ {r} : checked'[q] = checked[q],
         seenAt' \in [Signatures -> Nat \union {NoValue}]
  PROVE  GateTypes' /\ AgeInv'
<1>1. GateTypes'
  BY DEF GateTypes, Goes
<1>2. pc'[r] = where /\ \A q \in Requests \ {r} : pc'[q] = pc[q]
  BY DEF GateTypes, Goes
<1>3. mandate[r] \in Mandates
  BY DEF AgeInv
<1>. QED
  BY <1>1, <1>2, <1>3, AgeFrame

(* The age is compared in whole seconds: a mandate that is let through is  *)
(* less than a second older than it may be.                                *)
LEMMA WholeSeconds ==
  ASSUME now \in Nat, NEW m \in Mandates, NEW list, Valid(m, list)
  PROVE  now < (m.issued + MaxAge + 1) * TicksPerSecond
<1> DEFINE s == now \div TicksPerSecond
           top == m.issued + MaxAge
<1>1. TicksPerSecond \in Nat \ {0} /\ MaxAge \in Nat /\ m.issued \in Nat
  BY GateAssumption
<1>2. s \in Nat /\ now < (s + 1) * TicksPerSecond
  BY <1>1
<1>3. top \in Nat /\ s <= top
  BY <1>1, <1>2 DEF Valid, Second
<1> HIDE DEF s, top
<1>4. (s + 1) * TicksPerSecond <= (top + 1) * TicksPerSecond
  BY <1>1, <1>2, <1>3
<1>5. (s + 1) * TicksPerSecond \in Nat /\ (top + 1) * TicksPerSecond \in Nat
  BY <1>1, <1>2, <1>3
<1>6. now < (top + 1) * TicksPerSecond
  BY <1>2, <1>4, <1>5
<1>. QED
  BY <1>6 DEF top

LEMMA CheckTypes ==
  ASSUME GateTypes, AgeInv, NEW r \in Requests, CheckClaims(r), UNCHANGED fallback
  PROVE  GateTypes' /\ AgeInv'
<1>1. CASE Refused(r)
  BY <1>1, EndsTypes DEF CheckClaims, Refused, GateTypes
<1>2. CASE /\ Valid(mandate[r], trusted[r])
           /\ checked' = [checked EXCEPT ![r] = now]
           /\ trusted' = [trusted EXCEPT ![r] = {}]
           /\ Goes(r, "get")
           /\ UNCHANGED <<mandate, named, basis>>
  <2>1. mandate[r] \in Mandates
    BY DEF CheckClaims, AgeInv, Carrying
  <2>2. now \in Nat /\ now < (mandate[r].issued + MaxAge + 1) * TicksPerSecond
    BY <1>2, <2>1, WholeSeconds DEF GateTypes
  <2>3. GateTypes'
    BY <1>2 DEF GateTypes, CheckClaims, Goes
  <2>4. /\ checked'[r] = now /\ mandate'[r] = mandate[r]
        /\ \A q \in Requests \ {r} : /\ pc'[q] = pc[q] /\ mandate'[q] = mandate[q]
                                     /\ checked'[q] = checked[q]
    BY <1>2 DEF GateTypes, Goes
  <2>. QED
    BY <2>1, <2>2, <2>3, <2>4, AgeFrame
<1>. QED
  BY <1>1, <1>2 DEF CheckClaims

(* What a request of a merchant does with its types.                       *)
LEMMA RequestTypes ==
  ASSUME TypeOK, GateInv, AgeInv, NEW r \in Requests, RequestStep(r), UNCHANGED fallback
  PROVE  MerchantTypeOK' /\ GateTypes' /\ AgeInv'
<1> /\ MerchantTypeOK /\ GateTypes /\ ListedType /\ MerchantInv /\ r \in Procs
    /\ now \in Nat /\ seenAt \in [Signatures -> Nat \union {NoValue}]
    /\ checked \in [Requests -> Nat]
  BY TypeParts DEF GateInv, GateTypes, Procs
<1> USE DEF Carrying
<1>1. ASSUME UNCHANGED <<merchantVars, faults>> PROVE MerchantTypeOK'
  BY <1>1 DEF merchantVars, MerchantTypeOK
<1>2. ASSUME UNCHANGED merchantVars, Fault PROVE MerchantTypeOK'
  BY <1>2 DEF merchantVars, MerchantTypeOK, Fault
<1>3. ASSUME pc[r] \in Carrying PROVE mandate[r] \in Mandates
  BY <1>3 DEF AgeInv
<1>4. ASSUME pc[r] \in Carrying,
             seenAt' = [seenAt EXCEPT ![mandate[r].signature] = now]
      PROVE  seenAt' \in [Signatures -> Nat \union {NoValue}]
  BY <1>4
<1>5. ASSUME NEW m \in Mandates, NEW n \in BOOLEAN, Enter(r, m, n)
      PROVE  MerchantTypeOK' /\ GateTypes' /\ AgeInv'
  <2>1. MerchantTypeOK'
    BY <1>1, <1>5 DEF Enter
  <2>2. GateTypes'
    BY <1>5 DEF GateTypes, Enter, Goes
  <2>3. \A q \in Requests \ {r} : /\ pc'[q] = pc[q] /\ mandate'[q] = mandate[q]
                                  /\ checked'[q] = checked[q]
    BY <1>5 DEF GateTypes, Enter, Goes
  <2>4. pc'[r] = "limited" \/ (pc'[r] = "verify" /\ mandate'[r] = m)
    BY <1>5 DEF GateTypes, Enter, Goes
  <2>. QED
    BY <2>1, <2>2, <2>3, <2>4, AgeFrame
<1>6. CASE WorkerUnavailable(r)
  BY <1>2, <1>6, EndsTypes DEF WorkerUnavailable
<1>7. CASE LoadIssuers(r)
  <2>1. CASE ~named[r] /\ Trusts(r, GlobalIssuers) /\ UNCHANGED merchantVars
    BY <1>1, <1>7, <2>1, TrustsTypes, GateAssumption DEF LoadIssuers
  <2>2. CASE named[r] /\ issuersKey # NoValue /\ Trusts(r, issuersKey) /\ UNCHANGED merchantVars
    BY <1>1, <1>7, <2>2, TrustsTypes DEF LoadIssuers, MerchantTypeOK
  <2>3. CASE /\ named[r] /\ BeginSync(r) /\ Goes(r, "sync")
             /\ UNCHANGED <<row, credsKey, issuersKey, copy, op, wrote, late, torn,
                            named, trusted, basis>>
    <3>1. MerchantTypeOK'
      BY <1>7, <2>3 DEF LoadIssuers, MerchantTypeOK, BeginSync
    <3>2. pc[r] \in Carrying /\ UNCHANGED <<now, mandate, checked, seenAt>>
      BY <1>7 DEF LoadIssuers
    <3>. QED
      BY <2>3, <3>1, <3>2, GoesTypes
  <2>. QED
    BY <1>7, <2>1, <2>2, <2>3 DEF LoadIssuers
<1>8. CASE ReadMerchant(r)
  <2>1. MerchantTypeOK' /\ pc[r] \in Carrying /\ UNCHANGED <<now, seenAt>>
    BY <1>8, SyncTypes DEF ReadMerchant
  <2>2. CASE Synced(r) /\ UNCHANGED <<pc, claimVars>>
    BY <2>1, <2>2 DEF GateTypes, AgeInv, claimVars
  <2>3. CASE Trusts(r, GlobalIssuers) /\ UNCHANGED <<mandate, checked>>
    BY <2>1, <2>3, TrustsTypes, GateAssumption
  <2>4. CASE Refused(r)
    BY <2>1, <2>4, EndsTypes DEF Refused
  <2>. QED
    BY <1>8, <2>2, <2>3, <2>4 DEF ReadMerchant
<1>9. CASE SyncMerchant(r)
  <2>1. MerchantTypeOK'
    BY <1>9, SyncTypes DEF SyncMerchant
  <2>2. pc[r] \in Carrying /\ UNCHANGED <<now, seenAt, mandate, named, trusted, basis, checked>>
    BY <1>9 DEF SyncMerchant, claimVars
  <2>3. CASE UNCHANGED pc
    BY <2>1, <2>2, <2>3 DEF GateTypes, AgeInv
  <2>4. CASE Goes(r, "again")
    BY <2>1, <2>2, <2>4, GoesTypes
  <2>. QED
    BY <1>9, <2>3, <2>4 DEF SyncMerchant
<1>10. CASE ReadIssuersAgain(r)
  <2>1. issuersKey \in SUBSET Issuers
    BY <1>10 DEF ReadIssuersAgain, GateInv, Claim, MerchantTypeOK
  <2>. QED
    BY <1>1, <1>10, <2>1, TrustsTypes DEF ReadIssuersAgain
<1>11. CASE CheckClaims(r)
  BY <1>1, <1>11, CheckTypes DEF CheckClaims
<1>12. CASE GetSeen(r)
  <2>1. MerchantTypeOK' /\ pc[r] \in Carrying /\ UNCHANGED <<now, seenAt>>
    BY <1>1, <1>12 DEF GetSeen
  <2>2. CASE Refused(r)
    BY <2>1, <2>2, EndsTypes DEF Refused
  <2>3. CASE /\ checked' = [checked EXCEPT ![r] = 0]
             /\ Goes(r, "set")
             /\ UNCHANGED <<mandate, named, trusted, basis>>
    <3>1. checked' \in [Requests -> Nat] /\ \A q \in Requests \ {r} : checked'[q] = checked[q]
      BY <2>3
    <3>. QED
      BY <2>1, <2>3, <3>1, GoesTypes
  <2>. QED
    BY <1>12, <2>2, <2>3 DEF GetSeen
<1>13. CASE SetSeen(r)
  <2>1. MerchantTypeOK' /\ pc[r] \in Carrying /\ seenAt' \in [Signatures -> Nat \union {NoValue}]
    BY <1>1, <1>4, <1>13 DEF SetSeen
  <2>2. Goes(r, "accepted") /\ UNCHANGED <<now, mandate, named, trusted, basis, checked>>
    BY <1>13 DEF SetSeen, claimVars
  <2>. QED
    BY <2>1, <2>2, GoesTypes
<1>14. CASE VerifyFails(r)
  <2>1. MerchantTypeOK' /\ pc[r] \in Carrying /\ UNCHANGED now
    BY <1>2, <1>14 DEF VerifyFails
  <2>2. seenAt' \in [Signatures -> Nat \union {NoValue}]
    BY <1>4, <1>14, <2>1 DEF VerifyFails
  <2>. QED
    BY <1>14, <2>1, <2>2, EndsTypes DEF VerifyFails, Refused
<1>15. CASE VerifySyncFails(r)
  <2>1. MerchantTypeOK' /\ UNCHANGED <<now, seenAt>>
    BY <1>15, SyncTypes DEF VerifySyncFails
  <2>. QED
    BY <1>15, <2>1, EndsTypes DEF VerifySyncFails, Refused
<1>16. CASE ForwardToAgent(r)
  BY <1>1, <1>2, <1>16, EndsTypes DEF ForwardToAgent
<1>. QED
  BY <1>5, <1>6, <1>7, <1>8, <1>9, <1>10, <1>11, <1>12, <1>13, <1>14, <1>15, <1>16
     DEF RequestStep
-----------------------------------------------------------------------------
LEMMA IInvStart == Init => IInv
<1> SUFFICES ASSUME Init PROVE IInv
  OBVIOUS
<1>1. TypeOK
  <2>1. MerchantTypeOK
    BY MerchantAssumption DEF Init, MerchantInit, MerchantTypeOK
  <2>2. GateTypes
    BY DEF Init, GateTypes
  <2>3. BucketTypes
    BY DEF Init, BucketTypes
  <2>4. ListedType
    BY MerchantAssumption DEF Init, MerchantInit, Merchants, Named, ListedType
  <2>. QED
    BY <2>1, <2>2, <2>3, <2>4, TypeParts
<1>2. AgeInv
  BY DEF Init, AgeInv, Carrying
<1>3. WindowInv /\ GateIsExact
  BY GateAssumption DEF Init, WindowInv, TailOf, Left, Sorted, GateIsExact
<1>. QED
  BY <1>1, <1>2, <1>3, GateStart, ListedStart DEF IInv

(* Only Enter and a restart touch the bucket.                              *)
LEMMA BucketStep ==
  ASSUME IInv, Next
  PROVE  WindowInv' /\ GateIsExact' /\ BucketTypes'
<1> /\ TypeOK /\ WindowInv /\ GateIsExact /\ BucketTypes
    /\ now \in Nat
  BY TypeParts DEF IInv, GateTypes
<1>1. ASSUME UNCHANGED gateVars, now' \in Nat, now <= now'
      PROVE  WindowInv' /\ GateIsExact' /\ BucketTypes'
  BY <1>1, WindowFrame DEF gateVars, BucketTypes
<1>2. CASE Tick
  BY <1>1, <1>2 DEF Tick
<1>3. CASE RestartGateway
  <2>1. bucket' = <<>> /\ admitted' = <<>> /\ limited' = {}
    BY <1>3 DEF RestartGateway
  <2>. QED
    BY <2>1, GateAssumption DEF WindowInv, TailOf, Left, Sorted, GateIsExact, BucketTypes
<1>4. CASE MerchantStep
  BY <1>1, <1>4 DEF MerchantStep
<1>5. ASSUME NEW r \in Requests, RequestStep(r)
      PROVE  WindowInv' /\ GateIsExact' /\ BucketTypes'
  <2>1. ASSUME NEW m \in Mandates, NEW n \in BOOLEAN, Enter(r, m, n)
        PROVE  WindowInv' /\ GateIsExact' /\ BucketTypes'
    <3>1. Recent(bucket) \in Seq(Nat)
      BY RecentEntries DEF WindowInv, BucketTypes
    <3>2. Append(Recent(bucket), now) \in Seq(Nat) /\ Append(admitted, now) \in Seq(Nat)
      BY <3>1, AppendProperties DEF BucketTypes
    <3>3. /\ bucket' = Recent(bucket) \/ bucket' = Append(Recent(bucket), now)
          /\ admitted' = admitted \/ admitted' = Append(admitted, now)
          /\ limited' = limited \/ limited' = limited \union {now}
      BY <2>1 DEF Enter
    <3>4. BucketTypes'
      BY <3>1, <3>2, <3>3 DEF BucketTypes
    <3>. QED
      BY <2>1, <3>4, EnterKeeps
  <2>2. CASE ~(\E m \in Mandates, n \in BOOLEAN : Enter(r, m, n))
    <3>1. UNCHANGED <<gateVars, now>>
      BY <1>5, <2>2
         DEF RequestStep, WorkerUnavailable, LoadIssuers, ReadMerchant, SyncMerchant,
             ReadIssuersAgain, CheckClaims, GetSeen, SetSeen, VerifyFails, VerifySyncFails,
             ForwardToAgent
    <3>. QED
      BY <1>1, <3>1
  <2>. QED
    BY <2>1, <2>2
<1>. QED
  BY <1>2, <1>3, <1>4, <1>5 DEF Next

LEMMA IInvStep == IInv /\ [Next]_vars => IInv'
<1> SUFFICES ASSUME IInv, [Next]_vars PROVE IInv'
  OBVIOUS
<1> MerchantTypeOK /\ GateTypes /\ BucketTypes /\ ListedType /\ AgeInv /\ MerchantInv
  BY TypeParts DEF IInv, GateInv
<1>1. GateInv' /\ ListedInv'
  BY GateStep DEF IInv
<1>2. CASE UNCHANGED vars
  <2>1. MerchantTypeOK' /\ GateTypes' /\ BucketTypes' /\ AgeInv'
    BY <1>2 DEF vars, merchantVars, gateVars, claimVars, MerchantTypeOK, GateTypes, BucketTypes,
                AgeInv
  <2>2. UNCHANGED <<bucket, admitted, limited>> /\ now' \in Nat /\ now <= now'
    BY <1>2 DEF vars, gateVars, GateTypes
  <2>3. WindowInv' /\ GateIsExact'
    BY <2>2, WindowFrame DEF IInv
  <2>4. TypeOK'
    BY <2>1, ListedTypes DEF TypeOK, GateTypes, BucketTypes, ListedType
  <2>. QED
    BY <1>1, <2>1, <2>3, <2>4 DEF IInv
<1>3. CASE Next
  <2>1. WindowInv' /\ GateIsExact' /\ BucketTypes'
    BY <1>3, BucketStep
  <2>2. ASSUME Tick \/ RestartGateway
        PROVE  MerchantTypeOK' /\ GateTypes' /\ AgeInv'
    <3>1. /\ UNCHANGED <<merchantVars, fallback, pc, claimVars, seenAt>>
          /\ now' = now \/ now' = now + 1
          /\ faults' = faults \/ faults' = faults + 1
      BY <1>3, <2>2 DEF Next, Tick, RestartGateway, Fault
    <3>2. MerchantTypeOK'
      BY <3>1 DEF merchantVars, MerchantTypeOK
    <3>3. GateTypes' /\ AgeInv'
      BY <3>1 DEF claimVars, GateTypes, AgeInv
    <3>. QED
      BY <3>2, <3>3
  <2>3. ASSUME MerchantStep
        PROVE  MerchantTypeOK' /\ GateTypes' /\ AgeInv'
    <3>1. MerchantTypeOK'
      BY <2>3, OpTypes DEF MerchantStep
    <3>2. GateTypes' /\ AgeInv'
      BY <1>3, <2>3 DEF Next, MerchantStep, claimVars, GateTypes, AgeInv
    <3>. QED
      BY <3>1, <3>2
  <2>4. ASSUME \E r \in Requests : RequestStep(r)
        PROVE  MerchantTypeOK' /\ GateTypes' /\ AgeInv'
    BY <1>3, <2>4, RequestTypes DEF Next, IInv
  <2>5. MerchantTypeOK' /\ GateTypes' /\ AgeInv'
    BY <1>3, <2>2, <2>3, <2>4 DEF Next
  <2>6. TypeOK'
    BY <2>1, <2>5, ListedTypes DEF TypeOK, GateTypes, BucketTypes, ListedType
  <2>. QED
    BY <1>1, <2>1, <2>5, <2>6 DEF IInv
<1>. QED
  BY <1>2, <1>3

(* Every variable of the gateway and of the mandate verifier keeps its     *)
(* type, for any mandates, lists of issuers, limits and failures.          *)
THEOREM TypeCorrect == Spec => []TypeOK
<1>1. IInv => TypeOK
  BY DEF IInv
<1>. QED
  BY <1>1, IInvStart, IInvStep, PTL DEF Spec

(* _is_rate_limited lets at most limit requests in within any window that  *)
(* has its length, and turns one away only when the window that ends there *)
(* is full: for every limit and every window.                              *)
THEOREM RateLimitExact == Spec => []GateIsExact
<1>1. IInv => GateIsExact
  BY DEF IInv
<1>. QED
  BY <1>1, IInvStart, IInvStep, PTL DEF Spec

(* The only step that lets a request go on to the SET is its GET.          *)
LEMMA OnlyGetGoesOn ==
  ASSUME IInv, [Next]_vars, NEW r \in Requests, pc[r] = "get", pc'[r] = "set"
  PROVE  /\ ~Seen(mandate[r].signature)
         /\ UNCHANGED now
<1> GateTypes
  BY TypeParts DEF IInv
<1>1. ASSUME NEW q \in Requests, RequestStep(q)
      PROVE  GetSeen(r)
  <2>1. CASE q = r
    BY <1>1, <2>1
       DEF RequestStep, GateTypes, Goes, Enter, WorkerUnavailable, LoadIssuers, ReadMerchant,
           SyncMerchant, ReadIssuersAgain, CheckClaims, SetSeen, VerifyFails, VerifySyncFails,
           ForwardToAgent, Ends, Refused
  <2>2. CASE q # r
    <3>1. pc' = pc \/ \E where : Goes(q, where)
      BY <1>1
         DEF RequestStep, Enter, WorkerUnavailable, LoadIssuers, ReadMerchant, SyncMerchant,
             ReadIssuersAgain, CheckClaims, GetSeen, SetSeen, VerifyFails, VerifySyncFails,
             ForwardToAgent, Ends, Refused, Trusts
    <3>. QED
      BY <2>2, <3>1 DEF GateTypes, Goes
  <2>. QED
    BY <2>1, <2>2
<1>2. GetSeen(r)
  BY <1>1 DEF Next, Tick, RestartGateway, MerchantStep, vars
<1>. QED
  BY <1>2 DEF GetSeen, GateTypes, Refused, Ends, Goes

(* verify_mandate lets a request whose GET comes after a SET of the same   *)
(* signature through only when that SET was within the second of the       *)
(* issue: mandate:seen outlives the age it is meant to cover but for the   *)
(* part of a second the age is rounded down by, and the time between the   *)
(* two checks.  Requests whose GETs come before the first SET all pass.    *)
THEOREM LaterUseAtEdgeOnly == Spec => LaterUseOnlyAtEdge
<1> DEFINE Edge ==
      \A r \in Requests :
        LET m == mandate[r] IN
        pc[r] = "get" /\ pc'[r] = "set" /\ seenAt[m.signature] # NoValue =>
          seenAt[m.signature] + SeenTtl + checked[r]
            < (m.issued + MaxAge + 1) * TicksPerSecond + now
<1>1. IInv /\ [Next]_vars => Edge
  <2> SUFFICES ASSUME IInv, [Next]_vars, NEW r \in Requests,
                      pc[r] = "get", pc'[r] = "set", seenAt[mandate[r].signature] # NoValue
               PROVE  seenAt[mandate[r].signature] + SeenTtl + checked[r]
                        < (mandate[r].issued + MaxAge + 1) * TicksPerSecond + now
    OBVIOUS
  <2> DEFINE m == mandate[r]
             t == seenAt[m.signature]
             top == (m.issued + MaxAge + 1) * TicksPerSecond
  <2>1. m \in Mandates /\ checked[r] < top
    BY DEF IInv, AgeInv, Carrying
  <2>2. GateTypes
    BY TypeParts DEF IInv
  <2>3. m.signature \in Signatures /\ m.issued \in Nat /\ SeenTtl \in Nat
    BY <2>1, GateAssumption
  <2>4. top \in Nat
    BY <2>3, GateAssumption
  <2>5. t \in Nat /\ now \in Nat /\ checked[r] \in Nat
    BY <2>2, <2>3 DEF GateTypes
  <2>6. t + SeenTtl < now
    BY <2>3, <2>5, OnlyGetGoesOn DEF Seen
  <2> HIDE DEF m, t, top
  <2>7. t + SeenTtl + checked[r] < top + now
    BY <2>1, <2>3, <2>4, <2>5, <2>6
  <2>. QED
    BY <2>7 DEF m, t, top
<1>. QED
  BY <1>1, IInvStart, IInvStep, PTL DEF Spec, LaterUseOnlyAtEdge

===============================================================================
