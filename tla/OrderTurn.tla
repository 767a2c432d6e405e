------------------------------ MODULE OrderTurn ------------------------------
(***************************************************************************)
(* The turns of one session of the merchant agent.  A turn runs the graph  *)
(* of build_graph on a copy of the session; after every node the whole     *)
(* copy is written back to Redis, as the session state and then as the     *)
(* order draft.  Nothing serialises two turns of the same session.  The    *)
(* worker forwards a turn only with mandate_verified true, so a mandate is *)
(* never among the missing fields.                                         *)
(***************************************************************************)
EXTENDS OrderCart

CONSTANTS
  MaxTurns,      \* bound on the turns of the session
  Messages,      \* what a turn may say: an Intent, offTopic and proceed
  Listed,        \* items in the catalogue at first
  InitialStock,  \* [Items -> Nat]
  ReactLoopMax,  \* react_loop_max
  Overlap,       \* whether turns of the session may overlap
  MaxStock,      \* bound on the stock of an item
  MaxChanges,    \* bound on what happens outside the session
  MaxFaults      \* bound on failed and lost calls

ASSUME TurnAssumption ==
  /\ MaxTurns \in Nat /\ NoValue \notin 1..MaxTurns
  /\ Listed \subseteq Items
  /\ InitialStock \in [Items -> 0..MaxStock]
  /\ ReactLoopMax \in Nat /\ Overlap \in BOOLEAN
  /\ MaxStock \in Nat /\ MaxChanges \in Nat /\ MaxFaults \in Nat
  /\ \A m \in Messages :
       /\ m.lines \in SaidLines /\ m.remove \subseteq Names /\ m.fields \subseteq Fields
       /\ m.proceed \in BOOLEAN /\ m.offTopic \in BOOLEAN

(* Turns are numbered in the order they begin.  The number of a turn is    *)
(* also the uuid4 it may draw.                                             *)
Turns == 1..MaxTurns

VARIABLES
  listed,   \* active, unexpired items
  stock,    \* quantity_available of each item
  saved,    \* session:{id}:state in Redis
  draft,    \* session:{id}:order_draft in Redis
  pc,       \* the node each turn is at
  msg,      \* the message of each turn
  st,       \* the copy of the session each turn works on
  calls,    \* results of the two calls of a turn's dispatch
  orders,   \* orders rows, by id
  holds,    \* reservations granted for an order id
  link,     \* payment link of an order id
  orphans,  \* order ids with an ORPHANED_PAYMENT_LINK_RISK audit
  offered,  \* the summary of the session that awaits a confirmation (history)
  lost,     \* the reserve and cancel calls whose result never came (history)
  answer,   \* the response of each turn
  changes,
  faults

redisVars == <<saved, draft>>
turnVars == <<pc, st, answer>>
storeVars == <<listed, stock>>
moneyVars == <<orders, holds, link, orphans, lost>>
vars == <<storeVars, redisVars, turnVars, msg, calls, moneyVars, offered, changes, faults>>

Status == {"DRAFT", "AWAITING_FIELDS", "AWAITING_CONFIRMATION", "VALIDATED", "INVOICED", "FAILED"}
Replies == {"", "redirect", "ask", "offer", "alternatives", "no_items", "validated",
            "generated", "invoiced", "no_link", "voided", "unreserved", "error", "duplicate"}
Nodes == {"idle", "load_session", "load_draft", "off_topic_guard", "parse_intent",
          "resolve_invoice_confirmation", "resolve_catalog", "react_planner",
          "react_tool_selector", "react_executor", "check_availability",
          "suggest_alternative", "check_missing_fields", "ask_for_fields",
          "offer_invoice_confirmation", "finalize_order", "generate_invoice",
          "dispatch_invoice_processing", "resolve_invoice_outcome", "done"}
LoopMax == IF ReactLoopMax = 0 THEN 1 ELSE ReactLoopMax
Goals == {"cross_sell_lookup", "offer_lookup", "campaign_scan", "done"}

(* What the graph reads of an OrderState.                                  *)
Session ==
  [lines: Carts, known: SUBSET Fields,
   missing: SUBSET (Fields \union {"product", "quantity", "alternative"}),
   awaiting: BOOLEAN, proceed: BOOLEAN, unavailable: SUBSET Items,
   invId: Turns \union {NoValue}, invoice: Turns \union {NoValue},
   goal: Goals, attempted: SUBSET Goals, tools: SUBSET Goals, loops: 0..LoopMax,
   capped: BOOLEAN, again: BOOLEAN, status: Status, reply: Replies]

NewSession ==
  [lines |-> EmptyCart, known |-> {}, missing |-> {}, awaiting |-> FALSE, proceed |-> FALSE,
   unavailable |-> {}, invId |-> NoValue, invoice |-> NoValue, goal |-> "done",
   attempted |-> {}, tools |-> {}, loops |-> 0, capped |-> FALSE, again |-> FALSE,
   status |-> "DRAFT", reply |-> ""]

(* An order draft, an order summary and the turn that made it, an orders   *)
(* row with the summary it answers, the response of a turn; None is none   *)
(* of them.                                                                *)
Draft == [lines: Carts, known: SUBSET Fields]
Summary == [cart: Carts, by: Turns]
OrderRow == [lines: Carts, known: SUBSET Fields, by: Turns, seen: Summary \union {NoValue}]
Response == [status: Status, reply: Replies, id: Turns \union {NoValue}]

ASSUME NoneAssumption ==
  NoValue \notin Session \union Draft \union Summary \union OrderRow \union Response

DraftOf(s) == [lines |-> s.lines, known |-> s.known]

NoCalls == [res |-> "wait", pay |-> "wait"]

Init ==
  /\ listed = Listed
  /\ stock = InitialStock
  /\ saved = NoValue /\ draft = NoValue
  /\ pc = [t \in Turns |-> "idle"]
  /\ msg = [t \in Turns |-> NoValue]
  /\ st = [t \in Turns |-> NewSession]
  /\ calls = [t \in Turns |-> NoCalls]
  /\ orders = [t \in Turns |-> NoValue]
  /\ holds = [t \in Turns |-> 0]
  /\ link = [t \in Turns |-> "none"]
  /\ orphans = {}
  /\ offered = NoValue
  /\ lost = {}
  /\ answer = [t \in Turns |-> NoValue]
  /\ changes = 0 /\ faults = 0
-----------------------------------------------------------------------------
(* agent_turn: the answer of a turn that reached the end of the graph, and *)
(* of one in which a node raised.                                          *)
Ended(t, status, reply, id) ==
  /\ pc' = [pc EXCEPT ![t] = "done"]
  /\ st' = [st EXCEPT ![t] = NewSession]
  /\ answer' = [answer EXCEPT ![t] = [status |-> status, reply |-> reply, id |-> id]]

Raised(t, reply) == Ended(t, "FAILED", reply, NoValue)

Fault == faults < MaxFaults /\ faults' = faults + 1

(* _with_persistence: save_state writes the state and then the draft, and  *)
(* the next node starts; Redis may fail at either write.                   *)
Finish(t, s, next) ==
  \/ /\ saved' = s
     /\ draft' = DraftOf(s)
     /\ IF next = "done"
          THEN Ended(t, s.status, s.reply, s.invId)
          ELSE /\ pc' = [pc EXCEPT ![t] = next]
               /\ st' = [st EXCEPT ![t] = s]
               /\ UNCHANGED answer
     /\ UNCHANGED faults
  \/ /\ Fault
     /\ saved' \in {saved, s}
     /\ UNCHANGED draft
     /\ Raised(t, "error")

(* A node that touches nothing but the session.                            *)
Runs(t, name, s, next) ==
  /\ pc[t] = name
  /\ Finish(t, s, next)
  /\ UNCHANGED <<storeVars, msg, calls, moneyVars, offered>>

Node(t, name, s, next) == Runs(t, name, s, next) /\ UNCHANGED changes

(* What happens outside the session.                                       *)
Change == changes < MaxChanges /\ changes' = changes + 1

Begin(t, m) ==
  /\ pc[t] = "idle"
  /\ \A u \in 1..(t - 1) : pc[u] # "idle"
  /\ Overlap \/ \A u \in Turns : pc[u] \in {"idle", "done"}
  /\ pc' = [pc EXCEPT ![t] = "load_session"]
  /\ msg' = [msg EXCEPT ![t] = m]
  /\ UNCHANGED <<storeVars, redisVars, st, answer, calls, moneyVars, offered, changes, faults>>
-----------------------------------------------------------------------------
(* load_session reads the persisted session, whose flags of the last turn  *)
(* it clears, and then the draft, which fills in what the session lacks.   *)
Opened ==
  [(IF saved = NoValue THEN NewSession ELSE saved)
     EXCEPT !.proceed = FALSE, !.unavailable = {}, !.attempted = {}, !.tools = {},
            !.loops = 0, !.capped = FALSE, !.again = FALSE]

Loaded(s) ==
  LET kept == IF draft = NoValue THEN DraftOf(NewSession) ELSE draft
  IN  [s EXCEPT !.lines = IF DOMAIN @ = {} THEN kept.lines ELSE @,
                !.known = @ \union kept.known]

LoadSession(t) ==
  /\ pc[t] = "load_session"
  /\ pc' = [pc EXCEPT ![t] = "load_draft"]
  /\ st' = [st EXCEPT ![t] = Opened]
  /\ UNCHANGED <<storeVars, redisVars, answer, msg, calls, moneyVars, offered, changes, faults>>

LoadOrderDraft(t) == Node(t, "load_draft", Loaded(st[t]), "off_topic_guard")

OffTopicGuard(t) ==
  Node(t, "off_topic_guard",
       IF msg[t].offTopic
         THEN [st[t] EXCEPT !.status = "AWAITING_FIELDS", !.reply = "redirect"]
         ELSE st[t],
       IF msg[t].offTopic THEN "done" ELSE "parse_intent")

(* The carts parse_intent may make of a session and a message.             *)
CartsOf(t) == Substituted(Parsed(st[t].lines, msg[t]), msg[t])

(* Mutant: the fields of this message replace the ones known before.       *)
MutParseForgets(t) ==
  /\ pc[t] = "parse_intent"
  /\ \E cart \in CartsOf(t) :
       Node(t, "parse_intent", [st[t] EXCEPT !.lines = cart, !.known = msg[t].fields],
            "resolve_invoice_confirmation")

(* The fields of a message include those the personal memory knows.        *)
ParseIntent(t) ==
  /\ pc[t] = "parse_intent"
  /\ \E cart \in CartsOf(t) :
       Node(t, "parse_intent", [st[t] EXCEPT !.lines = cart, !.known = @ \union msg[t].fields],
            "resolve_invoice_confirmation")

(* Mutant: the offer stays open after it is answered.                      *)
MutConfirmationStaysOpen(t) ==
  Node(t, "resolve_invoice_confirmation",
       IF st[t].awaiting THEN [st[t] EXCEPT !.proceed = msg[t].proceed] ELSE st[t],
       "resolve_catalog")

ResolveInvoiceConfirmation(t) ==
  Node(t, "resolve_invoice_confirmation",
       IF st[t].awaiting
         THEN [st[t] EXCEPT !.awaiting = FALSE, !.proceed = msg[t].proceed]
         ELSE st[t],
       "resolve_catalog")

ResolveCatalog(t) ==
  Node(t, "resolve_catalog", [st[t] EXCEPT !.lines = Resolved(@, listed)], "react_planner")
-----------------------------------------------------------------------------
ItemIds(cart) == {cart[n].item : n \in DOMAIN cart} \ {NoValue}

(* The lookup the planner asks for: each at most once a turn.              *)
NextGoal(s) ==
  LET ids == ItemIds(s.lines)
  IN  IF s.unavailable # {} /\ "cross_sell_lookup" \notin s.attempted THEN "cross_sell_lookup"
      ELSE IF ids # {} /\ "offer_lookup" \notin s.attempted THEN "offer_lookup"
      ELSE IF ids # {} /\ "campaign_scan" \notin s.attempted THEN "campaign_scan"
      ELSE "done"

ReactPlanner(t) ==
  Node(t, "react_planner",
       [st[t] EXCEPT !.goal = NextGoal(st[t]), !.attempted = @ \union {NextGoal(st[t])}],
       "react_tool_selector")

ReactToolSelector(t) ==
  Node(t, "react_tool_selector", [st[t] EXCEPT !.tools = {st[t].goal} \ {"done"}],
       "react_executor")

AvailabilityNode(s) == IF s.unavailable = {} THEN "check_availability" ELSE "suggest_alternative"

ConditionalExecutor(s) ==
  IF ~s.capped /\ s.again THEN "react_planner" ELSE AvailabilityNode(s)

(* Mutant: no early return without tools, and loops are not counted.       *)
MutExecutedForever(s) == [s EXCEPT !.tools = {}, !.again = TRUE]

Executed(s) ==
  IF s.loops >= LoopMax
    THEN [s EXCEPT !.capped = TRUE, !.tools = {}, !.again = FALSE]
    ELSE [s EXCEPT !.loops = @ + 1, !.tools = {}, !.again = s.tools # {}]

ReactExecutor(t) ==
  Node(t, "react_executor", Executed(st[t]), ConditionalExecutor(Executed(st[t])))
-----------------------------------------------------------------------------
(* Both availability checks read catalog:item entries, which may lag       *)
(* behind the table: they say of the orderable items what the table says,  *)
(* or anything once per change outside the session.                        *)
OrderableItems(cart) == {cart[n].item : n \in Orderable(cart)}

Short(cart) ==
  {cart[n].item : n \in {m \in Orderable(cart) :
                           cart[m].item \in listed /\ stock[cart[m].item] < cart[m].qty}}

Gone(cart) == OrderableItems(cart) \ listed

CacheSays(cart, table, out) ==
  \/ out = table /\ UNCHANGED changes
  \/ Change /\ out \in SUBSET OrderableItems(cart)

(* A line whose item is gone is left alone.                                *)
CheckAvailability(t) ==
  \E out \in SUBSET OrderableItems(st[t].lines) :
    /\ CacheSays(st[t].lines, Short(st[t].lines), out)
    /\ Runs(t, "check_availability",
            [st[t] EXCEPT !.unavailable = out,
                          !.status = IF out = {} THEN @ ELSE "AWAITING_FIELDS"],
            IF out = {} THEN "check_missing_fields" ELSE "suggest_alternative")

SuggestAlternative(t) ==
  Node(t, "suggest_alternative",
       IF st[t].unavailable = {} THEN st[t]
       ELSE [st[t] EXCEPT !.lines = StockoutPending(@, st[t].unavailable), !.unavailable = {},
                          !.status = "AWAITING_FIELDS", !.reply = "alternatives"],
       "done")

Checked(s) ==
  LET missing == MissingFields(s.lines, s.known)
  IN  IF missing # {} \/ BlockingUnresolved(s.lines) # {}
        THEN [s EXCEPT !.missing = missing, !.status = "AWAITING_FIELDS"]
        ELSE [s EXCEPT !.missing = {}, !.status = "VALIDATED",
                       !.lines = IF Orderable(@) = {} THEN @ ELSE Only(@, Orderable(@))]

MissingRoute(s) ==
  LET unresolved == {n \in DOMAIN s.lines :
                       ~s.lines[n].resolved /\ s.lines[n].status \notin {"not_found", "ambiguous"}}
  IN  IF s.proceed THEN "finalize_order"
      ELSE IF s.missing # {} \/ Pending(s.lines) # {} \/ unresolved # {} THEN "ask_for_fields"
      ELSE IF Orderable(s.lines) # {} /\ ~s.awaiting THEN "offer_invoice_confirmation"
      ELSE IF \E n \in DOMAIN s.lines : s.lines[n].resolved THEN "finalize_order"
      ELSE "ask_for_fields"

CheckMissingFields(t) ==
  Node(t, "check_missing_fields", Checked(st[t]), MissingRoute(Checked(st[t])))

AskForFields(t) ==
  Node(t, "ask_for_fields",
       [st[t] EXCEPT !.status = "AWAITING_FIELDS", !.reply = "ask"], "done")

(* The summary lists the orderable lines.  It awaits an answer once the    *)
(* session is saved, also when writing the draft then fails and the        *)
(* shopper is told of an error instead.                                    *)
OfferInvoiceConfirmation(t) ==
  LET ready == Orderable(st[t].lines)
      none == [st[t] EXCEPT !.status = "AWAITING_FIELDS", !.reply = "no_items"]
      offer == [st[t] EXCEPT !.status = "AWAITING_CONFIRMATION", !.reply = "offer",
                             !.awaiting = TRUE, !.proceed = FALSE]
  IN  /\ pc[t] = "offer_invoice_confirmation"
      /\ IF ready = {}
           THEN Finish(t, none, "done") /\ UNCHANGED offered
           ELSE /\ Finish(t, offer, "done")
                /\ offered' = IF saved' = offer
                                 THEN [cart |-> Only(st[t].lines, ready), by |-> t]
                                 ELSE offered
      /\ UNCHANGED <<storeVars, msg, calls, moneyVars, changes>>
-----------------------------------------------------------------------------
(* finalize_order.  Without an orderable line it says so and returns, and  *)
(* the route, which looks at unavailable items only, goes on to the        *)
(* invoice with the lines as they are.                                     *)
FreshId(s, t) == IF s.invId = NoValue THEN t ELSE s.invId

Finalized(s, t, out) ==
  LET ready == Orderable(s.lines)
  IN  IF ready = {}
        THEN [s EXCEPT !.status = "AWAITING_FIELDS", !.missing = {"product"},
                       !.reply = "no_items"]
      ELSE IF out # {}
        THEN [s EXCEPT !.status = "AWAITING_FIELDS", !.unavailable = out,
                       !.invId = FreshId(s, t)]
      ELSE [s EXCEPT !.lines = Only(@, ready), !.status = "VALIDATED", !.reply = "validated",
                     !.invId = FreshId(s, t)]

FinalizeRoute(s) == IF s.unavailable = {} THEN "generate_invoice" ELSE "suggest_alternative"

FinalizeOrder(t) ==
  \E out \in SUBSET OrderableItems(st[t].lines) :
    /\ CacheSays(st[t].lines, Short(st[t].lines) \union Gone(st[t].lines), out)
    /\ Runs(t, "finalize_order", Finalized(st[t], t, out), FinalizeRoute(Finalized(st[t], t, out)))

(* generate_invoice inserts the orders row under the session's invoice id  *)
(* and commits.  A line without a quantity, a price or a brand, or a row   *)
(* that already has the id, raises.  The summary is answered with that.    *)
Billable(cart) ==
  \A n \in DOMAIN cart : cart[n].qty # 0 /\ cart[n].priced /\ cart[n].brand # NoValue

Inserts(t, id) ==
  /\ orders' = [orders EXCEPT ![id] = [lines |-> st[t].lines, known |-> st[t].known,
                                       by |-> t, seen |-> offered]]
  /\ offered' = NoValue
  /\ Finish(t, [st[t] EXCEPT !.invoice = id, !.status = "VALIDATED", !.reply = "generated",
                             !.awaiting = FALSE, !.proceed = FALSE],
            "dispatch_invoice_processing")

(* Mutant: the orders row is written over instead of inserted.             *)
MutGenerateUpsert(t) ==
  /\ pc[t] = "generate_invoice"
  /\ Billable(st[t].lines)
  /\ Inserts(t, FreshId(st[t], t))
  /\ UNCHANGED <<storeVars, msg, calls, holds, link, orphans, lost, changes>>

GenerateInvoice(t) ==
  LET fits == Billable(st[t].lines)
      id == FreshId(st[t], t)
  IN  /\ pc[t] = "generate_invoice"
      /\ \/ fits /\ orders[id] = NoValue /\ Inserts(t, id)
         \/ /\ ~fits \/ orders[id] # NoValue
            /\ Raised(t, IF fits THEN "duplicate" ELSE "error")
            /\ UNCHANGED <<orders, offered, redisVars, faults>>
         \/ /\ Fault
            /\ Raised(t, "error")
            /\ UNCHANGED <<orders, offered, redisVars>>
      /\ UNCHANGED <<storeVars, msg, calls, holds, link, orphans, lost, changes>>
-----------------------------------------------------------------------------
(* dispatch_invoice_processing sends both requests at once.  A request     *)
(* that fails, or whose answer is lost, counts as unsuccessful.            *)
AtDispatch(t) == pc[t] = "dispatch_invoice_processing"

(* Mutant: the UPDATE of the stock does not compare it with the quantity.  *)
MutReserveUnchecked(cart) == DOMAIN cart # {} /\ \A n \in DOMAIN cart : cart[n].item \in listed

CanReserve(cart) ==
  /\ DOMAIN cart # {}
  /\ \A n \in DOMAIN cart : /\ cart[n].item \in listed
                            /\ stock[cart[n].item] >= cart[n].qty

SubmitInvoice(t) ==
  LET id == st[t].invoice
      cart == orders[id].lines
      taken(i) == IF i \in ItemIds(cart)
                    THEN cart[CHOOSE n \in DOMAIN cart : cart[n].item = i].qty ELSE 0
      done(result) == calls' = [calls EXCEPT ![t].res = result]
  IN  /\ AtDispatch(t) /\ calls[t].res = "wait"
      /\ \/ /\ CanReserve(cart)
            /\ stock' = [i \in Items |-> stock[i] - taken(i)]
            /\ holds' = [holds EXCEPT ![id] = @ + 1]
            /\ \/ done("ok") /\ UNCHANGED <<lost, faults>>
               \/ done("no") /\ Fault /\ lost' = lost \union {<<"reserve", id>>}
         \/ /\ done("no")
            /\ UNCHANGED <<stock, holds, lost>>
            /\ \/ ~CanReserve(cart) /\ UNCHANGED faults
               \/ Fault
      /\ UNCHANGED <<listed, redisVars, turnVars, msg, orders, link, orphans, offered, changes>>

(* create_payment_link answers success only once Razorpay has the link and *)
(* Redis has its id.                                                       *)
CreatePaymentLink(t) ==
  LET id == st[t].invoice
      done(result) == calls' = [calls EXCEPT ![t].pay = result]
  IN  /\ AtDispatch(t) /\ calls[t].pay = "wait"
      /\ \/ /\ link' = [link EXCEPT ![id] = "live"]
            /\ \/ done("ok") /\ UNCHANGED faults
               \/ done("no") /\ Fault
         \/ /\ done("no") /\ Fault
            /\ UNCHANGED link
      /\ UNCHANGED <<storeVars, redisVars, turnVars, msg, orders, holds, orphans, lost, offered,
                     changes>>

DispatchInvoiceProcessing(t) ==
  /\ calls[t].res # "wait" /\ calls[t].pay # "wait"
  /\ Node(t, "dispatch_invoice_processing", st[t], "resolve_invoice_outcome")

Unbacked(call) == call.res = "no" /\ call.pay = "ok"

(* resolve_invoice_outcome first voids the link of an order that is not    *)
(* reserved.  The payment service answers 200 also when the link is still  *)
(* live, and the agent looks at exceptions only; they leave an             *)
(* ORPHANED_PAYMENT_LINK_RISK audit.                                       *)
CancelPaymentLink(t) ==
  LET id == st[t].invoice
      cancelled == [link EXCEPT ![id] = "cancelled"]
  IN  /\ pc[t] = "resolve_invoice_outcome"
      /\ Unbacked(calls[t])
      /\ calls' = [calls EXCEPT ![t].pay = "voided"]
      /\ \/ link' = cancelled /\ UNCHANGED <<orphans, lost, faults>>
         \/ /\ Fault
            /\ link' \in {link, cancelled}
            /\ lost' = lost \union {<<"cancel", id>>}
            /\ orphans' \in {orphans, orphans \union {id}}
      /\ UNCHANGED <<storeVars, redisVars, turnVars, msg, orders, holds, offered, changes>>

(* Mutant: a created link alone makes the order an invoiced one.           *)
MutOutcomeByPayment(s, call) ==
  [s EXCEPT !.awaiting = FALSE, !.proceed = FALSE, !.invId = s.invoice,
            !.status = IF call.pay # "no" THEN "INVOICED" ELSE "AWAITING_FIELDS",
            !.reply = IF call.pay # "no" THEN "invoiced" ELSE "unreserved"]

Outcome(s, call) ==
  LET closed == [s EXCEPT !.awaiting = FALSE, !.proceed = FALSE, !.invId = s.invoice]
  IN  IF call.res = "ok"
        THEN [closed EXCEPT !.status = "INVOICED",
                            !.reply = IF call.pay = "ok" THEN "invoiced" ELSE "no_link"]
        ELSE [closed EXCEPT !.status = "AWAITING_FIELDS", !.invoice = NoValue,
                            !.reply = IF call.pay = "voided" THEN "voided" ELSE "unreserved"]

ResolveInvoiceOutcome(t) ==
  /\ pc[t] = "resolve_invoice_outcome"
  /\ ~Unbacked(calls[t])
  /\ Finish(t, Outcome(st[t], calls[t]), "done")
  /\ calls' = [calls EXCEPT ![t] = NoCalls]
  /\ UNCHANGED <<storeVars, msg, moneyVars, offered, changes>>
-----------------------------------------------------------------------------
StockChanges(i, n) ==
  /\ Change
  /\ n # stock[i]
  /\ stock' = [stock EXCEPT ![i] = n]
  /\ UNCHANGED <<listed, redisVars, turnVars, msg, calls, moneyVars, offered, faults>>

Delist(i) ==
  /\ Change
  /\ i \in listed
  /\ listed' = listed \ {i}
  /\ UNCHANGED <<stock, redisVars, turnVars, msg, calls, moneyVars, offered, faults>>

(* session_ttl_seconds without a turn.                                     *)
SessionExpires ==
  /\ Change
  /\ saved # NoValue
  /\ \A t \in Turns : pc[t] \in {"idle", "done"}
  /\ saved' = NoValue /\ draft' = NoValue /\ offered' = NoValue
  /\ UNCHANGED <<storeVars, turnVars, msg, calls, moneyVars, faults>>

TurnStep(t) ==
  \/ LoadSession(t) \/ LoadOrderDraft(t) \/ OffTopicGuard(t) \/ ParseIntent(t)
  \/ ResolveInvoiceConfirmation(t) \/ ResolveCatalog(t)
  \/ ReactPlanner(t) \/ ReactToolSelector(t) \/ ReactExecutor(t)
  \/ CheckAvailability(t) \/ SuggestAlternative(t) \/ CheckMissingFields(t)
  \/ AskForFields(t) \/ OfferInvoiceConfirmation(t)
  \/ FinalizeOrder(t) \/ GenerateInvoice(t)
  \/ SubmitInvoice(t) \/ CreatePaymentLink(t) \/ DispatchInvoiceProcessing(t)
  \/ CancelPaymentLink(t) \/ ResolveInvoiceOutcome(t)

Next ==
  \/ \E t \in Turns : TurnStep(t) \/ \E m \in Messages : Begin(t, m)
  \/ \E i \in Items : Delist(i) \/ \E n \in 0..MaxStock : StockChanges(i, n)
  \/ SessionExpires

Spec == Init /\ [][Next]_vars
-----------------------------------------------------------------------------
(* Every variable has values of its type.                                  *)
TypeOK ==
  /\ listed \subseteq Items
  /\ stock \in [Items -> 0..MaxStock]
  /\ saved \in Session \union {NoValue}
  /\ draft \in Draft \union {NoValue}
  /\ pc \in [Turns -> Nodes]
  /\ msg \in [Turns -> Messages \union {NoValue}]
  /\ st \in [Turns -> Session]
  /\ calls \in [Turns -> [res: {"wait", "ok", "no"}, pay: {"wait", "ok", "no", "voided"}]]
  /\ orders \in [Turns -> OrderRow \union {NoValue}]
  /\ holds \in [Turns -> Nat]
  /\ link \in [Turns -> {"none", "live", "cancelled"}]
  /\ orphans \subseteq Turns
  /\ offered \in Summary \union {NoValue}
  /\ lost \subseteq {"reserve", "cancel"} \X Turns
  /\ answer \in [Turns -> Response \union {NoValue}]
  /\ changes \in Nat /\ faults \in Nat

Ordered == {id \in Turns : orders[id] # NoValue}

SameLine(a, b) == a.item = b.item /\ a.brand = b.brand /\ a.qty = b.qty

(* The summary an order o answers was made in an earlier turn: it was that *)
(* turn's answer, unless the turn failed after it had saved the session.   *)
(* The order has of it each line that no message since then names.         *)
Answers(o) ==
  /\ o.seen # NoValue
  /\ o.seen.by < o.by
  /\ answer[o.seen.by].reply = "offer" \/ answer[o.seen.by].status = "FAILED"
  /\ \A n \in DOMAIN o.lines :
       \/ \E u \in (o.seen.by + 1)..o.by : n \in DOMAIN msg[u].lines
       \/ n \in DOMAIN o.seen.cart /\ SameLine(o.lines[n], o.seen.cart[n])

(* An order is written only by a turn whose message says to proceed, and,  *)
(* when turns do not overlap, in answer to a summary that no other order   *)
(* answered.  A line that a message names after the summary is ordered     *)
(* without another one: the shopper named it, but never saw its brand.     *)
OrderWasConfirmed ==
  \A id \in Ordered : msg[orders[id].by].proceed /\ (Overlap \/ Answers(orders[id]))

(* Every order has its customer name, address and phone, although a turn   *)
(* that says proceed skips the missing-fields check of _missing_route.     *)
InvoiceIsComplete == \A id \in Ordered : orders[id].known = Fields

(* No order is reserved twice, whatever is retried after whatever failed:  *)
(* the primary key of orders stops a second dispatch of the same id.       *)
ReservedOnce == \A id \in Turns : holds[id] <= 1

(* What an answer says of stock and of the payment link is so.  One that   *)
(* says invoiced has an order, a hold and, with a link, a live link.  One  *)
(* that says the reservation failed has no hold, unless submit_invoice     *)
(* granted it and its result was lost; one that says the link was voided   *)
(* has no live link, unless the call to cancel it failed: the agent says   *)
(* so all the same.  No hold or link is there without an order.            *)
AnswerIsBacked ==
  /\ \A t \in Turns : answer[t] # NoValue =>
       LET a == answer[t]
       IN  /\ a.status = "INVOICED" => a.id \in Ordered /\ holds[a.id] = 1
           /\ a.reply = "invoiced" => link[a.id] = "live"
           /\ a.reply \in {"voided", "unreserved"} =>
                holds[a.id] = 0 \/ <<"reserve", a.id>> \in lost
           /\ a.reply = "voided" => link[a.id] # "live" \/ <<"cancel", a.id>> \in lost
  /\ \A id \in Turns : holds[id] > 0 \/ link[id] # "none" => id \in Ordered

(* A line that waits for a substitute is not in any order.                 *)
StockoutNotInvoiced == \A id \in Ordered : Pending(orders[id].lines) = {}

(* A customer field that is known stays known while the session lives: the *)
(* comment of load_session, "Preserve known cart / customer fields across  *)
(* turns".                                                                 *)
FieldsKept == [][saved # NoValue /\ saved' # NoValue => saved.known \subseteq saved'.known]_vars

(* The steps a turn still has before it at most.                           *)
StepsLeft(t) ==
  LET waiting == Cardinality({c \in {"res", "pay"} : calls[t][c] = "wait"})
      rounds == 11 + 3 * (LoopMax - st[t].loops)
  IN  CASE pc[t] = "load_session" -> 3 * LoopMax + 19
        [] pc[t] = "load_draft" -> 3 * LoopMax + 18
        [] pc[t] = "off_topic_guard" -> 3 * LoopMax + 17
        [] pc[t] = "parse_intent" -> 3 * LoopMax + 16
        [] pc[t] = "resolve_invoice_confirmation" -> 3 * LoopMax + 15
        [] pc[t] = "resolve_catalog" -> 3 * LoopMax + 14
        [] pc[t] = "react_planner" -> rounds + 2
        [] pc[t] = "react_tool_selector" -> rounds + 1
        [] pc[t] = "react_executor" -> rounds
        [] pc[t] = "check_availability" -> 10
        [] pc[t] = "check_missing_fields" -> 9
        [] pc[t] = "finalize_order" -> 8
        [] pc[t] = "generate_invoice" -> 7
        [] pc[t] = "dispatch_invoice_processing" -> 4 + waiting
        [] pc[t] = "resolve_invoice_outcome" -> IF Unbacked(calls[t]) THEN 3 ELSE 2
        [] pc[t] \in {"ask_for_fields", "offer_invoice_confirmation",
                      "suggest_alternative"} -> 1
        [] OTHER -> 0

(* Every turn is answered, in a bounded number of steps: a turn that began *)
(* can always go on, and each step leaves it fewer than before.  The       *)
(* planner loop is the only cycle of the graph, and react_loop_max and the *)
(* goals already attempted end it.                                         *)
TurnEnds ==
  /\ [](\A t \in Turns : StepsLeft(t) > 0 => ENABLED TurnStep(t))
  /\ [][\A t \in Turns : pc[t] # "idle"
                         /\ <<pc[t], st[t], calls[t]>>' # <<pc[t], st[t], calls[t]>>
                         => StepsLeft(t)' < StepsLeft(t)]_vars

(* Said by docs/EDGE_CASE_TEST_REPORT.md, "Invoice generated in same       *)
(* session after alternative acceptance": a session that never got an      *)
(* invoice is not refused one for having a row already.                    *)
NoOrderCollision ==
  \A t \in Turns : answer[t] # NoValue /\ answer[t].reply = "duplicate" =>
    \E u \in Turns : answer[u] # NoValue /\ answer[u].status = "INVOICED"
=============================================================================
