-------------------------- MODULE OrderTurnProofs --------------------------
(***************************************************************************)
(* Proofs about OrderTurn for every catalogue, every set of messages and   *)
(* any number of turns: what is ordered was shown and confirmed, what is   *)
(* answered is so, and nothing is reserved twice.                          *)
(***************************************************************************)
EXTENDS OrderTurn, FiniteSetTheorems, TLAPS

(* A cart is a function from some of the names to lines.                   *)
LEMMA CartElim ==
  ASSUME NEW cart \in Carts
  PROVE  /\ DOMAIN cart \subseteq Names
         /\ \A n \in DOMAIN cart : cart[n] \in Line
         /\ cart = [n \in DOMAIN cart |-> cart[n]]
BY DEF Carts

LEMMA CartIntro ==
  ASSUME NEW cart, DOMAIN cart \subseteq Names,
         cart = [n \in DOMAIN cart |-> cart[n]],
         \A n \in DOMAIN cart : cart[n] \in Line
  PROVE  cart \in Carts
<1>1. cart \in [DOMAIN cart -> Line]
  OBVIOUS
<1>. QED
  BY <1>1 DEF Carts

LEMMA CartOnly ==
  ASSUME NEW cart \in Carts, NEW S \in SUBSET DOMAIN cart
  PROVE  /\ Only(cart, S) \in Carts
         /\ DOMAIN Only(cart, S) = S
         /\ \A n \in S : Only(cart, S)[n] = cart[n]
<1>1. /\ DOMAIN Only(cart, S) = S
      /\ \A n \in S : Only(cart, S)[n] = cart[n]
      /\ Only(cart, S) = [n \in DOMAIN Only(cart, S) |-> Only(cart, S)[n]]
  BY DEF Only
<1>. QED
  BY <1>1, CartElim, CartIntro

(* A line that is resolved has the item of its name and brand, a quantity, *)
(* and no other state.                                                     *)
LineSound(n, line) ==
  line.resolved => /\ line.item = <<n, line.brand>> /\ line.item # NoValue
                   /\ line.qty # 0 /\ line.status = "resolved"

Sound(cart) == \A n \in DOMAIN cart : LineSound(n, cart[n])

(* What a node may do to a cart in a turn that says m, seen from a line    *)
(* that was found in the catalogue: only a message changes it.             *)
Settled(n, line) == line.item = <<n, line.brand>> /\ line.brand # NoValue /\ line.qty # 0

Follows(old, new, m) ==
  /\ Pending(old) = {} => Pending(new) = {}
  /\ \A n \in DOMAIN new :
       \/ n \in DOMAIN m.lines
       \/ n \in DOMAIN old /\ (Settled(n, old[n]) => SameLine(new[n], old[n]))

LEMMA FollowsSame == \A cart, m : Follows(cart, cart, m)
BY DEF Follows, SameLine

LEMMA FollowsOnly ==
  ASSUME NEW old, NEW new, NEW m, NEW S \in SUBSET DOMAIN new, Follows(old, new, m)
  PROVE  Follows(old, Only(new, S), m)
<1>1. DOMAIN Only(new, S) = S /\ \A n \in S : Only(new, S)[n] = new[n]
  BY DEF Only
<1>. QED
  BY <1>1 DEF Follows, Pending

LEMMA DefaultQtyLine ==
  ASSUME NEW line \in Line
  PROVE  /\ WithDefaultQty(line) \in Line
         /\ \A n : LineSound(n, line) => LineSound(n, WithDefaultQty(line))
         /\ WithDefaultQty(line).status = line.status
         /\ WithDefaultQty(line).resolved = line.resolved
         /\ WithDefaultQty(line).item = line.item
         /\ WithDefaultQty(line).brand = line.brand
         /\ line.qty # 0 => WithDefaultQty(line) = line
         /\ line.resolved /\ line.status # "not_found" => WithDefaultQty(line).qty # 0
BY CartAssumption DEF WithDefaultQty, Line, LineSound

(* What a message says of one line.                                        *)
LEMMA MentionedLine ==
  ASSUME NEW line \in Line, NEW said \in [brand: Brands \union {NoValue}, qty: 0..MaxQty]
  PROVE  /\ Mentioned(line, said) \in Line /\ ~Mentioned(line, said).resolved
         /\ Mentioned(line, said).status = "none"
         /\ NewLine(said) \in Line /\ ~NewLine(said).resolved /\ NewLine(said).status = "none"
BY CartAssumption DEF Mentioned, NewLine, Line, CatalogStatus

(* parse_intent keeps a cart a cart, and makes no line pending or resolved *)
LEMMA ParsedCart ==
  ASSUME NEW cart \in Carts, NEW said, said.lines \in SaidLines, said.remove \subseteq Names
  PROVE  /\ Parsed(cart, said) \in Carts
         /\ Sound(cart) => Sound(Parsed(cart, said))
         /\ Follows(cart, Parsed(cart, said), said)
<1> DEFINE named == DOMAIN said.lines \ said.remove
           after(n) == IF n \notin named THEN cart[n]
                       ELSE IF n \in DOMAIN cart THEN Mentioned(cart[n], said.lines[n])
                       ELSE NewLine(said.lines[n])
           dom == (DOMAIN cart \union named) \ said.remove
           new == Parsed(cart, said)
<1>1. /\ DOMAIN said.lines \subseteq Names
      /\ \A n \in named : said.lines[n] \in [brand: Brands \union {NoValue}, qty: 0..MaxQty]
  BY DEF SaidLines
<1>2. /\ DOMAIN cart \subseteq Names
      /\ \A n \in DOMAIN cart : cart[n] \in Line
  BY CartElim
<1>3. new = [n \in dom |-> WithDefaultQty(after(n))]
  BY DEF Parsed
<1>4. ASSUME NEW n \in dom
      PROVE  /\ after(n) \in Line
             /\ \/ n \in DOMAIN cart /\ after(n) = cart[n]
                \/ ~after(n).resolved /\ after(n).status = "none"
  <2>1. CASE n \notin named
    BY <1>2, <2>1
  <2>2. CASE n \in named /\ n \in DOMAIN cart
    BY <1>1, <1>2, <2>2, MentionedLine
  <2>3. CASE n \in named /\ n \notin DOMAIN cart
    BY <1>1, <1>2, <2>3, MentionedLine, CartAssumption
    DEF NewLine, Line, CatalogStatus
  <2>. QED
    BY <2>1, <2>2, <2>3
<1> HIDE DEF after
<1>5. DOMAIN new = dom /\ \A n \in dom : new[n] = WithDefaultQty(after(n))
  BY <1>3
<1>6. new \in Carts
  <2>1. \A n \in dom : new[n] \in Line
    BY <1>4, <1>5, DefaultQtyLine
  <2>2. dom \subseteq Names
    BY <1>1, <1>2
  <2>3. new = [n \in DOMAIN new |-> new[n]]
    BY <1>3, <1>5
  <2>. QED
    BY <1>5, <2>1, <2>2, <2>3, CartIntro
<1>7. ASSUME Sound(cart) PROVE Sound(new)
  <2>1. \A n \in dom : LineSound(n, after(n))
    BY <1>4, <1>7 DEF Sound, LineSound
  <2>. QED
    BY <1>4, <1>5, <2>1, DefaultQtyLine DEF Sound
<1>8. Follows(cart, new, said)
  <2>1. ASSUME Pending(cart) = {} PROVE Pending(new) = {}
    <3>1. \A n \in dom : after(n).status # "stockout_pending"
      BY <1>4, <2>1 DEF Pending
    <3>. QED
      BY <1>4, <1>5, <3>1, DefaultQtyLine DEF Pending
  <2>2. ASSUME NEW n \in dom, n \notin DOMAIN said.lines
        PROVE  n \in DOMAIN cart /\ (Settled(n, cart[n]) => SameLine(new[n], cart[n]))
    <3>1. n \in DOMAIN cart /\ n \notin named
      BY <2>2
    <3>2. after(n) = cart[n] /\ cart[n] \in Line
      BY <1>2, <3>1 DEF after
    <3>. QED
      BY <1>5, <3>1, <3>2, DefaultQtyLine DEF Settled, SameLine
  <2>. QED
    BY <1>5, <2>1, <2>2 DEF Follows
<1>. QED
  BY <1>6, <1>7, <1>8

(* The lines that stay when others are taken over.                         *)
LEMMA SubstitutedCart ==
  ASSUME NEW old, NEW m, NEW cart \in Carts, NEW said, NEW new \in Substituted(cart, said)
  PROVE  /\ new \in Carts
         /\ Sound(cart) => Sound(new)
         /\ Follows(old, cart, m) => Follows(old, new, m)
<1>1. PICK taken : new = Only(cart, DOMAIN cart \ taken)
  BY DEF Substituted
<1>2. DOMAIN cart \ taken \in SUBSET DOMAIN cart
  OBVIOUS
<1>. QED
  BY <1>1, <1>2, CartOnly, FollowsOnly DEF Sound

(* resolve_catalog.                                                        *)
LEMMA ResolvedOne ==
  ASSUME NEW n \in Names, NEW line \in Line, NEW shown \in SUBSET Items
  PROVE  /\ ResolvedLine(n, line, shown) \in Line
         /\ LineSound(n, line) => LineSound(n, WithDefaultQty(ResolvedLine(n, line, shown)))
         /\ Settled(n, line) => SameLine(WithDefaultQty(ResolvedLine(n, line, shown)), line)
         /\ line.status # "stockout_pending" =>
              ResolvedLine(n, line, shown).status # "stockout_pending"
<1> DEFINE found == Matches(n, line, shown)
           i == CHOOSE x \in found : TRUE
           new == ResolvedLine(n, line, shown)
<1>1. CASE line.status = "stockout_pending"
  <2>1. new = line
    BY <1>1 DEF ResolvedLine
  <2>. QED
    BY <1>1, <2>1, DefaultQtyLine DEF Settled, SameLine
<1>2. CASE line.status # "stockout_pending" /\ Cardinality(found) = 1
  <2>1. found # {}
    <3>1. SUFFICES ASSUME found = {} PROVE FALSE
      OBVIOUS
    <3>2. Cardinality({}) = 1
      BY <1>2, <3>1, Zenon
    <3>. QED
      BY <3>2, FS_EmptySet
  <2>2. i \in Items /\ i[1] = n /\ (line.brand = NoValue \/ i[2] = line.brand)
    BY <2>1 DEF Matches
  <2>3. new = [line EXCEPT !.item = i, !.brand = i[2], !.priced = TRUE,
                           !.resolved = TRUE, !.status = "resolved"]
    BY <1>2 DEF ResolvedLine
  <2> HIDE DEF i
  <2>4. i[2] \in Brands /\ i # NoValue /\ i = <<n, i[2]>>
    BY <2>2, CartAssumption DEF Items
  <2>5. /\ new \in Line /\ new.resolved /\ new.status = "resolved"
        /\ new.item = i /\ new.brand = i[2] /\ new.qty = line.qty
    BY <2>2, <2>3, <2>4 DEF Line, CatalogStatus
  <2> HIDE DEF new
  <2>6. LineSound(n, WithDefaultQty(new))
    BY <2>4, <2>5, DefaultQtyLine DEF LineSound
  <2>7. Settled(n, line) => SameLine(WithDefaultQty(new), line)
    BY <2>2, <2>4, <2>5, DefaultQtyLine DEF Settled, SameLine
  <2>. QED
    BY <1>2, <2>5, <2>6, <2>7 DEF new
<1>3. CASE line.status # "stockout_pending" /\ Cardinality(found) # 1
  <2>1. new = [line EXCEPT !.resolved = FALSE,
                           !.status = IF found = {} THEN "not_found" ELSE "ambiguous"]
    BY <1>3 DEF ResolvedLine
  <2>2. /\ new \in Line /\ ~new.resolved /\ new.status # "stockout_pending"
        /\ SameLine(new, line)
    BY <2>1 DEF Line, CatalogStatus, SameLine
  <2> HIDE DEF new
  <2>3. Settled(n, line) => SameLine(WithDefaultQty(new), line)
    BY <2>2, DefaultQtyLine DEF Settled, SameLine
  <2>. QED
    BY <1>3, <2>2, <2>3, DefaultQtyLine DEF LineSound, new
<1>. QED
  BY <1>1, <1>2, <1>3

LEMMA ResolvedCart ==
  ASSUME NEW cart \in Carts, NEW shown \in SUBSET Items
  PROVE  /\ Resolved(cart, shown) \in Carts
         /\ Sound(cart) => Sound(Resolved(cart, shown))
         /\ \A m : Follows(cart, Resolved(cart, shown), m)
<1> DEFINE new == Resolved(cart, shown)
<1>1. /\ DOMAIN cart \subseteq Names
      /\ \A n \in DOMAIN cart : cart[n] \in Line
  BY CartElim
<1>2. /\ DOMAIN new = DOMAIN cart
      /\ \A n \in DOMAIN cart : new[n] = WithDefaultQty(ResolvedLine(n, cart[n], shown))
      /\ new = [n \in DOMAIN new |-> new[n]]
  BY DEF Resolved
<1> HIDE DEF new
<1>3. \A n \in DOMAIN cart : new[n] \in Line
  BY <1>1, <1>2, ResolvedOne, DefaultQtyLine
<1>4. new \in Carts
  BY <1>1, <1>2, <1>3, CartIntro
<1>5. Sound(cart) => Sound(new)
  BY <1>1, <1>2, ResolvedOne DEF Sound
<1>6. Pending(cart) = {} => Pending(new) = {}
  BY <1>1, <1>2, ResolvedOne, DefaultQtyLine DEF Pending
<1>7. \A n \in DOMAIN cart : Settled(n, cart[n]) => SameLine(new[n], cart[n])
  BY <1>1, <1>2, ResolvedOne
<1>. QED
  BY <1>2, <1>4, <1>5, <1>6, <1>7 DEF Follows, new

(* suggest_alternative.                                                    *)
LEMMA StockoutCart ==
  ASSUME NEW cart \in Carts, NEW out
  PROVE  /\ StockoutPending(cart, out) \in Carts
         /\ Sound(cart) => Sound(StockoutPending(cart, out))
<1> DEFINE new == StockoutPending(cart, out)
<1>1. /\ DOMAIN cart \subseteq Names
      /\ \A n \in DOMAIN cart : cart[n] \in Line
  BY CartElim
<1>2. /\ DOMAIN new = DOMAIN cart
      /\ \A n \in DOMAIN cart :
           new[n] = IF cart[n].item \in out
                      THEN [cart[n] EXCEPT !.resolved = FALSE, !.item = NoValue,
                                           !.status = "stockout_pending"]
                      ELSE cart[n]
      /\ new = [n \in DOMAIN new |-> new[n]]
  BY DEF StockoutPending
<1>3. ASSUME NEW n \in DOMAIN cart
      PROVE  new[n] \in Line /\ (new[n] = cart[n] \/ ~new[n].resolved)
  <2> DEFINE line == [cart[n] EXCEPT !.resolved = FALSE, !.item = NoValue,
                                     !.status = "stockout_pending"]
  <2>1. cart[n] \in Line
    BY <1>1
  <2>2. line \in Line /\ ~line.resolved
    BY <2>1 DEF Line, CatalogStatus
  <2>3. new[n] = line \/ new[n] = cart[n]
    BY <1>2
  <2> HIDE DEF line, new
  <2>. QED
    BY <2>1, <2>2, <2>3
<1> HIDE DEF new
<1>4. new \in Carts
  BY <1>1, <1>2, <1>3, CartIntro
<1>5. Sound(cart) => Sound(new)
  BY <1>2, <1>3 DEF Sound, LineSound
<1>. QED
  BY <1>4, <1>5 DEF new
-----------------------------------------------------------------------------
(***************************************************************************)
(* What a session that stands before a node may be.  An open offer was     *)
(* made with every customer field known, and so was whatever the shopper   *)
(* then told to proceed with; only those go to finalize_order.             *)
(***************************************************************************)
(* The nodes after resolve_invoice_confirmation closed the offer.          *)
ClosedNodes ==
  Nodes \ {"load_draft", "off_topic_guard", "parse_intent", "resolve_invoice_confirmation"}

Fits(s, node, m) ==
  /\ Sound(s.lines)
  /\ s.awaiting => s.known = Fields
  /\ s.proceed => s.known = Fields /\ m.proceed
  /\ node \in ClosedNodes /\ node # "done" => ~s.awaiting
  /\ node = "offer_invoice_confirmation" =>
       s.known = Fields /\ Orderable(s.lines) = DOMAIN s.lines
  /\ node \in {"finalize_order", "generate_invoice"} => s.proceed
  /\ node = "suggest_alternative" => s.unavailable # {}

SessionInv ==
  /\ \A t \in Turns : Fits(st[t], pc[t], msg[t])
  /\ \A t \in Turns : pc[t] \in {"idle", "load_session", "done"} => st[t] = NewSession
  /\ \A t \in Turns : pc[t] # "idle" => msg[t] \in Messages
  /\ saved # NoValue => Sound(saved.lines) /\ (saved.awaiting => saved.known = Fields)
  /\ draft # NoValue => Sound(draft.lines)

(* A node that writes s back and goes on to next.                          *)
Visits(t, s, next) ==
  /\ pc[t] \notin {"idle", "load_session", "done"}
  /\ s \in Session /\ next \in Nodes \ {"idle", "load_session", "load_draft"}
  /\ Finish(t, s, next)
  /\ Fits(s, next, msg[t])
  /\ offered' \in Summary \union {NoValue} /\ changes' \in Nat
  /\ UNCHANGED <<storeVars, msg>>

(* What a node keeps of the session it works on: the customer fields, and, *)
(* of an offer or a confirmation, a cart that follows from the one before. *)
Keeps(t, s, next) ==
  IF pc[t] = "load_draft" THEN s = Loaded(st[t])
  ELSE /\ st[t].known \subseteq s.known
       /\ s.awaiting => st[t].awaiting
       /\ s.proceed => st[t].awaiting \/ st[t].proceed
       /\ s.awaiting \/ (s.proceed /\ next # "done") => Follows(st[t].lines, s.lines, msg[t])

LEMMA NewSessionFits ==
  /\ NewSession \in Session
  /\ DraftOf(NewSession) \in Draft
  /\ \A node, m : node # "offer_invoice_confirmation" /\ node # "suggest_alternative"
                   /\ node \notin {"finalize_order", "generate_invoice"}
       => Fits(NewSession, node, m)
<1>1. EmptyCart \in Carts /\ DOMAIN EmptyCart = {}
  <2>1. DOMAIN EmptyCart = {} /\ EmptyCart = [n \in DOMAIN EmptyCart |-> EmptyCart[n]]
    BY DEF EmptyCart
  <2>. QED
    BY <2>1, CartIntro
<1>2. NewSession \in Session
  <2>1. 0 \in 0..LoopMax
    BY TurnAssumption DEF LoopMax
  <2>. QED
    BY <1>1, <2>1 DEF NewSession, Session, Status, Replies, Goals
<1>3. Sound(EmptyCart)
  BY <1>1 DEF Sound
<1>. QED
  BY <1>1, <1>2, <1>3 DEF Fits, NewSession, DraftOf, Draft

(* What a node that writes its session back leaves behind.                 *)
LEMMA FinishStep ==
  ASSUME TypeOK, NEW t \in Turns, NEW s \in Session, NEW next \in Nodes, Finish(t, s, next)
  PROVE  /\ saved' \in Session \union {NoValue} /\ saved' \in {saved, s}
         /\ draft' \in Draft \union {NoValue} /\ draft' \in {draft, DraftOf(s)}
         /\ pc' \in [Turns -> Nodes] /\ st' \in [Turns -> Session]
         /\ answer' \in [Turns -> Response \union {NoValue}]
         /\ faults' \in Nat
         /\ \A u \in Turns \ {t} : pc'[u] = pc[u] /\ st'[u] = st[u] /\ answer'[u] = answer[u]
         /\ \/ /\ next # "done" /\ pc'[t] = next /\ st'[t] = s /\ answer'[t] = answer[t]
               /\ saved' = s /\ draft' = DraftOf(s)
            \/ /\ pc'[t] = "done" /\ st'[t] = NewSession
               /\ \/ /\ next = "done" /\ saved' = s /\ draft' = DraftOf(s)
                     /\ answer'[t] = [status |-> s.status, reply |-> s.reply, id |-> s.invId]
                  \/ /\ draft' = draft
                     /\ answer'[t] = [status |-> "FAILED", reply |-> "error", id |-> NoValue]
<1>1. DraftOf(s) \in Draft
  BY DEF DraftOf, Draft, Session
<1>2. /\ [status |-> s.status, reply |-> s.reply, id |-> s.invId] \in Response
      /\ [status |-> "FAILED", reply |-> "error", id |-> NoValue] \in Response
  BY DEF Session, Response, Status, Replies
<1>3. "done" \in Nodes /\ NewSession \in Session
  BY NewSessionFits DEF Nodes
<1>4. CASE /\ saved' = s /\ draft' = DraftOf(s) /\ UNCHANGED <<answer, faults>> /\ next # "done"
           /\ pc' = [pc EXCEPT ![t] = next] /\ st' = [st EXCEPT ![t] = s]
  BY <1>1, <1>4 DEF TypeOK
<1>5. CASE /\ saved' = s /\ draft' = DraftOf(s) /\ next = "done" /\ UNCHANGED faults
           /\ Ended(t, s.status, s.reply, s.invId)
  BY <1>1, <1>2, <1>3, <1>5 DEF TypeOK, Ended
<1>6. CASE Fault /\ saved' \in {saved, s} /\ UNCHANGED draft /\ Raised(t, "error")
  BY <1>2, <1>3, <1>6 DEF TypeOK, Raised, Ended, Fault
<1>. QED
  BY <1>4, <1>5, <1>6 DEF Finish

LEMMA FinishTurn ==
  ASSUME TypeOK, NEW t \in Turns, NEW s \in Session, NEW next \in Nodes, Finish(t, s, next)
  PROVE  /\ \A u \in Turns \ {t} : pc'[u] = pc[u] /\ st'[u] = st[u] /\ answer'[u] = answer[u]
         /\ \/ next # "done" /\ pc'[t] = next /\ st'[t] = s /\ answer'[t] = answer[t]
            \/ /\ next = "done" /\ pc'[t] = "done"
               /\ answer'[t].status = s.status /\ answer'[t].reply = s.reply
               /\ answer'[t].id = s.invId
            \/ pc'[t] = "done" /\ answer'[t].status = "FAILED" /\ answer'[t].reply = "error"
<1>1. CASE next # "done" /\ pc'[t] = next /\ st'[t] = s /\ answer'[t] = answer[t]
  BY <1>1, FinishStep
<1>2. CASE /\ next = "done" /\ pc'[t] = "done"
           /\ answer'[t] = [status |-> s.status, reply |-> s.reply, id |-> s.invId]
  <2>1. /\ answer'[t].status = s.status /\ answer'[t].reply = s.reply
        /\ answer'[t].id = s.invId
    BY <1>2
  <2>. QED
    BY <1>2, <2>1, FinishStep
<1>3. CASE /\ pc'[t] = "done"
           /\ answer'[t] = [status |-> "FAILED", reply |-> "error", id |-> NoValue]
  <2>1. answer'[t].status = "FAILED" /\ answer'[t].reply = "error"
    BY <1>3
  <2>. QED
    BY <1>3, <2>1, FinishStep
<1>. QED
  BY <1>1, <1>2, <1>3, FinishStep

LEMMA VisitsTyped ==
  ASSUME TypeOK, NEW t \in Turns, NEW s, NEW next, Visits(t, s, next),
         UNCHANGED <<calls, moneyVars>>
  PROVE  TypeOK'
BY FinishStep DEF Visits, TypeOK, storeVars, moneyVars

LEMMA VisitsSession ==
  ASSUME TypeOK, SessionInv, NEW t \in Turns, NEW s, NEW next, Visits(t, s, next)
  PROVE  SessionInv'
<1>1. /\ s \in Session /\ next \in Nodes \ {"idle", "load_session", "load_draft"}
      /\ Fits(s, next, msg[t]) /\ msg' = msg /\ pc[t] # "idle"
  BY DEF Visits
<1>2. /\ saved' \in {saved, s} /\ draft' \in {draft, DraftOf(s)}
      /\ \A u \in Turns \ {t} : pc'[u] = pc[u] /\ st'[u] = st[u]
      /\ \/ next # "done" /\ pc'[t] = next /\ st'[t] = s
         \/ pc'[t] = "done" /\ st'[t] = NewSession
  BY <1>1, FinishStep DEF Visits
<1>3. \A u \in Turns \ {t} : Fits(st[u], pc[u], msg[u])
  BY DEF SessionInv
<1>4. Fits(st'[t], pc'[t], msg[t])
  BY <1>1, <1>2, NewSessionFits
<1>5. \A u \in Turns : Fits(st'[u], pc'[u], msg'[u])
  BY <1>1, <1>2, <1>3, <1>4
<1>6. \A u \in Turns :
        /\ pc'[u] \in {"idle", "load_session", "done"} => st'[u] = NewSession
        /\ pc'[u] # "idle" => msg'[u] \in Messages
  BY <1>1, <1>2 DEF SessionInv
<1>7. saved' # NoValue => Sound(saved'.lines) /\ (saved'.awaiting => saved'.known = Fields)
  BY <1>1, <1>2 DEF SessionInv, Fits
<1>8. draft' # NoValue => Sound(draft'.lines)
  <2>1. DraftOf(s).lines = s.lines
    BY DEF DraftOf
  <2>2. CASE draft' = draft
    BY <2>2 DEF SessionInv
  <2>3. CASE draft' = DraftOf(s)
    BY <1>1, <2>1, <2>3 DEF Fits
  <2>. QED
    BY <1>2, <2>2, <2>3
<1>. QED
  BY <1>5, <1>6, <1>7, <1>8 DEF SessionInv

(* A node that calls no other service and says nothing of an invoice, and  *)
(* one that leaves the offer to the nodes around it besides.               *)
OutcomeReplies == {"invoiced", "no_link", "voided", "unreserved"}

Passes(t, s, next) ==
  /\ Visits(t, s, next)
  /\ pc[t] \notin {"generate_invoice", "dispatch_invoice_processing", "resolve_invoice_outcome"}
  /\ next \notin {"dispatch_invoice_processing", "resolve_invoice_outcome"}
  /\ next = "done" => s.status # "INVOICED" /\ s.reply \notin OutcomeReplies
  /\ UNCHANGED <<calls, moneyVars>>

Wanders(t, s, next) == Passes(t, s, next) /\ Keeps(t, s, next) /\ UNCHANGED offered

WanderingNodes ==
  Nodes \ {"idle", "load_session", "done", "generate_invoice", "dispatch_invoice_processing",
           "resolve_invoice_outcome"}

(* The form most nodes have.                                               *)
LEMMA NodeWanders ==
  ASSUME TypeOK, NEW t \in Turns, NEW name \in WanderingNodes, NEW s \in Session,
         NEW next \in Nodes \ {"idle", "load_session", "load_draft",
                               "dispatch_invoice_processing", "resolve_invoice_outcome"},
         Runs(t, name, s, next), changes' \in Nat, Fits(s, next, msg[t]), Keeps(t, s, next),
         next = "done" => s.status # "INVOICED" /\ s.reply \notin OutcomeReplies
  PROVE  Wanders(t, s, next)
<1>1. /\ pc[t] = name /\ Finish(t, s, next)
      /\ UNCHANGED <<storeVars, msg, calls, moneyVars, offered>>
  BY DEF Runs
<1>2. offered \in Summary \union {NoValue}
  BY DEF TypeOK
<1>. QED
  BY <1>1, <1>2 DEF Wanders, Passes, Visits, WanderingNodes

LEMMA NodeRuns ==
  ASSUME TypeOK, NEW t, NEW name, NEW s, NEW next, Node(t, name, s, next)
  PROVE  pc[t] = name /\ Runs(t, name, s, next) /\ changes' \in Nat
BY DEF Node, Runs, TypeOK

(* load_session.                                                           *)
LEMMA OpenedSession ==
  ASSUME TypeOK
  PROVE  /\ Opened \in Session /\ ~Opened.proceed
         /\ saved = NoValue => Opened.lines = EmptyCart /\ ~Opened.awaiting
         /\ saved # NoValue => /\ Opened.lines = saved.lines /\ Opened.known = saved.known
                               /\ Opened.awaiting = saved.awaiting
<1> DEFINE old == IF saved = NoValue THEN NewSession ELSE saved
<1>1. /\ old \in Session
      /\ saved = NoValue => ~old.awaiting /\ old.lines = EmptyCart
      /\ saved # NoValue => old = saved
  BY NewSessionFits DEF TypeOK, NewSession
<1>2. Opened = [old EXCEPT !.proceed = FALSE, !.unavailable = {}, !.attempted = {},
                           !.tools = {}, !.loops = 0, !.capped = FALSE, !.again = FALSE]
  BY DEF Opened
<1> HIDE DEF old
<1>3. 0 \in 0..LoopMax
  BY TurnAssumption DEF LoopMax
<1>4. /\ Opened.known = old.known /\ Opened.awaiting = old.awaiting
      /\ Opened.lines = old.lines /\ Opened.proceed = FALSE
  BY <1>1, <1>2 DEF Session
<1>5. Opened \in Session
  BY <1>1, <1>2, <1>3, ZenonT(90) DEF Session
<1>. QED
  BY <1>1, <1>4, <1>5

Opens(t) ==
  /\ pc[t] = "load_session"
  /\ pc' = [pc EXCEPT ![t] = "load_draft"]
  /\ st' = [st EXCEPT ![t] = Opened]
  /\ UNCHANGED <<storeVars, redisVars, answer, msg, calls, moneyVars, offered, changes, faults>>

LEMMA OpensKeeps ==
  ASSUME TypeOK, SessionInv, NEW t \in Turns, Opens(t)
  PROVE  /\ TypeOK' /\ SessionInv'
         /\ pc'[t] = "load_draft" /\ st'[t] = Opened
         /\ \A u \in Turns \ {t} : pc'[u] = pc[u] /\ st'[u] = st[u]
<1>1. /\ pc'[t] = "load_draft" /\ st'[t] = Opened
      /\ \A u \in Turns \ {t} : pc'[u] = pc[u] /\ st'[u] = st[u]
      /\ UNCHANGED <<msg, saved, draft>> /\ pc[t] # "idle"
  BY DEF Opens, TypeOK, redisVars
<1>2. TypeOK'
  BY OpenedSession DEF Opens, TypeOK, Nodes, storeVars, redisVars, moneyVars
<1>3. Sound(EmptyCart)
  BY DEF Sound, EmptyCart
<1>4. Fits(Opened, "load_draft", msg[t])
  BY <1>3, OpenedSession DEF SessionInv, Fits, ClosedNodes
<1>5. \A u \in Turns : Fits(st'[u], pc'[u], msg'[u])
  BY <1>1, <1>4 DEF SessionInv
<1>6. SessionInv'
  BY <1>1, <1>5 DEF SessionInv
<1>. QED
  BY <1>1, <1>2, <1>6

LEMMA LoadedSession ==
  ASSUME TypeOK, NEW s \in Session
  PROVE  /\ Loaded(s) \in Session
         /\ Loaded(s).awaiting = s.awaiting /\ Loaded(s).proceed = s.proceed
         /\ s.known \subseteq Loaded(s).known
         /\ \/ Loaded(s).lines = s.lines
            \/ draft # NoValue /\ Loaded(s).lines = draft.lines
            \/ Loaded(s).lines = EmptyCart
<1> DEFINE kept == IF draft = NoValue THEN DraftOf(NewSession) ELSE draft
<1>1. /\ kept \in Draft
      /\ draft = NoValue => kept.lines = EmptyCart
      /\ draft # NoValue => kept = draft
  BY NewSessionFits DEF TypeOK, NewSession, DraftOf
<1>2. Loaded(s) = [s EXCEPT !.lines = IF DOMAIN @ = {} THEN kept.lines ELSE @,
                            !.known = @ \union kept.known]
  BY DEF Loaded
<1> HIDE DEF kept
<1>3. kept.lines \in Carts /\ kept.known \subseteq Fields
  BY <1>1 DEF Draft
<1>4. /\ Loaded(s).known = s.known \union kept.known /\ Loaded(s).awaiting = s.awaiting
      /\ Loaded(s).lines \in {s.lines, kept.lines} /\ Loaded(s).proceed = s.proceed
  BY <1>2 DEF Session
<1>5. Loaded(s) \in Session
  BY <1>2, <1>3, ZenonT(90) DEF Session
<1>. QED
  BY <1>1, <1>4, <1>5

(* The session of a turn that stands before a node.                        *)
LEMMA StandsBefore ==
  ASSUME TypeOK, SessionInv, NEW t \in Turns
  PROVE  /\ st[t] \in Session /\ Fits(st[t], pc[t], msg[t])
         /\ st[t].lines \in Carts /\ st[t].known \subseteq Fields
         /\ pc[t] # "idle" =>
              /\ msg[t] \in Messages
              /\ msg[t].lines \in SaidLines /\ msg[t].remove \subseteq Names
              /\ msg[t].fields \subseteq Fields
              /\ msg[t].proceed \in BOOLEAN /\ msg[t].offTopic \in BOOLEAN
BY TurnAssumption DEF TypeOK, SessionInv, Session

LEMMA DraftWanders ==
  ASSUME TypeOK, SessionInv, NEW t \in Turns, LoadOrderDraft(t)
  PROVE  \E s, next : Wanders(t, s, next)
<1> DEFINE s == Loaded(st[t])
<1>1. /\ Runs(t, "load_draft", s, "off_topic_guard") /\ pc[t] = "load_draft"
      /\ changes' \in Nat
  BY NodeRuns DEF LoadOrderDraft
<1>2. Sound(EmptyCart)
  BY DEF Sound, EmptyCart
<1>3. /\ s \in Session /\ s.awaiting = st[t].awaiting /\ s.proceed = st[t].proceed
      /\ st[t].known \subseteq s.known /\ s.known \subseteq Fields /\ Sound(s.lines)
  BY <1>2, StandsBefore, LoadedSession DEF SessionInv, Fits, Session
<1>4. Keeps(t, s, "off_topic_guard")
  BY <1>1 DEF Keeps
<1> HIDE DEF s
<1>5. Fits(s, "off_topic_guard", msg[t])
  BY <1>1, <1>3, StandsBefore DEF Fits, ClosedNodes
<1>. QED
  BY <1>1, <1>3, <1>4, <1>5, NodeWanders DEF WanderingNodes, Nodes

LEMMA OffTopicWanders ==
  ASSUME TypeOK, SessionInv, NEW t \in Turns, OffTopicGuard(t)
  PROVE  \E s, next : Wanders(t, s, next)
<1> DEFINE s == IF msg[t].offTopic
                  THEN [st[t] EXCEPT !.status = "AWAITING_FIELDS", !.reply = "redirect"]
                  ELSE st[t]
           next == IF msg[t].offTopic THEN "done" ELSE "parse_intent"
<1>1. Runs(t, "off_topic_guard", s, next) /\ pc[t] = "off_topic_guard" /\ changes' \in Nat
  BY NodeRuns DEF OffTopicGuard
<1>2. /\ s \in Session /\ s.lines = st[t].lines /\ s.known = st[t].known
      /\ s.awaiting = st[t].awaiting /\ s.proceed = st[t].proceed
      /\ next = "done" => s.status = "AWAITING_FIELDS" /\ s.reply = "redirect"
  <2>1. CASE msg[t].offTopic
    <3>1. s = [st[t] EXCEPT !.status = "AWAITING_FIELDS", !.reply = "redirect"]
      BY <2>1
    <3>2. next = "done"
      BY <2>1
    <3>3. st[t] \in Session
      BY StandsBefore
    <3> HIDE DEF s, next
    <3>4. /\ s \in Session /\ s.lines = st[t].lines /\ s.known = st[t].known
          /\ s.awaiting = st[t].awaiting /\ s.proceed = st[t].proceed
          /\ s.status = "AWAITING_FIELDS" /\ s.reply = "redirect"
      BY <3>1, <3>3, ZenonT(90) DEF Session, Status, Replies
    <3>. QED
      BY <3>4
  <2>2. CASE ~msg[t].offTopic
    BY <2>2, StandsBefore
  <2>. QED
    BY <2>1, <2>2
<1>3. next = "done" \/ next = "parse_intent"
  OBVIOUS
<1> HIDE DEF s, next
<1>4. Fits(s, next, msg[t])
  BY <1>2, <1>3, StandsBefore DEF Fits, ClosedNodes
<1>5. Keeps(t, s, next)
  BY <1>1, <1>2, FollowsSame DEF Keeps
<1>. QED
  BY <1>1, <1>2, <1>3, <1>4, <1>5, NodeWanders DEF WanderingNodes, Nodes, OutcomeReplies

LEMMA ParseWanders ==
  ASSUME TypeOK, SessionInv, NEW t \in Turns, ParseIntent(t)
  PROVE  \E s, next : Wanders(t, s, next)
<1>0. PICK cart \in CartsOf(t) :
        Node(t, "parse_intent", [st[t] EXCEPT !.lines = cart, !.known = @ \union msg[t].fields],
             "resolve_invoice_confirmation")
  BY DEF ParseIntent
<1> DEFINE s == [st[t] EXCEPT !.lines = cart, !.known = @ \union msg[t].fields]
<1>1. /\ Runs(t, "parse_intent", s, "resolve_invoice_confirmation") /\ pc[t] = "parse_intent"
      /\ changes' \in Nat
  BY <1>0, NodeRuns
<1>2. /\ cart \in Carts
      /\ Sound(st[t].lines) => Sound(cart)
      /\ Follows(st[t].lines, cart, msg[t])
  BY <1>1, StandsBefore, ParsedCart, SubstitutedCart DEF CartsOf
<1>3. /\ s \in Session /\ s.lines = cart
      /\ s.known = st[t].known \union msg[t].fields
      /\ s.awaiting = st[t].awaiting /\ s.proceed = st[t].proceed
  BY <1>1, <1>2, StandsBefore, ZenonT(90) DEF Session
<1> HIDE DEF s
<1>4. Fits(s, "resolve_invoice_confirmation", msg[t])
  BY <1>1, <1>2, <1>3, StandsBefore DEF Fits, ClosedNodes
<1>5. Keeps(t, s, "resolve_invoice_confirmation")
  BY <1>1, <1>2, <1>3 DEF Keeps
<1>. QED
  BY <1>1, <1>3, <1>4, <1>5, NodeWanders DEF WanderingNodes, Nodes

LEMMA ConfirmationWanders ==
  ASSUME TypeOK, SessionInv, NEW t \in Turns, ResolveInvoiceConfirmation(t)
  PROVE  \E s, next : Wanders(t, s, next)
<1> DEFINE s == IF st[t].awaiting
                  THEN [st[t] EXCEPT !.awaiting = FALSE, !.proceed = msg[t].proceed]
                  ELSE st[t]
<1>1. /\ Runs(t, "resolve_invoice_confirmation", s, "resolve_catalog")
      /\ pc[t] = "resolve_invoice_confirmation" /\ changes' \in Nat
  BY NodeRuns DEF ResolveInvoiceConfirmation
<1>2. /\ s \in Session /\ s.lines = st[t].lines /\ s.known = st[t].known
      /\ s.awaiting = FALSE
      /\ s.proceed => st[t].proceed \/ (st[t].awaiting /\ msg[t].proceed)
  BY <1>1, StandsBefore, ZenonT(90) DEF Session
<1> HIDE DEF s
<1>3. Fits(s, "resolve_catalog", msg[t])
  BY <1>1, <1>2, StandsBefore DEF Fits, ClosedNodes
<1>4. Keeps(t, s, "resolve_catalog")
  BY <1>1, <1>2, FollowsSame DEF Keeps
<1>. QED
  BY <1>1, <1>2, <1>3, <1>4, NodeWanders DEF WanderingNodes, Nodes

LEMMA CatalogWanders ==
  ASSUME TypeOK, SessionInv, NEW t \in Turns, ResolveCatalog(t)
  PROVE  \E s, next : Wanders(t, s, next)
<1> DEFINE s == [st[t] EXCEPT !.lines = Resolved(@, listed)]
<1>1. Runs(t, "resolve_catalog", s, "react_planner") /\ pc[t] = "resolve_catalog" /\ changes' \in Nat
  BY NodeRuns DEF ResolveCatalog
<1>2. /\ Resolved(st[t].lines, listed) \in Carts
      /\ Sound(st[t].lines) => Sound(Resolved(st[t].lines, listed))
      /\ Follows(st[t].lines, Resolved(st[t].lines, listed), msg[t])
  BY StandsBefore, ResolvedCart DEF TypeOK
<1>3. /\ s \in Session /\ s.lines = Resolved(st[t].lines, listed) /\ s.known = st[t].known
      /\ s.awaiting = st[t].awaiting /\ s.proceed = st[t].proceed
  BY <1>2, StandsBefore DEF Session
<1> HIDE DEF s
<1>4. Fits(s, "react_planner", msg[t])
  BY <1>1, <1>2, <1>3, StandsBefore DEF Fits, ClosedNodes, Nodes
<1>5. Keeps(t, s, "react_planner")
  BY <1>1, <1>2, <1>3 DEF Keeps
<1>. QED
  BY <1>1, <1>3, <1>4, <1>5, NodeWanders DEF WanderingNodes, Nodes

(* A node that leaves the cart, the fields and the offer alone.            *)
LEMMA SameCart ==
  ASSUME TypeOK, SessionInv, NEW t \in Turns, NEW s \in Session, NEW next \in Nodes,
         pc[t] \in ClosedNodes, pc[t] # "done",
         s.lines = st[t].lines, s.known = st[t].known,
         s.awaiting = st[t].awaiting, s.proceed = st[t].proceed,
         next \notin {"offer_invoice_confirmation", "finalize_order", "generate_invoice"},
         next = "suggest_alternative" => s.unavailable # {}
  PROVE  Fits(s, next, msg[t]) /\ Keeps(t, s, next)
BY StandsBefore, FollowsSame DEF Fits, Keeps, ClosedNodes

LEMMA PlannerWanders ==
  ASSUME TypeOK, SessionInv, NEW t \in Turns, ReactPlanner(t)
  PROVE  \E s, next : Wanders(t, s, next)
<1> DEFINE s == [st[t] EXCEPT !.goal = NextGoal(st[t]), !.attempted = @ \union {NextGoal(st[t])}]
<1>1. Runs(t, "react_planner", s, "react_tool_selector") /\ pc[t] = "react_planner" /\ changes' \in Nat
  BY NodeRuns DEF ReactPlanner
<1>2. NextGoal(st[t]) \in Goals
  BY DEF NextGoal, Goals
<1>3. /\ s \in Session /\ s.lines = st[t].lines /\ s.known = st[t].known
      /\ s.awaiting = st[t].awaiting /\ s.proceed = st[t].proceed
  BY <1>2, StandsBefore, ZenonT(90) DEF Session
<1> HIDE DEF s
<1>. QED
  BY <1>1, <1>3, SameCart, NodeWanders DEF WanderingNodes, Nodes, ClosedNodes

LEMMA SelectorWanders ==
  ASSUME TypeOK, SessionInv, NEW t \in Turns, ReactToolSelector(t)
  PROVE  \E s, next : Wanders(t, s, next)
<1> DEFINE s == [st[t] EXCEPT !.tools = {st[t].goal} \ {"done"}]
<1>1. Runs(t, "react_tool_selector", s, "react_executor") /\ pc[t] = "react_tool_selector" /\ changes' \in Nat
  BY NodeRuns DEF ReactToolSelector
<1>2. /\ s \in Session /\ s.lines = st[t].lines /\ s.known = st[t].known
      /\ s.awaiting = st[t].awaiting /\ s.proceed = st[t].proceed
  BY StandsBefore DEF Session
<1> HIDE DEF s
<1>. QED
  BY <1>1, <1>2, SameCart, NodeWanders DEF WanderingNodes, Nodes, ClosedNodes

LEMMA ExecutorWanders ==
  ASSUME TypeOK, SessionInv, NEW t \in Turns, ReactExecutor(t)
  PROVE  \E s, next : Wanders(t, s, next)
<1> DEFINE s == Executed(st[t])
           next == ConditionalExecutor(s)
<1>1. Runs(t, "react_executor", s, next) /\ pc[t] = "react_executor" /\ changes' \in Nat
  BY NodeRuns DEF ReactExecutor
<1>2. /\ s \in Session /\ s.lines = st[t].lines /\ s.known = st[t].known
      /\ s.awaiting = st[t].awaiting /\ s.proceed = st[t].proceed
  <2>0. LoopMax \in Nat /\ st[t].loops \in 0..LoopMax
    BY StandsBefore, TurnAssumption DEF LoopMax, Session
  <2>1. CASE st[t].loops >= LoopMax
    <3>1. s = [st[t] EXCEPT !.capped = TRUE, !.tools = {}, !.again = FALSE]
      BY <2>1 DEF Executed
    <3> HIDE DEF s
    <3>. QED
      BY <3>1, StandsBefore, ZenonT(90) DEF Session
  <2>2. CASE ~(st[t].loops >= LoopMax)
    <3>1. s = [st[t] EXCEPT !.loops = @ + 1, !.tools = {}, !.again = st[t].tools # {}]
      BY <2>2 DEF Executed
    <3>2. st[t].loops + 1 \in 0..LoopMax
      BY <2>0, <2>2
    <3> HIDE DEF s
    <3>. QED
      BY <3>1, <3>2, StandsBefore, ZenonT(90) DEF Session
  <2>. QED
    BY <2>1, <2>2
<1>3. \/ next \in {"react_planner", "check_availability"}
      \/ next = "suggest_alternative" /\ s.unavailable # {}
  BY DEF ConditionalExecutor, AvailabilityNode
<1> HIDE DEF s, next
<1>. QED
  BY <1>1, <1>2, <1>3, SameCart, NodeWanders DEF WanderingNodes, Nodes, ClosedNodes

LEMMA CacheItems ==
  ASSUME NEW cart \in Carts
  PROVE  OrderableItems(cart) \subseteq Items
BY CartElim DEF OrderableItems, Orderable, Line

LEMMA AvailabilityWanders ==
  ASSUME TypeOK, SessionInv, NEW t \in Turns, CheckAvailability(t)
  PROVE  \E s, next : Wanders(t, s, next)
<1>0. PICK out \in SUBSET OrderableItems(st[t].lines) :
        /\ CacheSays(st[t].lines, Short(st[t].lines), out)
        /\ Runs(t, "check_availability",
                [st[t] EXCEPT !.unavailable = out,
                              !.status = IF out = {} THEN @ ELSE "AWAITING_FIELDS"],
                IF out = {} THEN "check_missing_fields" ELSE "suggest_alternative")
  BY DEF CheckAvailability
<1> DEFINE s == [st[t] EXCEPT !.unavailable = out,
                              !.status = IF out = {} THEN @ ELSE "AWAITING_FIELDS"]
           next == IF out = {} THEN "check_missing_fields" ELSE "suggest_alternative"
<1>1. Runs(t, "check_availability", s, next) /\ pc[t] = "check_availability" /\ changes' \in Nat
  BY <1>0 DEF Runs, CacheSays, Change, TypeOK
<1>2. out \subseteq Items
  BY StandsBefore, CacheItems
<1>3. next = "check_missing_fields" \/ (next = "suggest_alternative" /\ out # {})
  OBVIOUS
<1> HIDE DEF next
<1>4. /\ s \in Session /\ s.lines = st[t].lines /\ s.known = st[t].known
      /\ s.awaiting = st[t].awaiting /\ s.proceed = st[t].proceed /\ s.unavailable = out
  BY <1>2, StandsBefore, ZenonT(90) DEF Session, Status
<1> HIDE DEF s
<1>. QED
  BY <1>1, <1>3, <1>4, SameCart, NodeWanders DEF WanderingNodes, Nodes, ClosedNodes

LEMMA AskWanders ==
  ASSUME TypeOK, SessionInv, NEW t \in Turns, AskForFields(t)
  PROVE  \E s, next : Wanders(t, s, next)
<1> DEFINE s == [st[t] EXCEPT !.status = "AWAITING_FIELDS", !.reply = "ask"]
<1>1. Runs(t, "ask_for_fields", s, "done") /\ pc[t] = "ask_for_fields" /\ changes' \in Nat
  BY NodeRuns DEF AskForFields
<1>2. /\ s \in Session /\ s.lines = st[t].lines /\ s.known = st[t].known
      /\ s.awaiting = st[t].awaiting /\ s.proceed = st[t].proceed
      /\ s.status = "AWAITING_FIELDS" /\ s.reply = "ask"
  BY StandsBefore, ZenonT(90) DEF Session, Status, Replies
<1> HIDE DEF s
<1>. QED
  BY <1>1, <1>2, SameCart, NodeWanders
  DEF WanderingNodes, Nodes, ClosedNodes, OutcomeReplies

LEMMA AlternativeWanders ==
  ASSUME TypeOK, SessionInv, NEW t \in Turns, SuggestAlternative(t)
  PROVE  \E s, next : Wanders(t, s, next)
<1> DEFINE s == [st[t] EXCEPT !.lines = StockoutPending(@, st[t].unavailable), !.unavailable = {},
                              !.status = "AWAITING_FIELDS", !.reply = "alternatives"]
<1>1. Runs(t, "suggest_alternative", s, "done") /\ pc[t] = "suggest_alternative" /\ changes' \in Nat
  BY NodeRuns, StandsBefore DEF SuggestAlternative, Fits
<1>2. /\ StockoutPending(st[t].lines, st[t].unavailable) \in Carts
      /\ Sound(st[t].lines) => Sound(StockoutPending(st[t].lines, st[t].unavailable))
  BY StandsBefore, StockoutCart
<1>3. /\ s \in Session /\ s.lines = StockoutPending(st[t].lines, st[t].unavailable)
      /\ s.known = st[t].known /\ s.awaiting = st[t].awaiting /\ s.proceed = st[t].proceed
      /\ s.status = "AWAITING_FIELDS" /\ s.reply = "alternatives"
  <2>1. st[t] \in Session
    BY StandsBefore
  <2>2. StockoutPending(st[t].lines, st[t].unavailable) \in Carts
    BY <1>2
  <2>. QED
    BY <2>1, <2>2, ZenonT(90) DEF Session, Status, Replies
<1> HIDE DEF s
<1>4. ~s.awaiting
  BY <1>1, <1>3, StandsBefore DEF Fits, ClosedNodes, Nodes
<1>5. Fits(s, "done", msg[t])
  BY <1>2, <1>3, <1>4, StandsBefore DEF Fits
<1>6. Keeps(t, s, "done")
  BY <1>1, <1>3, <1>4 DEF Keeps
<1>. QED
  BY <1>1, <1>3, <1>5, <1>6, NodeWanders DEF WanderingNodes, Nodes, OutcomeReplies

(* The lines an order keeps are sound lines of the cart, none of them      *)
(* pending.                                                                *)
LEMMA OrderableCart ==
  ASSUME NEW cart \in Carts
  PROVE  /\ Only(cart, Orderable(cart)) \in Carts
         /\ Sound(cart) => Sound(Only(cart, Orderable(cart)))
         /\ \A m : Follows(cart, Only(cart, Orderable(cart)), m)
         /\ LET only == Only(cart, Orderable(cart))
            IN  Orderable(only) = DOMAIN only
<1>1. Orderable(cart) \subseteq DOMAIN cart
  BY DEF Orderable
<1>2. /\ DOMAIN Only(cart, Orderable(cart)) = Orderable(cart)
      /\ \A n \in Orderable(cart) : Only(cart, Orderable(cart))[n] = cart[n]
  BY <1>1, CartOnly
<1>3. Orderable(Only(cart, Orderable(cart))) = Orderable(cart)
  BY <1>2 DEF Orderable
<1>. QED
  BY <1>1, <1>2, <1>3, CartOnly, FollowsSame, FollowsOnly DEF Sound

LEMMA MissingTyped ==
  ASSUME NEW cart \in Carts, NEW known \in SUBSET Fields
  PROVE  /\ MissingFields(cart, known) \subseteq Fields \union {"product", "quantity", "alternative"}
         /\ MissingFields(cart, known) = {} => known = Fields
BY DEF MissingFields, MissingOfCart

LEMMA MissingWanders ==
  ASSUME TypeOK, SessionInv, NEW t \in Turns, CheckMissingFields(t)
  PROVE  \E s, next : Wanders(t, s, next)
<1> DEFINE s == Checked(st[t])
           next == MissingRoute(s)
           missing == MissingFields(st[t].lines, st[t].known)
<1>1. Runs(t, "check_missing_fields", s, next) /\ pc[t] = "check_missing_fields" /\ changes' \in Nat
  BY NodeRuns DEF CheckMissingFields
<1>2. /\ s \in Session /\ s.known = st[t].known
      /\ s.awaiting = st[t].awaiting /\ s.proceed = st[t].proceed
      /\ \/ s.lines = Only(st[t].lines, Orderable(st[t].lines))
         \/ /\ s.lines = st[t].lines
            /\ \/ Orderable(st[t].lines) = {}
               \/ missing # {} \/ BlockingUnresolved(st[t].lines) # {}
      /\ s.missing = missing
  <2>1. CASE missing # {} \/ BlockingUnresolved(st[t].lines) # {}
    <3>1. s = [st[t] EXCEPT !.missing = missing, !.status = "AWAITING_FIELDS"]
      BY <2>1 DEF Checked
    <3>2. missing \subseteq Fields \union {"product", "quantity", "alternative"}
      BY StandsBefore, MissingTyped
    <3> HIDE DEF s, missing
    <3>. QED
      BY <2>1, <3>1, <3>2, StandsBefore, ZenonT(90) DEF Session, Status
  <2>2. CASE ~(missing # {} \/ BlockingUnresolved(st[t].lines) # {})
    <3> DEFINE lines == IF Orderable(st[t].lines) = {} THEN st[t].lines
                        ELSE Only(st[t].lines, Orderable(st[t].lines))
    <3>1. s = [st[t] EXCEPT !.missing = {}, !.status = "VALIDATED", !.lines = lines]
      BY <2>2 DEF Checked
    <3>2. /\ \/ lines = Only(st[t].lines, Orderable(st[t].lines))
             \/ lines = st[t].lines /\ Orderable(st[t].lines) = {}
          /\ lines \in Carts
      BY StandsBefore, OrderableCart
    <3>3. missing = {}
      BY <2>2
    <3> HIDE DEF s, lines, missing
    <3>. QED
      BY <3>1, <3>2, <3>3, StandsBefore, ZenonT(90) DEF Session, Status
  <2>. QED
    BY <2>1, <2>2
<1>3. Sound(s.lines) /\ Follows(st[t].lines, s.lines, msg[t])
  BY <1>2, StandsBefore, OrderableCart, FollowsSame DEF Fits
<1>4. ~s.awaiting
  BY <1>1, <1>2, StandsBefore DEF Fits, ClosedNodes, Nodes
<1>5. \/ next = "ask_for_fields"
      \/ next = "finalize_order" /\ s.proceed
      \/ /\ next = "offer_invoice_confirmation"
         /\ s.missing = {} /\ Orderable(s.lines) = DOMAIN s.lines
  <2> DEFINE cart == s.lines
             unresolved == {n \in DOMAIN cart : ~cart[n].resolved
                                               /\ cart[n].status \notin {"not_found", "ambiguous"}}
  <2>1. ASSUME Orderable(cart) = {} PROVE ~ \E n \in DOMAIN cart : cart[n].resolved
    BY <1>3, <2>1 DEF Sound, LineSound, Orderable
  <2>2. ASSUME s.missing = {}, Pending(cart) = {}, unresolved = {}, Orderable(cart) # {}
        PROVE  Orderable(cart) = DOMAIN cart
    <3>1. BlockingUnresolved(cart) = {}
      BY <2>2 DEF BlockingUnresolved, Pending
    <3>2. cart = Only(st[t].lines, Orderable(st[t].lines))
      BY <1>2, <2>2, <3>1
    <3>. QED
      BY <3>2, StandsBefore, OrderableCart
  <2> HIDE DEF s
  <2>. QED
    BY <1>4, <2>1, <2>2 DEF MissingRoute
<1>6. s.missing = {} => s.known = Fields
  BY <1>2, StandsBefore, MissingTyped
<1> HIDE DEF s, next, missing
<1>7. Fits(s, next, msg[t])
  BY <1>2, <1>3, <1>4, <1>5, <1>6, StandsBefore DEF Fits
<1>8. Keeps(t, s, next)
  BY <1>1, <1>2, <1>3, <1>4 DEF Keeps
<1>. QED
  BY <1>1, <1>2, <1>5, <1>7, <1>8, NodeWanders DEF WanderingNodes, Nodes

(* The offer itself.                                                       *)
Offers(t, s) ==
  /\ pc[t] = "offer_invoice_confirmation"
  /\ Passes(t, s, "done")
  /\ s.reply = "offer" /\ s.awaiting /\ ~s.proceed
  /\ s.lines = st[t].lines /\ s.known = st[t].known
  /\ offered' = IF saved' = s THEN [cart |-> st[t].lines, by |-> t] ELSE offered

LEMMA OfferCases ==
  ASSUME TypeOK, SessionInv, NEW t \in Turns, OfferInvoiceConfirmation(t)
  PROVE  (\E s, next : Wanders(t, s, next)) \/ (\E s : Offers(t, s))
<1> DEFINE ready == Orderable(st[t].lines)
           none == [st[t] EXCEPT !.status = "AWAITING_FIELDS", !.reply = "no_items"]
           offer == [st[t] EXCEPT !.status = "AWAITING_CONFIRMATION", !.reply = "offer",
                                  !.awaiting = TRUE, !.proceed = FALSE]
           shown == [cart |-> Only(st[t].lines, ready), by |-> t]
<1>1. /\ pc[t] = "offer_invoice_confirmation"
      /\ \/ Finish(t, none, "done") /\ offered' = offered
         \/ Finish(t, offer, "done") /\ offered' = IF saved' = offer THEN shown ELSE offered
      /\ UNCHANGED <<storeVars, msg, calls, moneyVars>> /\ changes' \in Nat
  BY DEF OfferInvoiceConfirmation, TypeOK
<1>2. /\ none \in Session /\ none.lines = st[t].lines /\ none.known = st[t].known
      /\ none.awaiting = st[t].awaiting /\ none.proceed = st[t].proceed
      /\ none.status = "AWAITING_FIELDS" /\ none.reply = "no_items"
  BY StandsBefore, ZenonT(90) DEF Session, Status, Replies
<1>3. /\ offer \in Session /\ offer.lines = st[t].lines /\ offer.known = st[t].known
      /\ offer.proceed = FALSE /\ offer.awaiting = TRUE
      /\ offer.status = "AWAITING_CONFIRMATION" /\ offer.reply = "offer"
  <2>1. st[t] \in Session
    BY StandsBefore
  <2>. QED
    BY <2>1 DEF Session, Status, Replies
<1>4. /\ st[t].known = Fields /\ ready = DOMAIN st[t].lines /\ Sound(st[t].lines)
      /\ ~st[t].awaiting /\ (st[t].proceed => msg[t].proceed) /\ st[t].lines \in Carts
  BY <1>1, StandsBefore DEF Fits, ClosedNodes, Nodes
<1>5. Only(st[t].lines, ready) = st[t].lines
  <2>1. st[t].lines = [n \in DOMAIN st[t].lines |-> st[t].lines[n]]
    BY <1>4, CartElim
  <2>. QED
    BY <1>4, <2>1 DEF Only
<1>6. shown = [cart |-> st[t].lines, by |-> t] /\ shown \in Summary
  BY <1>4, <1>5 DEF Summary
<1>7. "done" \in Nodes \ {"idle", "load_session", "load_draft"}
  BY DEF Nodes
<1>8. offered \in Summary \union {NoValue}
  BY DEF TypeOK
<1> HIDE DEF none, offer, shown
<1>9. CASE Finish(t, none, "done") /\ offered' = offered
  <2>1. Fits(none, "done", msg[t])
    BY <1>2, <1>4 DEF Fits
  <2>2. Keeps(t, none, "done")
    BY <1>1, <1>2, <1>4, FollowsSame DEF Keeps
  <2>. QED
    BY <1>1, <1>2, <1>7, <1>8, <1>9, <2>1, <2>2 DEF Wanders, Passes, Visits, OutcomeReplies
<1>10. CASE Finish(t, offer, "done") /\ offered' = IF saved' = offer THEN shown ELSE offered
  <2>1. Fits(offer, "done", msg[t])
    BY <1>3, <1>4 DEF Fits
  <2>2. Passes(t, offer, "done")
    BY <1>1, <1>3, <1>6, <1>7, <1>8, <1>10, <2>1 DEF Passes, Visits, OutcomeReplies
  <2>. QED
    BY <1>1, <1>3, <1>6, <1>10, <2>2 DEF Offers
<1>. QED
  BY <1>1, <1>9, <1>10

LEMMA FinalizeWanders ==
  ASSUME TypeOK, SessionInv, NEW t \in Turns, FinalizeOrder(t)
  PROVE  \E s, next : Wanders(t, s, next)
<1>. PICK out \in SUBSET OrderableItems(st[t].lines) :
       /\ CacheSays(st[t].lines, Short(st[t].lines) \union Gone(st[t].lines), out)
       /\ Runs(t, "finalize_order", Finalized(st[t], t, out),
               FinalizeRoute(Finalized(st[t], t, out)))
  BY DEF FinalizeOrder
<1> DEFINE ready == Orderable(st[t].lines)
           s == Finalized(st[t], t, out)
           next == FinalizeRoute(s)
<1>0. st[t] \in Session
  BY StandsBefore
<1>1. Runs(t, "finalize_order", s, next) /\ pc[t] = "finalize_order" /\ changes' \in Nat
  BY DEF Runs, CacheSays, Change, TypeOK
<1>2. out \subseteq Items
  BY StandsBefore, CacheItems
<1>3. FreshId(st[t], t) \in Turns
  BY StandsBefore DEF FreshId, Session
<1>4. /\ s \in Session /\ s.known = st[t].known
      /\ s.awaiting = st[t].awaiting /\ s.proceed = st[t].proceed
      /\ s.lines \in {st[t].lines, Only(st[t].lines, ready)}
  <2>1. CASE ready = {}
    <3>1. s = [st[t] EXCEPT !.status = "AWAITING_FIELDS", !.missing = {"product"},
                            !.reply = "no_items"]
      BY <2>1 DEF Finalized
    <3> HIDE DEF s, ready
    <3>. QED
      BY <1>0, <3>1 DEF Session, Status, Replies
  <2>2. CASE ready # {} /\ out # {}
    <3>1. s = [st[t] EXCEPT !.status = "AWAITING_FIELDS", !.unavailable = out,
                            !.invId = FreshId(st[t], t)]
      BY <2>2 DEF Finalized
    <3> HIDE DEF s, ready
    <3>. QED
      BY <1>0, <1>2, <1>3, <3>1 DEF Session, Status
  <2>3. CASE ready # {} /\ out = {}
    <3> DEFINE lines == Only(st[t].lines, ready)
    <3>1. s = [st[t] EXCEPT !.lines = lines, !.status = "VALIDATED", !.reply = "validated",
                            !.invId = FreshId(st[t], t)]
      BY <2>3 DEF Finalized
    <3>2. lines \in Carts
      BY StandsBefore, OrderableCart
    <3> HIDE DEF s, lines
    <3>3. s \in Session /\ s.lines = lines /\ s.known = st[t].known
          /\ s.awaiting = st[t].awaiting /\ s.proceed = st[t].proceed
      BY <1>0, <1>3, <3>1, <3>2 DEF Session, Status, Replies
    <3>. QED
      BY <3>3 DEF lines
  <2>. QED
    BY <2>1, <2>2, <2>3
<1>5. Sound(s.lines) /\ Follows(st[t].lines, s.lines, msg[t])
  BY <1>4, StandsBefore, OrderableCart, FollowsSame DEF Fits
<1>6. s.proceed /\ ~s.awaiting
  BY <1>1, <1>4, StandsBefore DEF Fits, ClosedNodes, Nodes
<1>7. next = "generate_invoice" \/ (next = "suggest_alternative" /\ s.unavailable # {})
  BY DEF FinalizeRoute
<1> HIDE DEF s, next, ready
<1>8. Fits(s, next, msg[t])
  BY <1>4, <1>5, <1>6, <1>7, StandsBefore DEF Fits
<1>9. Keeps(t, s, next)
  BY <1>1, <1>4, <1>5, <1>6, StandsBefore DEF Keeps
<1>. QED
  BY <1>1, <1>4, <1>7, <1>8, <1>9, NodeWanders DEF WanderingNodes, Nodes
-----------------------------------------------------------------------------
(***************************************************************************)
(* Orders.  An order belongs to the turn that wrote its row; that turn     *)
(* alone reserves it, has its link made and voided, and answers for it.    *)
(***************************************************************************)
AtOrder(t) == pc[t] \in {"dispatch_invoice_processing", "resolve_invoice_outcome"}

RowInv ==
  /\ \A id \in Ordered :
       /\ AtOrder(orders[id].by) \/ pc[orders[id].by] = "done"
       /\ msg[orders[id].by].proceed
       /\ orders[id].known = Fields
  /\ \A id, other \in Ordered : orders[id].by = orders[other].by => id = other

(* What the results c of the two calls for an order id say of its holds,   *)
(* its link and the calls whose result was lost.                           *)
Agrees(c, id, hold, url, missed) ==
  /\ c.res = "wait" => hold = 0
  /\ c.res = "ok" => hold = 1
  /\ c.res = "no" => hold = 0 \/ <<"reserve", id>> \in missed
  /\ c.pay = "ok" => url = "live"
  /\ c.pay = "voided" => c.res = "no" /\ (url # "live" \/ <<"cancel", id>> \in missed)

CallInv ==
  \A t \in Turns :
    /\ AtOrder(t) =>
         LET id == st[t].invoice
         IN  /\ id \in Ordered /\ orders[id].by = t
             /\ Agrees(calls[t], id, holds[id], link[id], lost)
    /\ ~AtOrder(t) /\ pc[t] # "done" => calls[t] = NoCalls

HoldInv ==
  \A id \in Turns : /\ holds[id] <= 1
                    /\ id \notin Ordered => holds[id] = 0 /\ link[id] = "none"

(* What an answer a says, of the order it names.                           *)
IsSo(a, hold, url, missed) ==
  /\ a.status = "INVOICED" => hold = 1
  /\ a.reply = "invoiced" => url = "live"
  /\ a.reply \in {"voided", "unreserved"} => hold = 0 \/ <<"reserve", a.id>> \in missed
  /\ a.reply = "voided" => url # "live" \/ <<"cancel", a.id>> \in missed

SaysOfOrder(a) == a.status = "INVOICED" \/ a.reply \in OutcomeReplies

AnswerInv ==
  \A t \in Turns : answer[t] # NoValue =>
    /\ pc[t] = "done"
    /\ SaysOfOrder(answer[t]) =>
         LET id == answer[t].id
         IN  /\ id \in Ordered /\ orders[id].by = t
             /\ IsSo(answer[t], holds[id], link[id], lost)

OrderInv == RowInv /\ CallInv /\ HoldInv /\ AnswerInv
-----------------------------------------------------------------------------
(* The actions that say something of an order, and what they do to turns.  *)
Quits(t) ==
  /\ pc[t] = "generate_invoice"
  /\ \E reply \in {"error", "duplicate"} : Raised(t, reply)
  /\ faults' \in Nat
  /\ UNCHANGED <<storeVars, redisVars, msg, calls, moneyVars, offered, changes>>

RowOf(t) == [lines |-> st[t].lines, known |-> st[t].known, by |-> t, seen |-> offered]

Generates(t, s) ==
  /\ pc[t] = "generate_invoice"
  /\ s.invoice \in Turns /\ orders[s.invoice] = NoValue
  /\ orders' = [orders EXCEPT ![s.invoice] = RowOf(t)]
  /\ offered' = NoValue
  /\ Visits(t, s, "dispatch_invoice_processing")
  /\ s.known = st[t].known /\ ~s.awaiting /\ ~s.proceed
  /\ UNCHANGED <<calls, holds, link, orphans, lost>>

LEMMA GenerateCases ==
  ASSUME TypeOK, SessionInv, NEW t \in Turns, GenerateInvoice(t)
  PROVE  Quits(t) \/ \E s : Generates(t, s)
<1> DEFINE id == FreshId(st[t], t)
           s == [st[t] EXCEPT !.invoice = id, !.status = "VALIDATED", !.reply = "generated",
                              !.awaiting = FALSE, !.proceed = FALSE]
<1>1. /\ pc[t] = "generate_invoice"
      /\ UNCHANGED <<storeVars, msg, calls, holds, link, orphans, lost, changes>>
  BY DEF GenerateInvoice
<1>2. \/ /\ orders[id] = NoValue
         /\ orders' = [orders EXCEPT ![id] = RowOf(t)] /\ offered' = NoValue
         /\ Finish(t, s, "dispatch_invoice_processing")
      \/ /\ Raised(t, IF Billable(st[t].lines) THEN "duplicate" ELSE "error")
         /\ UNCHANGED <<orders, offered, redisVars, faults>>
      \/ Fault /\ Raised(t, "error") /\ UNCHANGED <<orders, offered, redisVars>>
  BY DEF GenerateInvoice, Inserts, RowOf
<1>3. st[t] \in Session /\ id \in Turns
  BY StandsBefore DEF FreshId, Session
<1> HIDE DEF id
<1>4. /\ s \in Session /\ s.invoice = id /\ s.lines = st[t].lines /\ s.known = st[t].known
      /\ ~s.awaiting /\ ~s.proceed
  BY <1>3 DEF Session, Status, Replies
<1> HIDE DEF s
<1>5. CASE /\ orders[id] = NoValue
           /\ orders' = [orders EXCEPT ![id] = RowOf(t)] /\ offered' = NoValue
           /\ Finish(t, s, "dispatch_invoice_processing")
  <2>1. Fits(s, "dispatch_invoice_processing", msg[t])
    BY <1>4, StandsBefore DEF Fits
  <2>2. Visits(t, s, "dispatch_invoice_processing")
    BY <1>1, <1>4, <1>5, <2>1 DEF Visits, Nodes, TypeOK
  <2>. QED
    BY <1>1, <1>3, <1>4, <1>5, <2>2 DEF Generates
<1>6. CASE /\ Raised(t, IF Billable(st[t].lines) THEN "duplicate" ELSE "error")
           /\ UNCHANGED <<orders, offered, redisVars, faults>>
  BY <1>1, <1>6 DEF Quits, moneyVars, TypeOK
<1>7. CASE Fault /\ Raised(t, "error") /\ UNCHANGED <<orders, offered, redisVars>>
  BY <1>1, <1>7 DEF Quits, moneyVars, TypeOK, Fault
<1>. QED
  BY <1>2, <1>5, <1>6, <1>7

(* A turn that was given up.                                               *)
LEMMA QuitStep ==
  ASSUME TypeOK, SessionInv, NEW t \in Turns, Quits(t)
  PROVE  /\ TypeOK' /\ SessionInv'
         /\ \A u \in Turns \ {t} : pc'[u] = pc[u] /\ st'[u] = st[u] /\ answer'[u] = answer[u]
         /\ pc'[t] = "done" /\ st'[t] = NewSession
         /\ answer'[t].status = "FAILED" /\ answer'[t].reply \in {"error", "duplicate"}
<1>1. PICK reply \in {"error", "duplicate"} : Raised(t, reply)
  BY DEF Quits
<1>2. [status |-> "FAILED", reply |-> reply, id |-> NoValue] \in Response
  BY DEF Response, Status, Replies
<1>3. "done" \in Nodes /\ NewSession \in Session
  BY NewSessionFits DEF Nodes
<1>4. /\ pc' = [pc EXCEPT ![t] = "done"] /\ st' = [st EXCEPT ![t] = NewSession]
      /\ answer' = [answer EXCEPT ![t] = [status |-> "FAILED", reply |-> reply, id |-> NoValue]]
  BY <1>1 DEF Raised, Ended
<1>5. TypeOK'
  BY <1>2, <1>3, <1>4 DEF Quits, TypeOK, storeVars, redisVars, moneyVars
<1>6. /\ \A u \in Turns \ {t} : pc'[u] = pc[u] /\ st'[u] = st[u] /\ answer'[u] = answer[u]
      /\ pc'[t] = "done" /\ st'[t] = NewSession
      /\ answer'[t].status = "FAILED" /\ answer'[t].reply = reply
  BY <1>4 DEF TypeOK
<1>7. SessionInv'
  <2>1. /\ UNCHANGED <<saved, draft, msg>>
        /\ pc[t] = "generate_invoice"
    BY DEF Quits, redisVars
  <2>2. Fits(NewSession, "done", msg[t])
    BY NewSessionFits
  <2>. QED
    BY <1>6, <2>1, <2>2 DEF SessionInv
<1>. QED
  BY <1>5, <1>6, <1>7

LEMMA GenerateStep ==
  ASSUME TypeOK, SessionInv, NEW t \in Turns, NEW s, Generates(t, s)
  PROVE  TypeOK' /\ SessionInv' /\ RowOf(t) \in OrderRow
<1>1. RowOf(t) \in OrderRow
  BY StandsBefore DEF RowOf, OrderRow, TypeOK
<1>2. SessionInv'
  BY VisitsSession DEF Generates
<1>3. orders' \in [Turns -> OrderRow \union {NoValue}]
  BY <1>1 DEF Generates, TypeOK
<1>4. TypeOK'
  BY <1>3, FinishStep DEF Generates, Visits, TypeOK, storeVars
<1>. QED
  BY <1>1, <1>2, <1>4

(* A call for the order of a turn.                                         *)
CallResults == [res: {"wait", "ok", "no"}, pay: {"wait", "ok", "no", "voided"}]

Settles(t, c) ==
  LET id == st[t].invoice
  IN  /\ AtOrder(t)
      /\ c \in CallResults /\ calls' = [calls EXCEPT ![t] = c]
      /\ stock' \in [Items -> 0..MaxStock]
      /\ holds' \in [Turns -> Nat] /\ link' \in [Turns -> {"none", "live", "cancelled"}]
      /\ orphans' \subseteq Turns /\ faults' \in Nat
      /\ lost \subseteq lost' /\ lost' \subseteq {"reserve", "cancel"} \X Turns
      /\ \A other \in Turns \ {id} : holds'[other] = holds[other] /\ link'[other] = link[other]
      /\ holds'[id] <= 1
      /\ Agrees(c, id, holds'[id], link'[id], lost')
      /\ UNCHANGED <<listed, redisVars, turnVars, msg, orders, offered, changes>>

(* The order of a turn at its calls.                                       *)
LEMMA OrderOfTurn ==
  ASSUME TypeOK, OrderInv, NEW t \in Turns, AtOrder(t)
  PROVE  /\ st[t].invoice \in Turns /\ orders[st[t].invoice] \in OrderRow
         /\ orders[st[t].invoice].by = t /\ calls[t] \in CallResults
         /\ holds[st[t].invoice] \in Nat /\ holds[st[t].invoice] <= 1
         /\ LET id == st[t].invoice
            IN  Agrees(calls[t], id, holds[id], link[id], lost)
BY DEF TypeOK, OrderInv, CallInv, HoldInv, Ordered, CallResults

LEMMA ReservedStock ==
  ASSUME TypeOK, NEW cart \in Carts, CanReserve(cart)
  PROVE  [i \in Items |->
            stock[i] - (IF i \in ItemIds(cart)
                          THEN cart[CHOOSE n \in DOMAIN cart : cart[n].item = i].qty ELSE 0)]
           \in [Items -> 0..MaxStock]
<1> SUFFICES ASSUME NEW i \in Items
             PROVE  stock[i] - (IF i \in ItemIds(cart)
                                  THEN cart[CHOOSE n \in DOMAIN cart : cart[n].item = i].qty
                                  ELSE 0) \in 0..MaxStock
  OBVIOUS
<1>1. stock[i] \in 0..MaxStock /\ MaxStock \in Nat /\ MaxQty \in Nat
  BY TurnAssumption, CartAssumption DEF TypeOK
<1>2. CASE i \notin ItemIds(cart)
  BY <1>1, <1>2
<1>3. CASE i \in ItemIds(cart)
  <2> DEFINE n == CHOOSE m \in DOMAIN cart : cart[m].item = i
  <2>1. n \in DOMAIN cart /\ cart[n].item = i
    BY <1>3 DEF ItemIds
  <2> HIDE DEF n
  <2>2. cart[n].qty \in 0..MaxQty
    BY <2>1, CartElim DEF Line
  <2>3. stock[i] >= cart[n].qty
    BY <2>1 DEF CanReserve
  <2>4. stock[i] - cart[n].qty \in 0..MaxStock
    BY <1>1, <2>2, <2>3
  <2>. QED
    BY <1>3, <2>4 DEF n
<1>. QED
  BY <1>2, <1>3

LEMMA SubmitSettles ==
  ASSUME TypeOK, OrderInv, NEW t \in Turns, SubmitInvoice(t)
  PROVE  \E c : Settles(t, c)
<1> DEFINE id == st[t].invoice
           cart == orders[id].lines
           with(result) == [calls[t] EXCEPT !.res = result]
<1>1. /\ AtOrder(t) /\ calls[t].res = "wait"
      /\ UNCHANGED <<listed, redisVars, turnVars, msg, orders, link, orphans, offered, changes>>
  BY DEF SubmitInvoice, AtDispatch, AtOrder
<1>2. /\ id \in Turns /\ cart \in Carts /\ calls[t] \in CallResults
      /\ holds[id] = 0 /\ (calls[t].pay = "ok" => link[id] = "live")
      /\ calls[t].pay # "voided"
  BY <1>1, OrderOfTurn DEF OrderRow, Agrees
<1>3. PICK result \in {"ok", "no"} :
        /\ calls' = [calls EXCEPT ![t].res = result]
        /\ faults' = faults \/ Fault
        /\ lost' = lost \/ lost' = lost \union {<<"reserve", id>>}
        /\ result = "no" => holds' = holds \/ <<"reserve", id>> \in lost'
        /\ \/ /\ CanReserve(cart) /\ holds' = [holds EXCEPT ![id] = @ + 1]
              /\ stock' = [i \in Items |->
                   stock[i] - (IF i \in ItemIds(cart)
                                 THEN cart[CHOOSE n \in DOMAIN cart : cart[n].item = i].qty ELSE 0)]
           \/ UNCHANGED <<stock, holds>> /\ result = "no"
  BY DEF SubmitInvoice
<1>4. stock' \in [Items -> 0..MaxStock]
  <2> DEFINE left == [i \in Items |->
                 stock[i] - (IF i \in ItemIds(cart)
                               THEN cart[CHOOSE n \in DOMAIN cart : cart[n].item = i].qty ELSE 0)]
  <2>1. CanReserve(cart) => left \in [Items -> 0..MaxStock]
    BY <1>2, ReservedStock
  <2>2. stock' = stock \/ (CanReserve(cart) /\ stock' = left)
    BY <1>3
  <2> HIDE DEF left, cart
  <2>3. stock \in [Items -> 0..MaxStock]
    BY DEF TypeOK
  <2>. QED
    BY <2>1, <2>2, <2>3
<1> HIDE DEF cart
<1>5. /\ holds' \in [Turns -> Nat]
      /\ \A other \in Turns \ {id} : holds'[other] = holds[other]
      /\ holds'[id] <= 1 /\ (result = "ok" => holds'[id] = 1)
      /\ result = "no" => holds'[id] = 0 \/ <<"reserve", id>> \in lost'
  <2>1. /\ \/ holds' = [holds EXCEPT ![id] = @ + 1]
           \/ holds' = holds /\ result = "no"
        /\ result = "no" => holds' = holds \/ <<"reserve", id>> \in lost'
    BY <1>3
  <2>2. holds \in [Turns -> Nat] /\ id \in Turns /\ holds[id] = 0
    BY <1>2 DEF TypeOK
  <2> HIDE DEF id
  <2>. QED
    BY <2>1, <2>2
<1>6. /\ with(result) \in CallResults /\ with(result).res = result
      /\ with(result).pay = calls[t].pay
      /\ calls' = [calls EXCEPT ![t] = with(result)]
  BY <1>2, <1>3 DEF CallResults
<1>7. faults' \in Nat /\ lost \subseteq lost' /\ lost' \subseteq {"reserve", "cancel"} \X Turns
  BY <1>2, <1>3 DEF TypeOK, Fault
<1> HIDE DEF with
<1>8. Agrees(with(result), id, holds'[id], link'[id], lost')
  BY <1>1, <1>2, <1>3, <1>5, <1>6 DEF Agrees
<1>9. Settles(t, with(result))
  BY <1>1, <1>2, <1>4, <1>5, <1>6, <1>7, <1>8 DEF Settles, TypeOK
<1>. QED
  BY <1>9

LEMMA LinkSettles ==
  ASSUME TypeOK, OrderInv, NEW t \in Turns, CreatePaymentLink(t)
  PROVE  \E c : Settles(t, c)
<1> DEFINE id == st[t].invoice
           with(result) == [calls[t] EXCEPT !.pay = result]
<1>1. /\ AtOrder(t)
      /\ UNCHANGED <<storeVars, redisVars, turnVars, msg, orders, holds, orphans, lost, offered,
                     changes>>
  BY DEF CreatePaymentLink, AtDispatch, AtOrder
<1>2. /\ id \in Turns /\ calls[t] \in CallResults /\ holds[id] <= 1
      /\ Agrees(calls[t], id, holds[id], link[id], lost)
  BY <1>1, OrderOfTurn
<1>3. PICK result \in {"ok", "no"} :
        /\ calls' = [calls EXCEPT ![t].pay = result]
        /\ faults' = faults \/ Fault
        /\ \/ link' = [link EXCEPT ![id] = "live"]
           \/ UNCHANGED link /\ result = "no"
  BY DEF CreatePaymentLink
<1>4. /\ link' \in [Turns -> {"none", "live", "cancelled"}]
      /\ \A other \in Turns \ {id} : link'[other] = link[other]
      /\ result = "ok" => link'[id] = "live"
  BY <1>2, <1>3 DEF TypeOK
<1>5. /\ with(result) \in CallResults /\ with(result).pay = result
      /\ with(result).res = calls[t].res
      /\ calls' = [calls EXCEPT ![t] = with(result)]
  BY <1>2, <1>3 DEF CallResults
<1>6. faults' \in Nat
  BY <1>3 DEF TypeOK, Fault
<1> HIDE DEF with
<1>7. Agrees(with(result), id, holds'[id], link'[id], lost')
  BY <1>1, <1>2, <1>4, <1>5 DEF Agrees
<1>8. Settles(t, with(result))
  BY <1>1, <1>2, <1>4, <1>5, <1>6, <1>7 DEF Settles, TypeOK, storeVars
<1>. QED
  BY <1>8

LEMMA CancelSettles ==
  ASSUME TypeOK, OrderInv, NEW t \in Turns, CancelPaymentLink(t)
  PROVE  \E c : Settles(t, c)
<1> DEFINE id == st[t].invoice
           c == [calls[t] EXCEPT !.pay = "voided"]
<1>1. /\ AtOrder(t) /\ calls[t].res = "no"
      /\ calls' = [calls EXCEPT ![t].pay = "voided"]
      /\ UNCHANGED <<storeVars, redisVars, turnVars, msg, orders, holds, offered, changes>>
      /\ link' = link \/ link' = [link EXCEPT ![id] = "cancelled"]
      /\ orphans' = orphans \/ orphans' = orphans \union {id}
      /\ lost' = lost \/ lost' = lost \union {<<"cancel", id>>}
      /\ link' = [link EXCEPT ![id] = "cancelled"] \/ <<"cancel", id>> \in lost'
      /\ faults' = faults \/ Fault
  BY DEF CancelPaymentLink, AtOrder, Unbacked
<1>2. /\ id \in Turns /\ calls[t] \in CallResults /\ holds[id] <= 1
      /\ holds[id] = 0 \/ <<"reserve", id>> \in lost
  BY <1>1, OrderOfTurn DEF Agrees
<1>3. /\ link' \in [Turns -> {"none", "live", "cancelled"}]
      /\ \A other \in Turns \ {id} : link'[other] = link[other]
      /\ link'[id] # "live" \/ <<"cancel", id>> \in lost'
      /\ lost \subseteq lost' /\ lost' \subseteq {"reserve", "cancel"} \X Turns
  BY <1>1, <1>2 DEF TypeOK
<1>4. c \in CallResults /\ c.res = "no" /\ c.pay = "voided" /\ calls' = [calls EXCEPT ![t] = c]
  BY <1>1, <1>2 DEF CallResults
<1>5. faults' \in Nat /\ orphans' \subseteq Turns
  BY <1>1, <1>2 DEF TypeOK, Fault
<1> HIDE DEF c
<1>6. Agrees(c, id, holds'[id], link'[id], lost')
  BY <1>1, <1>2, <1>3, <1>4 DEF Agrees
<1>7. Settles(t, c)
  BY <1>1, <1>2, <1>3, <1>4, <1>5, <1>6 DEF Settles, TypeOK, storeVars
<1>. QED
  BY <1>7

(* The two nodes that wait for the calls and answer for them.              *)
Dispatches(t) ==
  /\ pc[t] = "dispatch_invoice_processing"
  /\ Visits(t, st[t], "resolve_invoice_outcome")
  /\ UNCHANGED <<calls, moneyVars, offered>>

Resolves(t, s) ==
  /\ pc[t] = "resolve_invoice_outcome"
  /\ Visits(t, s, "done")
  /\ calls' = [calls EXCEPT ![t] = NoCalls]
  /\ s.known = st[t].known /\ ~s.awaiting /\ ~s.proceed
  /\ s.invId = st[t].invoice
  /\ s.status = "INVOICED" => calls[t].res = "ok"
  /\ s.reply = "invoiced" => calls[t].pay = "ok"
  /\ s.reply \in {"voided", "unreserved"} => calls[t].res # "ok"
  /\ s.reply = "voided" => calls[t].pay = "voided"
  /\ UNCHANGED <<moneyVars, offered>>

LEMMA DispatchCases ==
  ASSUME TypeOK, SessionInv, NEW t \in Turns, DispatchInvoiceProcessing(t)
  PROVE  Dispatches(t)
<1>1. /\ pc[t] = "dispatch_invoice_processing"
      /\ Finish(t, st[t], "resolve_invoice_outcome")
      /\ UNCHANGED <<storeVars, msg, calls, moneyVars, offered, changes>>
  BY DEF DispatchInvoiceProcessing, Node, Runs
<1>2. Fits(st[t], "resolve_invoice_outcome", msg[t])
  BY <1>1, StandsBefore DEF Fits, ClosedNodes, Nodes
<1>3. st[t] \in Session /\ offered \in Summary \union {NoValue} /\ changes \in Nat
  BY DEF TypeOK
<1>4. Visits(t, st[t], "resolve_invoice_outcome")
  BY <1>1, <1>2, <1>3 DEF Visits, Nodes
<1>. QED
  BY <1>1, <1>4 DEF Dispatches

LEMMA ResolveCases ==
  ASSUME TypeOK, SessionInv, NEW t \in Turns, ResolveInvoiceOutcome(t)
  PROVE  \E s : Resolves(t, s)
<1> DEFINE s == Outcome(st[t], calls[t])
           r == calls[t].res
           p == calls[t].pay
<1>1. /\ pc[t] = "resolve_invoice_outcome"
      /\ Finish(t, s, "done")
      /\ calls' = [calls EXCEPT ![t] = NoCalls]
      /\ UNCHANGED <<storeVars, msg, moneyVars, offered, changes>>
  BY DEF ResolveInvoiceOutcome
<1>2. st[t] \in Session /\ offered \in Summary \union {NoValue} /\ changes \in Nat
  BY DEF TypeOK
<1>3. /\ s \in Session /\ s.lines = st[t].lines /\ s.known = st[t].known
      /\ ~s.awaiting /\ ~s.proceed /\ s.invId = st[t].invoice
      /\ s.status = "INVOICED" => r = "ok"
      /\ s.reply = "invoiced" => p = "ok"
      /\ s.reply \in {"voided", "unreserved"} => r # "ok"
      /\ s.reply = "voided" => p = "voided"
  <2>1. CASE r = "ok"
    <3> DEFINE reply == IF p = "ok" THEN "invoiced" ELSE "no_link"
    <3>1. s = [st[t] EXCEPT !.awaiting = FALSE, !.proceed = FALSE, !.invId = st[t].invoice,
                            !.status = "INVOICED", !.reply = reply]
      BY <1>2, <2>1 DEF Outcome, Session
    <3>2. /\ reply \in Replies /\ reply \notin {"voided", "unreserved"}
          /\ reply = "invoiced" => p = "ok"
      BY DEF Replies
    <3> HIDE DEF s, reply
    <3>. QED
      BY <1>2, <2>1, <3>1, <3>2 DEF Session, Status
  <2>2. CASE r # "ok"
    <3> DEFINE reply == IF p = "voided" THEN "voided" ELSE "unreserved"
    <3>1. s = [st[t] EXCEPT !.awaiting = FALSE, !.proceed = FALSE, !.invId = st[t].invoice,
                            !.status = "AWAITING_FIELDS", !.invoice = NoValue, !.reply = reply]
      BY <1>2, <2>2 DEF Outcome, Session
    <3>2. /\ reply \in Replies /\ reply # "invoiced"
          /\ reply = "voided" => p = "voided"
      BY DEF Replies
    <3> HIDE DEF s, reply
    <3>. QED
      BY <1>2, <2>2, <3>1, <3>2 DEF Session, Status
  <2>. QED
    BY <2>1, <2>2
<1> HIDE DEF s
<1>4. Fits(s, "done", msg[t])
  BY <1>3, StandsBefore DEF Fits
<1>5. Visits(t, s, "done")
  BY <1>1, <1>2, <1>3, <1>4 DEF Visits, Nodes
<1>6. Resolves(t, s)
  BY <1>1, <1>3, <1>5 DEF Resolves
<1>. QED
  BY <1>6

(* A step of a turn is one of these.                                       *)
TurnCase(t) ==
  \/ Opens(t)
  \/ \E s, next : Wanders(t, s, next)
  \/ \E s : Offers(t, s)
  \/ Quits(t)
  \/ \E s : Generates(t, s)
  \/ \E c : Settles(t, c)
  \/ Dispatches(t)
  \/ \E s : Resolves(t, s)

LEMMA TurnCases ==
  ASSUME TypeOK, SessionInv, OrderInv, NEW t \in Turns, TurnStep(t)
  PROVE  TurnCase(t)
<1>0. CASE LoadSession(t)
  BY <1>0 DEF LoadSession, Opens, TurnCase
<1>1. CASE \/ LoadOrderDraft(t) \/ OffTopicGuard(t) \/ ParseIntent(t)
           \/ ResolveInvoiceConfirmation(t) \/ ResolveCatalog(t)
  <2>1. \E s, next : Wanders(t, s, next)
    BY <1>1, DraftWanders, OffTopicWanders, ParseWanders, ConfirmationWanders, CatalogWanders
  <2>. QED
    BY <2>1 DEF TurnCase
<1>2. CASE ReactPlanner(t) \/ ReactToolSelector(t) \/ ReactExecutor(t) \/ CheckAvailability(t)
  <2>1. \E s, next : Wanders(t, s, next)
    BY <1>2, PlannerWanders, SelectorWanders, ExecutorWanders, AvailabilityWanders
  <2>. QED
    BY <2>1 DEF TurnCase
<1>3. CASE \/ SuggestAlternative(t) \/ CheckMissingFields(t) \/ AskForFields(t)
           \/ FinalizeOrder(t)
  <2>1. \E s, next : Wanders(t, s, next)
    BY <1>3, AlternativeWanders, MissingWanders, AskWanders, FinalizeWanders
  <2>. QED
    BY <2>1 DEF TurnCase
<1>4. CASE GenerateInvoice(t)
  BY <1>4, GenerateCases DEF TurnCase
<1>5. CASE SubmitInvoice(t) \/ CreatePaymentLink(t) \/ CancelPaymentLink(t)
  <2>1. \E c : Settles(t, c)
    BY <1>5, SubmitSettles, LinkSettles, CancelSettles
  <2>. QED
    BY <2>1 DEF TurnCase
<1>6. CASE DispatchInvoiceProcessing(t)
  BY <1>6, DispatchCases DEF TurnCase
<1>7. CASE ResolveInvoiceOutcome(t)
  BY <1>7, ResolveCases DEF TurnCase
<1>8. CASE OfferInvoiceConfirmation(t)
  BY <1>8, OfferCases DEF TurnCase
<1>. QED
  BY <1>0, <1>1, <1>2, <1>3, <1>4, <1>5, <1>6, <1>7, <1>8 DEF TurnStep

(* A step that takes a turn from one node to another on this side of its   *)
(* order.                                                                  *)
LEMMA AsideOrder ==
  ASSUME TypeOK, OrderInv, NEW t \in Turns, ~AtOrder(t), pc[t] # "done",
         \A u \in Turns \ {t} : /\ pc'[u] = pc[u] /\ st'[u] = st[u]
                                /\ msg'[u] = msg[u] /\ answer'[u] = answer[u],
         ~AtOrder(t)',
         \/ answer'[t] = answer[t]
         \/ pc'[t] = "done" /\ ~SaysOfOrder(answer'[t]),
         UNCHANGED <<calls, orders, holds, link, lost>>
  PROVE  OrderInv'
<1>1. Ordered' = Ordered
  BY DEF Ordered
<1>2. \A id \in Ordered : orders[id].by \in Turns \ {t}
  BY DEF TypeOK, OrderRow, Ordered, OrderInv, RowInv
<1>3. RowInv'
  BY <1>1, <1>2 DEF OrderInv, RowInv, AtOrder
<1>4. CallInv'
  BY <1>1 DEF OrderInv, CallInv, AtOrder
<1>5. HoldInv'
  BY <1>1 DEF OrderInv, HoldInv
<1>6. AnswerInv'
  BY <1>1 DEF OrderInv, AnswerInv
<1>. QED
  BY <1>3, <1>4, <1>5, <1>6 DEF OrderInv

LEMMA PassesOrder ==
  ASSUME TypeOK, OrderInv, NEW t \in Turns, NEW s, NEW next, Passes(t, s, next)
  PROVE  OrderInv'
<1>1. /\ s \in Session /\ next \in Nodes /\ Finish(t, s, next)
      /\ pc[t] # "done" /\ ~AtOrder(t) /\ UNCHANGED <<msg, calls, orders, holds, link, lost>>
      /\ next \notin {"dispatch_invoice_processing", "resolve_invoice_outcome"}
      /\ next = "done" => ~SaysOfOrder(s)
  BY DEF Passes, Visits, AtOrder, moneyVars, SaysOfOrder
<1>2. /\ \A u \in Turns \ {t} : pc'[u] = pc[u] /\ st'[u] = st[u] /\ answer'[u] = answer[u]
      /\ \/ next # "done" /\ pc'[t] = next /\ answer'[t] = answer[t]
         \/ pc'[t] = "done" /\ ~SaysOfOrder(answer'[t])
  BY <1>1, FinishTurn DEF SaysOfOrder, OutcomeReplies
<1>. QED
  BY <1>1, <1>2, AsideOrder DEF AtOrder

LEMMA OpensOrder ==
  ASSUME TypeOK, SessionInv, OrderInv, NEW t \in Turns, Opens(t)
  PROVE  OrderInv'
<1>1. /\ ~AtOrder(t) /\ pc[t] # "done"
      /\ UNCHANGED <<msg, answer, calls, orders, holds, link, lost>>
  BY DEF Opens, AtOrder, moneyVars
<1>. QED
  BY <1>1, OpensKeeps, AsideOrder DEF AtOrder

LEMMA QuitsOrder ==
  ASSUME TypeOK, SessionInv, OrderInv, NEW t \in Turns, Quits(t)
  PROVE  OrderInv'
<1>1. /\ ~AtOrder(t) /\ pc[t] # "done" /\ UNCHANGED <<msg, calls, orders, holds, link, lost>>
  BY DEF Quits, AtOrder, moneyVars
<1>2. pc'[t] = "done" /\ ~SaysOfOrder(answer'[t])
  BY QuitStep DEF SaysOfOrder, OutcomeReplies
<1>. QED
  BY <1>1, <1>2, QuitStep, AsideOrder DEF AtOrder

LEMMA GeneratesOrder ==
  ASSUME TypeOK, SessionInv, OrderInv, NEW t \in Turns, NEW s, Generates(t, s)
  PROVE  OrderInv'
<1> DEFINE id == s.invoice
<1>1. /\ pc[t] = "generate_invoice" /\ ~AtOrder(t) /\ id \in Turns /\ orders[id] = NoValue
      /\ orders' = [orders EXCEPT ![id] = RowOf(t)]
      /\ UNCHANGED <<msg, calls, holds, link, lost>>
      /\ s \in Session /\ Finish(t, s, "dispatch_invoice_processing")
  BY DEF Generates, Visits, AtOrder
<1>2. /\ RowOf(t) \in OrderRow /\ RowOf(t) # NoValue /\ RowOf(t).by = t
      /\ RowOf(t).known = Fields /\ msg[t].proceed
  BY <1>1, StandsBefore, GenerateStep, NoneAssumption DEF RowOf, Fits
<1>3. /\ Ordered' = Ordered \union {id} /\ id \notin Ordered
      /\ orders'[id] = RowOf(t) /\ \A other \in Ordered : orders'[other] = orders[other]
  BY <1>1, <1>2 DEF TypeOK, Ordered
<1>4. /\ \A u \in Turns \ {t} : pc'[u] = pc[u] /\ st'[u] = st[u] /\ answer'[u] = answer[u]
      /\ \/ /\ pc'[t] = "dispatch_invoice_processing" /\ st'[t] = s /\ answer'[t] = answer[t]
         \/ /\ pc'[t] = "done"
            /\ answer'[t].status = "FAILED" /\ answer'[t].reply = "error"
  <2>1. "dispatch_invoice_processing" \in Nodes
    BY DEF Nodes
  <2>. QED
    BY <1>1, <2>1, FinishTurn
<1> HIDE DEF id
<1>5. \A other \in Ordered : orders[other].by \in Turns \ {t}
  BY <1>1 DEF TypeOK, OrderRow, Ordered, OrderInv, RowInv
<1>6. RowInv'
  BY <1>1, <1>2, <1>3, <1>4, <1>5 DEF OrderInv, RowInv, AtOrder
<1>7. CallInv'
  <2>1. calls[t] = NoCalls /\ Agrees(NoCalls, id, holds[id], link[id], lost)
    BY <1>1, <1>3 DEF OrderInv, CallInv, HoldInv, Agrees, NoCalls
  <2>2. ASSUME NEW u \in Turns \ {t}
        PROVE  /\ AtOrder(u)' =>
                    LET own == st'[u].invoice
                    IN  /\ own \in Ordered' /\ orders'[own].by = u
                        /\ Agrees(calls'[u], own, holds'[own], link'[own], lost')
               /\ ~AtOrder(u)' /\ pc'[u] # "done" => calls'[u] = NoCalls
    BY <1>1, <1>3, <1>4 DEF OrderInv, CallInv, AtOrder
  <2>3. /\ AtOrder(t)' =>
             LET own == st'[t].invoice
             IN  /\ own \in Ordered' /\ orders'[own].by = t
                 /\ Agrees(calls'[t], own, holds'[own], link'[own], lost')
        /\ ~AtOrder(t)' /\ pc'[t] # "done" => calls'[t] = NoCalls
    BY <1>1, <1>2, <1>3, <1>4, <2>1 DEF AtOrder, id
  <2>. QED
    BY <2>2, <2>3 DEF CallInv
<1>8. HoldInv'
  BY <1>1, <1>3 DEF OrderInv, HoldInv
<1>9. AnswerInv'
  <2>1. pc'[t] = "done" => ~SaysOfOrder(answer'[t])
    BY <1>4 DEF SaysOfOrder, OutcomeReplies
  <2>2. answer[t] = NoValue
    BY <1>1 DEF OrderInv, AnswerInv
  <2>. QED
    BY <1>1, <1>3, <1>4, <2>1, <2>2 DEF OrderInv, AnswerInv
<1>. QED
  BY <1>6, <1>7, <1>8, <1>9 DEF OrderInv

LEMMA SettlesKeeps ==
  ASSUME TypeOK, SessionInv, OrderInv, NEW t \in Turns, NEW c, Settles(t, c)
  PROVE  TypeOK' /\ SessionInv' /\ OrderInv'
<1> DEFINE id == st[t].invoice
<1>1. /\ id \in Turns /\ id \in Ordered /\ orders[id].by = t /\ AtOrder(t)
  BY OrderOfTurn DEF Settles, OrderInv, CallInv
<1>2. /\ UNCHANGED <<listed, saved, draft, pc, st, answer, msg, orders, offered, changes>>
      /\ Ordered' = Ordered
  BY DEF Settles, redisVars, turnVars, Ordered
<1>3. TypeOK'
  <2>1. calls' \in [Turns -> CallResults]
    BY DEF Settles, TypeOK, CallResults
  <2>. QED
    BY <1>2, <2>1 DEF Settles, TypeOK, CallResults
<1>4. SessionInv'
  BY <1>2 DEF SessionInv
<1>5. RowInv'
  BY <1>2 DEF OrderInv, RowInv, AtOrder
<1>6. /\ calls'[t] = c /\ \A u \in Turns \ {t} : calls'[u] = calls[u]
      /\ \A other \in Turns \ {id} : holds'[other] = holds[other] /\ link'[other] = link[other]
      /\ holds'[id] <= 1 /\ lost \subseteq lost'
      /\ Agrees(c, id, holds'[id], link'[id], lost')
  BY DEF Settles, TypeOK
<1> HIDE DEF id
<1>7. CallInv'
  <2>1. ASSUME NEW u \in Turns \ {t}, AtOrder(u)
        PROVE  LET own == st[u].invoice
               IN  /\ own \in Ordered' /\ orders'[own].by = u
                   /\ Agrees(calls'[u], own, holds'[own], link'[own], lost')
    <3> DEFINE own == st[u].invoice
    <3>1. /\ own \in Turns \ {id} /\ own \in Ordered /\ orders[own].by = u
          /\ Agrees(calls[u], own, holds[own], link[own], lost)
      BY <1>1, <2>1, OrderOfTurn DEF OrderInv, CallInv
    <3> HIDE DEF own
    <3>2. Agrees(calls'[u], own, holds'[own], link'[own], lost')
      BY <1>6, <3>1 DEF Agrees
    <3>. QED
      BY <1>2, <3>1, <3>2 DEF own
  <2>2. LET own == st[t].invoice
        IN  /\ own \in Ordered' /\ orders'[own].by = t
            /\ Agrees(calls'[t], own, holds'[own], link'[own], lost')
    BY <1>1, <1>2, <1>6 DEF id
  <2>3. \A u \in Turns : AtOrder(u)' <=> AtOrder(u)
    BY <1>2 DEF AtOrder
  <2>4. \A u \in Turns : ~AtOrder(u) /\ pc[u] # "done" => calls'[u] = NoCalls
    BY <1>1, <1>6 DEF OrderInv, CallInv
  <2>. QED
    BY <1>2, <2>1, <2>2, <2>3, <2>4 DEF CallInv
<1>8. HoldInv'
  BY <1>1, <1>2, <1>6 DEF OrderInv, HoldInv
<1>9. AnswerInv'
  <2>1. ASSUME NEW u \in Turns, answer[u] # NoValue, SaysOfOrder(answer[u])
        PROVE  LET own == answer[u].id
               IN  /\ own \in Ordered' /\ orders'[own].by = u
                   /\ IsSo(answer[u], holds'[own], link'[own], lost')
    <3> DEFINE own == answer[u].id
    <3>1. /\ pc[u] = "done" /\ own \in Ordered /\ orders[own].by = u
          /\ IsSo(answer[u], holds[own], link[own], lost)
      BY <2>1 DEF OrderInv, AnswerInv
    <3>2. own \in Turns \ {id}
      BY <1>1, <3>1 DEF AtOrder, Ordered
    <3>3. IsSo(answer[u], holds'[own], link'[own], lost')
      BY <1>6, <3>1, <3>2 DEF IsSo
    <3>. QED
      BY <1>2, <3>1, <3>3
  <2>. QED
    BY <1>2, <2>1 DEF OrderInv, AnswerInv
<1>. QED
  BY <1>3, <1>4, <1>5, <1>7, <1>8, <1>9 DEF OrderInv

LEMMA DispatchesOrder ==
  ASSUME TypeOK, OrderInv, NEW t \in Turns, Dispatches(t)
  PROVE  OrderInv'
<1>1. /\ AtOrder(t) /\ st[t] \in Session /\ Finish(t, st[t], "resolve_invoice_outcome")
      /\ UNCHANGED <<msg, calls, orders, holds, link, lost>> /\ Ordered' = Ordered
      /\ "resolve_invoice_outcome" \in Nodes
  BY DEF Dispatches, Visits, AtOrder, moneyVars, Ordered, Nodes
<1>2. /\ \A u \in Turns \ {t} : pc'[u] = pc[u] /\ st'[u] = st[u] /\ answer'[u] = answer[u]
      /\ \/ pc'[t] = "resolve_invoice_outcome" /\ st'[t] = st[t] /\ answer'[t] = answer[t]
         \/ /\ pc'[t] = "done"
            /\ answer'[t].status = "FAILED" /\ answer'[t].reply = "error"
  BY <1>1, FinishTurn
<1>3. RowInv'
  BY <1>1, <1>2 DEF OrderInv, RowInv, AtOrder, TypeOK, OrderRow, Ordered
<1>4. CallInv'
  BY <1>1, <1>2 DEF OrderInv, CallInv, AtOrder
<1>5. HoldInv'
  BY <1>1 DEF OrderInv, HoldInv
<1>6. AnswerInv'
  <2>1. pc'[t] = "done" => ~SaysOfOrder(answer'[t])
    BY <1>2 DEF SaysOfOrder, OutcomeReplies
  <2>. QED
    BY <1>1, <1>2, <2>1 DEF OrderInv, AnswerInv, AtOrder
<1>. QED
  BY <1>3, <1>4, <1>5, <1>6 DEF OrderInv

LEMMA ResolvesOrder ==
  ASSUME TypeOK, OrderInv, NEW t \in Turns, NEW s, Resolves(t, s)
  PROVE  OrderInv'
<1>1. /\ AtOrder(t) /\ s \in Session /\ Finish(t, s, "done")
      /\ UNCHANGED <<msg, orders, holds, link, lost>> /\ Ordered' = Ordered
      /\ "done" \in Nodes /\ s.invId = st[t].invoice
  BY DEF Resolves, Visits, AtOrder, moneyVars, Ordered, Nodes
<1>2. /\ \A u \in Turns \ {t} : pc'[u] = pc[u] /\ st'[u] = st[u] /\ answer'[u] = answer[u]
      /\ pc'[t] = "done"
      /\ \/ /\ answer'[t].status = s.status /\ answer'[t].reply = s.reply
            /\ answer'[t].id = s.invId
         \/ answer'[t].status = "FAILED" /\ answer'[t].reply = "error"
  BY <1>1, FinishTurn
<1>3. \A u \in Turns \ {t} : calls'[u] = calls[u]
  BY DEF Resolves, TypeOK
<1>4. RowInv'
  BY <1>1, <1>2 DEF OrderInv, RowInv, AtOrder, TypeOK, OrderRow, Ordered
<1>5. CallInv'
  BY <1>1, <1>2, <1>3 DEF OrderInv, CallInv, AtOrder
<1>6. HoldInv'
  BY <1>1 DEF OrderInv, HoldInv
<1>7. AnswerInv'
  <2> DEFINE id == st[t].invoice
  <2>1. /\ id \in Ordered /\ orders[id].by = t /\ calls[t] \in CallResults
        /\ Agrees(calls[t], id, holds[id], link[id], lost)
    BY <1>1, OrderOfTurn DEF OrderInv, CallInv
  <2> HIDE DEF id
  <2>2. ASSUME SaysOfOrder(answer'[t])
        PROVE  answer'[t].id = id /\ IsSo(answer'[t], holds[id], link[id], lost)
    <3>1. /\ answer'[t].status = s.status /\ answer'[t].reply = s.reply
          /\ answer'[t].id = id
      BY <1>1, <1>2, <2>2 DEF SaysOfOrder, OutcomeReplies, id
    <3>. QED
      BY <2>1, <3>1 DEF Resolves, IsSo, Agrees, CallResults
  <2>3. \A u \in Turns \ {t} : answer[u] # NoValue =>
          /\ pc'[u] = "done"
          /\ SaysOfOrder(answer[u]) =>
               LET own == answer[u].id
               IN  /\ own \in Ordered /\ orders[own].by = u
                   /\ IsSo(answer[u], holds[own], link[own], lost)
    BY <1>2 DEF OrderInv, AnswerInv
  <2>. QED
    BY <1>1, <1>2, <2>1, <2>2, <2>3 DEF AnswerInv
<1>. QED
  BY <1>4, <1>5, <1>6, <1>7 DEF OrderInv
-----------------------------------------------------------------------------
(* A turn that begins, and what happens outside the session.               *)
LEMMA BeginKeeps ==
  ASSUME TypeOK, SessionInv, OrderInv, NEW t \in Turns, NEW m \in Messages, Begin(t, m)
  PROVE  TypeOK' /\ SessionInv' /\ OrderInv'
<1>1. /\ pc[t] = "idle"
      /\ pc' = [pc EXCEPT ![t] = "load_session"] /\ msg' = [msg EXCEPT ![t] = m]
      /\ UNCHANGED <<storeVars, redisVars, st, answer, calls, moneyVars, offered, changes, faults>>
  BY DEF Begin
<1>2. TypeOK'
  BY <1>1 DEF TypeOK, Nodes, storeVars, redisVars, moneyVars
<1>3. /\ pc'[t] = "load_session" /\ msg'[t] = m
      /\ \A u \in Turns \ {t} : pc'[u] = pc[u] /\ msg'[u] = msg[u]
  BY <1>1 DEF TypeOK
<1>4. st[t] = NewSession
  BY <1>1 DEF SessionInv
<1>5. SessionInv'
  <2>1. Fits(NewSession, "load_session", m)
    BY NewSessionFits
  <2>2. UNCHANGED <<saved, draft, st>>
    BY <1>1 DEF redisVars
  <2>. QED
    BY <1>3, <1>4, <2>1, <2>2 DEF SessionInv
<1>6. OrderInv'
  BY <1>1, <1>3, AsideOrder DEF AtOrder, moneyVars
<1>. QED
  BY <1>2, <1>5, <1>6

Outside ==
  \/ \E i \in Items : Delist(i) \/ \E n \in 0..MaxStock : StockChanges(i, n)
  \/ SessionExpires

LEMMA OutsideKeeps ==
  ASSUME TypeOK, SessionInv, OrderInv, Outside
  PROVE  TypeOK' /\ SessionInv' /\ OrderInv'
<1>1. ASSUME NEW i \in Items, Delist(i)
      PROVE  TypeOK' /\ UNCHANGED <<redisVars, turnVars, msg, calls, moneyVars, offered>>
  BY <1>1 DEF Delist, Change, TypeOK, redisVars, turnVars, moneyVars
<1>2. ASSUME NEW i \in Items, NEW n \in 0..MaxStock, StockChanges(i, n)
      PROVE  TypeOK' /\ UNCHANGED <<redisVars, turnVars, msg, calls, moneyVars, offered>>
  BY <1>2 DEF StockChanges, Change, TypeOK, redisVars, turnVars, moneyVars
<1>3. CASE SessionExpires
  <2>1. /\ saved' = NoValue /\ draft' = NoValue /\ offered' = NoValue
        /\ UNCHANGED <<turnVars, msg, calls, moneyVars>>
        /\ \A t \in Turns : pc[t] \in {"idle", "done"}
    BY <1>3 DEF SessionExpires
  <2>2. TypeOK'
    BY <1>3, <2>1 DEF SessionExpires, Change, TypeOK, storeVars, turnVars, moneyVars
  <2>3. SessionInv'
    <3>1. \A t \in Turns : st[t] = NewSession
      BY <2>1 DEF SessionInv
    <3>2. \A t \in Turns : Fits(NewSession, pc[t], msg[t])
      BY <2>1, NewSessionFits
    <3>. QED
      BY <2>1, <3>1, <3>2 DEF SessionInv, turnVars
  <2>4. OrderInv'
    BY <2>1 DEF OrderInv, RowInv, CallInv, HoldInv, AnswerInv, Ordered, AtOrder,
                turnVars, moneyVars
  <2>. QED
    BY <2>2, <2>3, <2>4
<1>4. ASSUME UNCHANGED <<redisVars, turnVars, msg, calls, moneyVars, offered>>
      PROVE  SessionInv' /\ OrderInv'
  <2>1. SessionInv'
    BY <1>4 DEF SessionInv, redisVars, turnVars
  <2>2. OrderInv'
    BY <1>4 DEF OrderInv, RowInv, CallInv, HoldInv, AnswerInv, Ordered, AtOrder,
                turnVars, moneyVars
  <2>. QED
    BY <2>1, <2>2
<1>. QED
  BY <1>1, <1>2, <1>3, <1>4 DEF Outside

(* The inductive invariant, whether turns overlap or not.                  *)
IInv == TypeOK /\ SessionInv /\ OrderInv

LEMMA InitIInv == Init => IInv
<1> SUFFICES ASSUME Init PROVE IInv
  OBVIOUS
<1>1. Ordered = {}
  BY DEF Init, Ordered
<1>2. TypeOK
  BY NewSessionFits, TurnAssumption DEF Init, TypeOK, Nodes, NoCalls
<1>3. SessionInv
  <2>1. Fits(NewSession, "idle", NoValue)
    BY NewSessionFits
  <2>. QED
    BY <2>1 DEF Init, SessionInv
<1>4. OrderInv
  BY <1>1 DEF Init, OrderInv, RowInv, CallInv, HoldInv, AnswerInv, AtOrder, NoCalls
<1>. QED
  BY <1>2, <1>3, <1>4 DEF IInv

LEMMA NextIInv == IInv /\ [Next]_vars => IInv'
<1> SUFFICES ASSUME IInv, [Next]_vars PROVE IInv'
  OBVIOUS
<1>0. TypeOK /\ SessionInv /\ OrderInv
  BY DEF IInv
<1>1. ASSUME NEW t \in Turns, TurnStep(t) PROVE IInv'
  <2>0. CASE Opens(t)
    BY <1>0, <2>0, OpensKeeps, OpensOrder DEF IInv
  <2>1. CASE \E s, next : Passes(t, s, next)
    BY <1>0, <2>1, VisitsTyped, VisitsSession, PassesOrder DEF Passes, IInv
  <2>2. CASE Quits(t)
    BY <1>0, <2>2, QuitStep, QuitsOrder DEF IInv
  <2>3. CASE \E s : Generates(t, s)
    BY <1>0, <2>3, GenerateStep, GeneratesOrder DEF IInv
  <2>4. CASE \E c : Settles(t, c)
    BY <1>0, <2>4, SettlesKeeps DEF IInv
  <2>5. CASE Dispatches(t)
    BY <1>0, <2>5, VisitsTyped, VisitsSession, DispatchesOrder DEF Dispatches, IInv
  <2>6. CASE \E s : Resolves(t, s)
    <3>1. PICK s : Resolves(t, s)
      BY <2>6
    <3>2. calls' \in [Turns -> CallResults]
      BY <1>0, <3>1 DEF Resolves, TypeOK, CallResults, NoCalls
    <3>3. TypeOK'
      BY <1>0, <3>1, <3>2, FinishStep
      DEF Resolves, Visits, TypeOK, CallResults, storeVars, moneyVars
    <3>. QED
      BY <1>0, <3>1, <3>3, VisitsSession, ResolvesOrder DEF Resolves, IInv
  <2>. QED
    BY <1>0, <1>1, <2>0, <2>1, <2>2, <2>3, <2>4, <2>5, <2>6, TurnCases
    DEF TurnCase, Wanders, Offers
<1>2. ASSUME NEW t \in Turns, NEW m \in Messages, Begin(t, m) PROVE IInv'
  BY <1>0, <1>2, BeginKeeps DEF IInv
<1>3. ASSUME Outside PROVE IInv'
  BY <1>0, <1>3, OutsideKeeps DEF IInv
<1>4. ASSUME UNCHANGED vars PROVE IInv'
  <2>1. TypeOK'
    BY <1>0, <1>4 DEF TypeOK, vars, storeVars, redisVars, turnVars, moneyVars
  <2>2. SessionInv'
    BY <1>0, <1>4 DEF SessionInv, vars, redisVars, turnVars
  <2>3. OrderInv'
    BY <1>0, <1>4 DEF OrderInv, RowInv, CallInv, HoldInv, AnswerInv, Ordered, AtOrder,
                      vars, turnVars, moneyVars
  <2>. QED
    BY <2>1, <2>2, <2>3 DEF IInv
<1>. QED
  BY <1>1, <1>2, <1>3, <1>4 DEF Next, Outside

LEMMA InductiveInvariant == Spec => []IInv
BY InitIInv, NextIInv, PTL DEF Spec
-----------------------------------------------------------------------------
(* Every variable has values of its type: in particular the copy of the    *)
(* session a turn works on and what it leaves in Redis stay sessions, and  *)
(* submit_invoice never takes the stock of an item below zero.             *)
THEOREM TypeCorrect == Spec => []TypeOK
<1>1. IInv => TypeOK
  BY DEF IInv
<1>. QED
  BY InductiveInvariant, <1>1, PTL

(* The offer that _missing_route trusts was made with every customer field *)
(* known, and fields are never lost between the offer and the invoice.     *)
THEOREM InvoicesComplete == Spec => []InvoiceIsComplete
<1>1. IInv => InvoiceIsComplete
  BY DEF IInv, OrderInv, RowInv, InvoiceIsComplete
<1>. QED
  BY InductiveInvariant, <1>1, PTL

(* The row of an order belongs to one turn, and that turn asks for its     *)
(* reservation once.                                                       *)
THEOREM OrdersReservedOnce == Spec => []ReservedOnce
<1>1. IInv => ReservedOnce
  BY DEF IInv, OrderInv, HoldInv, ReservedOnce
<1>. QED
  BY InductiveInvariant, <1>1, PTL

(* What resolve_invoice_outcome answers of stock and of the payment link   *)
(* is so when it is said and no later turn undoes it, except what it says  *)
(* for a submit_invoice whose result was lost or a cancellation that did   *)
(* not succeed.                                                            *)
THEOREM AnswersBacked == Spec => []AnswerIsBacked
<1>1. ASSUME IInv PROVE AnswerIsBacked
  <2>1. ASSUME NEW id \in Turns, holds[id] > 0 \/ link[id] # "none" PROVE id \in Ordered
    <3>1. holds[id] # 0 \/ link[id] # "none"
      BY <1>1, <2>1 DEF IInv, TypeOK
    <3>. QED
      BY <1>1, <3>1 DEF IInv, OrderInv, HoldInv
  <2>2. ASSUME NEW t \in Turns, answer[t] # NoValue
        PROVE  LET a == answer[t]
               IN  /\ a.status = "INVOICED" => a.id \in Ordered /\ holds[a.id] = 1
                   /\ a.reply = "invoiced" => link[a.id] = "live"
                   /\ a.reply \in {"voided", "unreserved"} =>
                        holds[a.id] = 0 \/ <<"reserve", a.id>> \in lost
                   /\ a.reply = "voided" =>
                        link[a.id] # "live" \/ <<"cancel", a.id>> \in lost
    BY <1>1, <2>2 DEF IInv, OrderInv, AnswerInv, SaysOfOrder, OutcomeReplies, IsSo
  <2>. QED
    BY <2>1, <2>2 DEF AnswerIsBacked
<1>. QED
  BY InductiveInvariant, <1>1, PTL
-----------------------------------------------------------------------------
(***************************************************************************)
(* Turns that do not overlap.  Redis then holds what the turn works on, or *)
(* is behind it by a write that was lost and that the next load_session    *)
(* finds.  The cart of an open offer, or of a confirmed one, is the        *)
(* summary that awaits an answer, up to what a message named since then.   *)
(***************************************************************************)
Working(t) == pc[t] \notin {"idle", "load_session", "load_draft", "done"}

Active(t) == pc[t] \notin {"idle", "done"}

(* The products that were named since the summary that awaits an answer.   *)
NamedSince ==
  UNION {DOMAIN msg[u].lines : u \in {v \in Turns : offered.by < v /\ pc[v] # "idle"}}

Good(cart, summary, named) ==
  /\ summary # NoValue /\ Pending(cart) = {}
  /\ \A n \in DOMAIN cart :
       \/ n \in named
       \/ n \in DOMAIN summary.cart /\ SameLine(cart[n], summary.cart[n])

InOrder == \A t, u \in Turns : t < u /\ pc[u] # "idle" => pc[t] = "done"

CopyInv ==
  /\ \A t \in Turns : Working(t) => saved = st[t] /\ draft = DraftOf(st[t])
  /\ \A t \in Turns : pc[t] = "load_draft" => st[t] = Opened

(* A summary that awaits an answer was made by a turn that is over.        *)
MadeInv ==
  offered # NoValue =>
    /\ pc[offered.by] = "done"
    /\ answer[offered.by].reply = "offer" \/ answer[offered.by].status = "FAILED"
    /\ \A n \in DOMAIN offered.cart : Settled(n, offered.cart[n])

SavedOfferInv ==
  saved # NoValue /\ saved.awaiting =>
    /\ Good(saved.lines, offered, NamedSince)
    /\ draft # NoValue => Good(draft.lines, offered, NamedSince)

TurnOfferInv ==
  \A t \in Turns : st[t].awaiting \/ st[t].proceed => Good(st[t].lines, offered, NamedSince)

AnsweredInv ==
  \A id \in Ordered : /\ Pending(orders[id].lines) = {}
                      /\ Answers(orders[id])
                      /\ pc[orders[id].seen.by] = "done"

SequentialInv ==
  InOrder /\ CopyInv /\ MadeInv /\ SavedOfferInv /\ TurnOfferInv /\ AnsweredInv

LEMMA GoodMore ==
  ASSUME NEW cart, NEW summary, NEW named, NEW more, named \subseteq more,
         Good(cart, summary, named)
  PROVE  Good(cart, summary, more)
BY DEF Good

LEMMA GoodEmpty == \A summary, named : summary # NoValue => Good(EmptyCart, summary, named)
BY DEF Good, Pending, EmptyCart

LEMMA GoodFollows ==
  ASSUME NEW old, NEW new, NEW m, NEW summary, NEW named,
         Good(old, summary, named), Follows(old, new, m), DOMAIN m.lines \subseteq named,
         \A n \in DOMAIN summary.cart : Settled(n, summary.cart[n])
  PROVE  Good(new, summary, named)
<1>1. ASSUME NEW n \in DOMAIN new, n \notin named
      PROVE  n \in DOMAIN summary.cart /\ SameLine(new[n], summary.cart[n])
  <2>1. n \in DOMAIN old /\ (Settled(n, old[n]) => SameLine(new[n], old[n]))
    BY <1>1 DEF Follows
  <2>2. n \in DOMAIN summary.cart /\ SameLine(old[n], summary.cart[n])
    BY <1>1, <2>1 DEF Good
  <2>3. Settled(n, old[n])
    BY <2>2 DEF Settled, SameLine
  <2>. QED
    BY <2>1, <2>2, <2>3 DEF SameLine
<1>. QED
  BY <1>1 DEF Good, Follows

(* The turn that is under way, and the ones around it.                     *)
LEMMA ActiveTurn ==
  ASSUME TypeOK, SessionInv, SequentialInv, NEW t \in Turns, Active(t)
  PROVE  /\ \A u \in Turns \ {t} : pc[u] \in {"idle", "done"} /\ st[u] = NewSession
         /\ \A u \in Turns : t < u => pc[u] = "idle"
         /\ offered # NoValue => offered.by \in Turns /\ offered.by < t
         /\ offered # NoValue => DOMAIN msg[t].lines \subseteq NamedSince
<1>1. \A u \in Turns \ {t} : (u < t \/ t < u) /\ u \in Int /\ t \in Int
  BY TurnAssumption DEF Turns
<1>2. \A u \in Turns : t < u => pc[u] = "idle"
  BY DEF SequentialInv, InOrder, Active
<1>3. \A u \in Turns \ {t} : pc[u] \in {"idle", "done"}
  BY <1>1, <1>2 DEF SequentialInv, InOrder, Active
<1>4. \A u \in Turns \ {t} : st[u] = NewSession
  BY <1>3 DEF SessionInv
<1>5. ASSUME offered # NoValue PROVE offered.by \in Turns /\ offered.by < t
  <2>1. offered.by \in Turns /\ pc[offered.by] = "done"
    BY <1>5 DEF TypeOK, Summary, SequentialInv, MadeInv
  <2>. QED
    BY <1>1, <1>2, <2>1 DEF Active
<1>6. offered # NoValue => DOMAIN msg[t].lines \subseteq NamedSince
  BY <1>5 DEF NamedSince, Active
<1>. QED
  BY <1>2, <1>3, <1>4, <1>5, <1>6

(* What any step of the turn under way leaves as it was.                   *)
Moves(t) ==
  /\ Active(t) /\ UNCHANGED msg /\ pc'[t] # "idle"
  /\ \A u \in Turns \ {t} : pc'[u] = pc[u] /\ st'[u] = st[u] /\ answer'[u] = answer[u]

LEMMA MovesInOrder ==
  ASSUME TypeOK, SessionInv, SequentialInv, NEW t \in Turns, Moves(t)
  PROVE  InOrder'
<1>1. \A u \in Turns : t < u => pc'[u] = "idle"
  BY ActiveTurn, TurnAssumption DEF Moves, Turns
<1>2. \A u \in Turns : t < u \/ u < t \/ u = t
  BY TurnAssumption DEF Turns
<1>. QED
  BY <1>1, <1>2, ActiveTurn, TurnAssumption DEF Moves, SequentialInv, InOrder, Active, Turns

LEMMA MovesNamed ==
  ASSUME NEW t \in Turns, Moves(t), UNCHANGED offered
  PROVE  NamedSince \subseteq NamedSince'
BY DEF Moves, NamedSince, Active

LEMMA MovesMade ==
  ASSUME TypeOK, SessionInv, SequentialInv, NEW t \in Turns, Moves(t), UNCHANGED offered
  PROVE  MadeInv'
BY ActiveTurn, TurnAssumption DEF Moves, SequentialInv, MadeInv, Active, Turns

(* An order that was answered stays so.                                    *)
LEMMA AnswersStay ==
  ASSUME TypeOK, OrderInv, SequentialInv, NEW id \in Ordered, orders'[id] = orders[id],
         \A u \in Turns : pc[u] = "done" => pc'[u] = "done" /\ answer'[u] = answer[u],
         \A u \in Turns : pc[u] # "idle" => msg'[u] = msg[u]
  PROVE  /\ Pending(orders'[id].lines) = {}
         /\ Answers(orders[id])'
         /\ pc'[orders'[id].seen.by] = "done"
<1> DEFINE o == orders[id]
<1>1. /\ o \in OrderRow /\ o.by \in Turns
      /\ o.seen # NoValue => o.seen \in Summary /\ o.seen.by \in Turns
  BY DEF TypeOK, OrderRow, Ordered, Summary
<1>2. Pending(o.lines) = {} /\ Answers(o) /\ pc[o.seen.by] = "done"
  BY DEF SequentialInv, AnsweredInv
<1>3. o.seen # NoValue /\ o.seen.by \in Turns /\ o.seen.by < o.by
  BY <1>1, <1>2 DEF Answers
<1>4. pc[o.by] # "idle"
  BY DEF OrderInv, RowInv, AtOrder
<1>5. ASSUME NEW u \in (o.seen.by + 1)..o.by PROVE msg'[u] = msg[u]
  <2>1. u \in Turns /\ (u = o.by \/ u < o.by)
    BY <1>1, <1>3, <1>5, TurnAssumption DEF Turns
  <2>. QED
    BY <1>1, <1>4, <2>1 DEF SequentialInv, InOrder
<1>6. answer'[o.seen.by] = answer[o.seen.by] /\ pc'[o.seen.by] = "done"
  BY <1>2, <1>3
<1>7. Answers(o)'
  BY <1>2, <1>5, <1>6 DEF Answers
<1>. QED
  BY <1>2, <1>6, <1>7

LEMMA MovesAnswered ==
  ASSUME TypeOK, SessionInv, OrderInv, SequentialInv, NEW t \in Turns, Moves(t), UNCHANGED orders
  PROVE  AnsweredInv'
<1>1. \A u \in Turns : pc[u] = "done" => pc'[u] = "done" /\ answer'[u] = answer[u]
  BY DEF Moves, Active
<1>2. Ordered' = Ordered /\ msg' = msg
  BY DEF Ordered, Moves
<1>. QED
  BY <1>1, <1>2, AnswersStay DEF AnsweredInv

LEMMA VisitsMoves ==
  ASSUME TypeOK, NEW t \in Turns, NEW s, NEW next, Visits(t, s, next)
  PROVE  Moves(t)
BY FinishStep DEF Visits, Moves, Active

(* The session a node writes back.                                         *)
LEMMA KeptGood ==
  ASSUME TypeOK, SessionInv, SequentialInv, NEW t \in Turns, NEW s, NEW next,
         Visits(t, s, next), Keeps(t, s, next)
  PROVE  /\ s.awaiting => /\ Good(s.lines, offered, NamedSince)
                          /\ draft # NoValue => Good(draft.lines, offered, NamedSince)
         /\ s.proceed /\ next # "done" => Good(s.lines, offered, NamedSince)
         /\ saved # NoValue => saved.known \subseteq s.known
<1>1. CASE pc[t] = "load_draft"
  <2>1. s = Loaded(Opened) /\ st[t] = Opened
    BY <1>1 DEF Keeps, SequentialInv, CopyInv
  <2>2. Opened \in Session /\ ~Opened.proceed
    BY OpenedSession
  <2>3. /\ s.awaiting = Opened.awaiting /\ ~s.proceed /\ Opened.known \subseteq s.known
        /\ \/ s.lines = Opened.lines
           \/ draft # NoValue /\ s.lines = draft.lines
           \/ s.lines = EmptyCart
    BY <2>1, <2>2, LoadedSession
  <2>4. ASSUME s.awaiting
        PROVE  /\ Good(Opened.lines, offered, NamedSince)
               /\ draft # NoValue => Good(draft.lines, offered, NamedSince)
    BY <2>3, <2>4, OpenedSession DEF SequentialInv, SavedOfferInv
  <2>5. s.awaiting => Good(s.lines, offered, NamedSince)
    BY <2>3, <2>4, GoodEmpty DEF Good
  <2>. QED
    BY <2>3, <2>4, <2>5, OpenedSession
<1>2. CASE pc[t] # "load_draft"
  <2>1. Working(t) /\ Active(t)
    BY <1>2 DEF Visits, Working, Active
  <2>2. saved = st[t] /\ draft = DraftOf(st[t])
    BY <2>1 DEF SequentialInv, CopyInv
  <2>3. draft.lines = st[t].lines
    BY <2>2 DEF DraftOf
  <2>4. /\ st[t].known \subseteq s.known
        /\ s.awaiting => st[t].awaiting
        /\ s.proceed => st[t].awaiting \/ st[t].proceed
        /\ s.awaiting \/ (s.proceed /\ next # "done") => Follows(st[t].lines, s.lines, msg[t])
    BY <1>2 DEF Keeps
  <2>5. st[t].awaiting \/ st[t].proceed => Good(st[t].lines, offered, NamedSince)
    BY DEF SequentialInv, TurnOfferInv
  <2>6. ASSUME s.awaiting \/ (s.proceed /\ next # "done")
        PROVE  Good(s.lines, offered, NamedSince)
    <3>1. Good(st[t].lines, offered, NamedSince) /\ Follows(st[t].lines, s.lines, msg[t])
      BY <2>4, <2>5, <2>6
    <3>2. offered # NoValue
      BY <3>1 DEF Good
    <3>3. \A n \in DOMAIN offered.cart : Settled(n, offered.cart[n])
      BY <3>2 DEF SequentialInv, MadeInv
    <3>. QED
      BY <2>1, <3>1, <3>2, <3>3, ActiveTurn, GoodFollows
  <2>. QED
    BY <2>2, <2>3, <2>4, <2>5, <2>6
<1>. QED
  BY <1>1, <1>2

(* What Redis and the turns hold after a node that writes s back.          *)
LEMMA VisitsCopy ==
  ASSUME TypeOK, SessionInv, SequentialInv, NEW t \in Turns, NEW s, NEW next, Visits(t, s, next)
  PROVE  /\ CopyInv'
         /\ saved' \in {saved, s} /\ draft' \in {draft, DraftOf(s)}
         /\ draft' = draft \/ (saved' = s /\ draft' = DraftOf(s))
         /\ st'[t] = NewSession \/ (next # "done" /\ st'[t] = s)
         /\ \A u \in Turns \ {t} : st'[u] = NewSession
<1>1. /\ Active(t) /\ s \in Session /\ next \in Nodes \ {"idle", "load_session", "load_draft"}
      /\ Finish(t, s, next)
  BY DEF Visits, Active
<1>2. \A u \in Turns \ {t} : pc'[u] \in {"idle", "done"} /\ st'[u] = NewSession
  <2>1. \A u \in Turns \ {t} : pc'[u] = pc[u] /\ st'[u] = st[u]
    BY <1>1, FinishStep
  <2>2. \A u \in Turns \ {t} : pc[u] \in {"idle", "done"} /\ st[u] = NewSession
    BY <1>1, ActiveTurn
  <2>. QED
    BY <2>1, <2>2
<1>3. /\ saved' \in {saved, s} /\ draft' \in {draft, DraftOf(s)}
      /\ draft' = draft \/ (saved' = s /\ draft' = DraftOf(s))
      /\ \/ pc'[t] = next /\ st'[t] = s /\ next # "done" /\ saved' = s /\ draft' = DraftOf(s)
         \/ pc'[t] = "done" /\ st'[t] = NewSession
  BY <1>1, FinishStep
<1>4. CopyInv'
  BY <1>1, <1>2, <1>3 DEF CopyInv, Working
<1>. QED
  BY <1>2, <1>3, <1>4

LEMMA KeptSequential ==
  ASSUME TypeOK, SessionInv, OrderInv, SequentialInv, NEW t \in Turns, NEW s, NEW next,
         Visits(t, s, next), Keeps(t, s, next), UNCHANGED <<offered, orders>>
  PROVE  /\ SequentialInv'
         /\ saved # NoValue => saved' # NoValue /\ saved.known \subseteq saved'.known
<1>1. Moves(t) /\ s # NoValue
  BY VisitsMoves, NoneAssumption DEF Visits
<1>2. NamedSince \subseteq NamedSince' /\ offered' = offered
  BY <1>1, MovesNamed
<1>3. DraftOf(s).lines = s.lines
  BY DEF DraftOf
<1>4. SavedOfferInv'
  <2>1. ASSUME saved'.awaiting, saved' # NoValue
        PROVE  /\ Good(saved'.lines, offered, NamedSince)
               /\ draft' # NoValue => Good(draft'.lines, offered, NamedSince)
    <3>1. CASE saved' = s
      BY <1>3, <2>1, <3>1, KeptGood, VisitsCopy
    <3>2. CASE saved' = saved /\ draft' = draft
      BY <2>1, <3>2 DEF SequentialInv, SavedOfferInv
    <3>. QED
      BY <3>1, <3>2, VisitsCopy
  <2>. QED
    BY <1>2, <2>1, GoodMore DEF SavedOfferInv
<1>5. TurnOfferInv'
  <2>1. ~NewSession.awaiting /\ ~NewSession.proceed
    BY DEF NewSession
  <2>2. st'[t].awaiting \/ st'[t].proceed => Good(st'[t].lines, offered, NamedSince)
    BY <2>1, KeptGood, VisitsCopy
  <2>3. \A u \in Turns \ {t} : ~st'[u].awaiting /\ ~st'[u].proceed
    BY <2>1, VisitsCopy
  <2>. QED
    BY <1>2, <2>2, <2>3, GoodMore DEF TurnOfferInv
<1>6. SequentialInv'
  BY <1>1, <1>4, <1>5, MovesInOrder, MovesMade, MovesAnswered, VisitsCopy DEF SequentialInv
<1>7. saved # NoValue => saved' # NoValue /\ saved.known \subseteq saved'.known
  BY <1>1, KeptGood, VisitsCopy
<1>. QED
  BY <1>6, <1>7

(* The summary, which awaits an answer once the session is saved.          *)
LEMMA OffersSequential ==
  ASSUME TypeOK, SessionInv, OrderInv, SequentialInv, NEW t \in Turns, NEW s, Offers(t, s)
  PROVE  /\ SequentialInv'
         /\ saved # NoValue => saved' # NoValue /\ saved.known \subseteq saved'.known
<1> DEFINE shown == [cart |-> st[t].lines, by |-> t]
<1>1. /\ Visits(t, s, "done") /\ pc[t] = "offer_invoice_confirmation" /\ UNCHANGED orders
      /\ s.lines = st[t].lines /\ s.known = st[t].known /\ s.reply = "offer"
      /\ offered' = IF saved' = s THEN shown ELSE offered
      /\ s \in Session /\ Finish(t, s, "done") /\ "done" \in Nodes
  BY DEF Offers, Passes, Visits, moneyVars, Nodes
<1>2. Moves(t) /\ Working(t) /\ s # NoValue
  BY <1>1, VisitsMoves, NoneAssumption DEF Working
<1>3. /\ saved = st[t] /\ draft = DraftOf(st[t]) /\ draft.lines = s.lines
      /\ ~st[t].awaiting /\ DraftOf(s).lines = s.lines
  <2>1. saved = st[t] /\ draft = DraftOf(st[t])
    BY <1>2 DEF SequentialInv, CopyInv
  <2>. QED
    BY <1>1, <2>1, StandsBefore DEF DraftOf, Fits, ClosedNodes, Nodes
<1>4. /\ pc'[t] = "done"
      /\ answer'[t].reply = "offer" \/ answer'[t].status = "FAILED"
  BY <1>1, FinishTurn
<1>5. \A u \in Turns : ~st'[u].awaiting /\ ~st'[u].proceed
  <2>1. ~NewSession.awaiting /\ ~NewSession.proceed
    BY DEF NewSession
  <2>. QED
    BY <1>1, <2>1, VisitsCopy
<1>6. CASE saved' = s
  <2>1. /\ shown.cart = s.lines /\ shown.by = t /\ shown # NoValue /\ offered' = shown
    BY <1>1, <1>6, StandsBefore, NoneAssumption DEF Summary
  <2>2. \A n \in DOMAIN s.lines : Settled(n, s.lines[n])
    <3>1. /\ Orderable(s.lines) = DOMAIN s.lines /\ Sound(s.lines) /\ s.lines \in Carts
      BY <1>1, StandsBefore DEF Fits
    <3>2. ASSUME NEW n \in DOMAIN s.lines PROVE Settled(n, s.lines[n])
      <4>1. s.lines[n].resolved /\ s.lines[n].qty # 0 /\ s.lines[n] \in Line
        BY <3>1, CartElim DEF Orderable
      <4>2. s.lines[n].item = <<n, s.lines[n].brand>> /\ s.lines[n].item # NoValue
        BY <3>1, <4>1 DEF Sound, LineSound
      <4>3. s.lines[n].brand # NoValue
        BY <4>1, <4>2, CartAssumption DEF Line, Items
      <4>. QED
        BY <4>1, <4>2, <4>3 DEF Settled
    <3>. QED
      BY <3>2
  <2>3. Pending(s.lines) = {}
    BY <1>1, StandsBefore DEF Fits, Orderable, Pending
  <2>4. \A named : Good(s.lines, shown, named)
    BY <2>1, <2>3 DEF Good, SameLine
  <2> HIDE DEF shown
  <2>5. MadeInv'
    BY <1>4, <2>1, <2>2 DEF MadeInv
  <2>6. SavedOfferInv'
    BY <1>1, <1>3, <1>6, <2>1, <2>4, VisitsCopy DEF SavedOfferInv
  <2>. QED
    BY <1>1, <1>2, <1>3, <1>5, <1>6, <2>5, <2>6, MovesInOrder, MovesAnswered, VisitsCopy
    DEF SequentialInv, TurnOfferInv
<1>7. CASE saved' # s
  <2>1. saved' = saved /\ offered' = offered
    BY <1>1, <1>7, VisitsCopy
  <2>2. SavedOfferInv'
    BY <1>3, <2>1 DEF SavedOfferInv
  <2>. QED
    BY <1>1, <1>2, <1>5, <2>1, <2>2, MovesInOrder, MovesMade, MovesAnswered, VisitsCopy
    DEF SequentialInv, TurnOfferInv
<1>. QED
  BY <1>6, <1>7

(* The order answers the summary, and no other order does.                 *)
LEMMA GeneratesSequential ==
  ASSUME TypeOK, SessionInv, OrderInv, SequentialInv, NEW t \in Turns, NEW s, Generates(t, s)
  PROVE  /\ SequentialInv'
         /\ saved # NoValue => saved' # NoValue /\ saved.known \subseteq saved'.known
<1> DEFINE id == s.invoice
           row == RowOf(t)
<1>1. /\ Visits(t, s, "dispatch_invoice_processing") /\ pc[t] = "generate_invoice"
      /\ s \in Session /\ s.known = st[t].known /\ ~s.awaiting /\ ~s.proceed
      /\ offered' = NoValue /\ id \in Turns /\ orders[id] = NoValue
      /\ orders' = [orders EXCEPT ![id] = row]
  BY DEF Generates, Visits
<1>2. Moves(t) /\ Working(t) /\ Active(t) /\ s # NoValue
  BY <1>1, VisitsMoves, NoneAssumption DEF Working, Active
<1>3. saved = st[t] /\ ~st[t].awaiting /\ st[t].proceed
  BY <1>1, <1>2, StandsBefore DEF SequentialInv, CopyInv, Fits, ClosedNodes, Nodes
<1>4. Good(st[t].lines, offered, NamedSince)
  BY <1>3 DEF SequentialInv, TurnOfferInv
<1>5. /\ offered # NoValue /\ offered.by \in Turns /\ offered.by < t
      /\ pc[offered.by] = "done"
      /\ answer[offered.by].reply = "offer" \/ answer[offered.by].status = "FAILED"
  BY <1>2, <1>4, ActiveTurn DEF Good, SequentialInv, MadeInv
<1>6. /\ row \in OrderRow /\ row # NoValue
      /\ row.lines = st[t].lines /\ row.by = t /\ row.seen = offered
  BY GenerateStep, NoneAssumption DEF RowOf
<1> HIDE DEF row, id
<1>7. Answers(row) /\ Pending(row.lines) = {} /\ pc[row.seen.by] = "done"
  <2>1. NamedSince \subseteq UNION {DOMAIN msg[u].lines : u \in (offered.by + 1)..t}
    <3>1. ASSUME NEW u \in Turns, offered.by < u, pc[u] # "idle" PROVE u \in (offered.by + 1)..t
      BY <1>2, <1>5, <3>1, ActiveTurn, TurnAssumption DEF Turns
    <3>. QED
      BY <3>1 DEF NamedSince
  <2>2. \A n \in DOMAIN row.lines :
          \/ \E u \in (offered.by + 1)..t : n \in DOMAIN msg[u].lines
          \/ n \in DOMAIN offered.cart /\ SameLine(row.lines[n], offered.cart[n])
    BY <1>4, <1>6, <2>1 DEF Good
  <2>. QED
    BY <1>4, <1>5, <1>6, <2>2 DEF Answers, Good
<1>8. AnsweredInv'
  <2>1. /\ Ordered' = Ordered \union {id} /\ orders'[id] = row
        /\ \A other \in Ordered : other # id /\ orders'[other] = orders[other]
    BY <1>1, <1>6 DEF TypeOK, Ordered
  <2>2. /\ msg' = msg
        /\ \A u \in Turns : pc[u] = "done" => pc'[u] = "done" /\ answer'[u] = answer[u]
    BY <1>2 DEF Moves, Active
  <2>3. Answers(orders[id])' /\ pc'[row.seen.by] = "done"
    <3>1. answer'[row.seen.by] = answer[row.seen.by] /\ pc'[row.seen.by] = "done"
      BY <1>5, <1>6, <2>2
    <3>. QED
      BY <1>7, <2>1, <2>2, <3>1 DEF Answers
  <2>. QED
    BY <1>7, <2>1, <2>2, <2>3, AnswersStay DEF AnsweredInv
<1>9. SavedOfferInv' /\ TurnOfferInv' /\ MadeInv'
  <2>1. ~NewSession.awaiting /\ ~NewSession.proceed
    BY DEF NewSession
  <2>2. \A u \in Turns : ~st'[u].awaiting /\ ~st'[u].proceed
    BY <1>1, <2>1, VisitsCopy
  <2>3. ~saved'.awaiting
    BY <1>1, <1>3, VisitsCopy
  <2>. QED
    BY <1>1, <2>2, <2>3 DEF SavedOfferInv, TurnOfferInv, MadeInv
<1>. QED
  BY <1>1, <1>2, <1>3, <1>8, <1>9, MovesInOrder, VisitsCopy DEF SequentialInv

(* load_session reads the state.                                           *)
LEMMA OpensSequential ==
  ASSUME TypeOK, SessionInv, OrderInv, SequentialInv, NEW t \in Turns, Opens(t)
  PROVE  SequentialInv' /\ UNCHANGED saved
<1>1. /\ Moves(t) /\ Active(t) /\ pc[t] = "load_session" /\ pc'[t] = "load_draft"
      /\ st'[t] = Opened
      /\ UNCHANGED <<saved, draft, orders, offered>>
      /\ \A u \in Turns \ {t} : pc'[u] \in {"idle", "done"} /\ st'[u] = NewSession
  <2>1. Active(t)
    BY DEF Opens, Active
  <2>. QED
    BY <2>1, OpensKeeps, ActiveTurn DEF Opens, Moves, redisVars, moneyVars
<1>2. NamedSince \subseteq NamedSince'
  BY <1>1, MovesNamed
<1>3. Opened' = Opened
  BY <1>1 DEF Opened
<1>4. CopyInv'
  BY <1>1, <1>3 DEF CopyInv, Working
<1>5. SavedOfferInv'
  BY <1>1, <1>2, GoodMore DEF SequentialInv, SavedOfferInv
<1>6. TurnOfferInv'
  <2>1. ~NewSession.awaiting /\ ~NewSession.proceed
    BY DEF NewSession
  <2>2. Opened.awaiting \/ Opened.proceed => Good(Opened.lines, offered, NamedSince)
    BY OpenedSession DEF SequentialInv, SavedOfferInv
  <2>. QED
    BY <1>1, <1>2, <2>1, <2>2, GoodMore DEF TurnOfferInv
<1>. QED
  BY <1>1, <1>4, <1>5, <1>6, MovesInOrder, MovesMade, MovesAnswered DEF SequentialInv

(* A step of a turn that leaves Redis alone.                               *)
LEMMA QuietSequential ==
  ASSUME TypeOK, SessionInv, OrderInv, SequentialInv, NEW t \in Turns, Moves(t), Working(t),
         UNCHANGED <<saved, draft, orders, offered>>,
         \/ pc'[t] = pc[t] /\ st'[t] = st[t]
         \/ pc'[t] = "done" /\ st'[t] = NewSession
  PROVE  SequentialInv'
<1>1. /\ \A u \in Turns \ {t} : pc'[u] \in {"idle", "done"} /\ st'[u] = NewSession
      /\ ~NewSession.awaiting /\ ~NewSession.proceed
  BY ActiveTurn DEF Moves, NewSession
<1>2. NamedSince \subseteq NamedSince'
  BY MovesNamed
<1>3. CopyInv'
  BY <1>1 DEF SequentialInv, CopyInv, Working
<1>4. SavedOfferInv'
  BY <1>2, GoodMore DEF SequentialInv, SavedOfferInv
<1>5. TurnOfferInv'
  BY <1>1, <1>2, GoodMore DEF SequentialInv, TurnOfferInv
<1>. QED
  BY <1>3, <1>4, <1>5, MovesInOrder, MovesMade, MovesAnswered DEF SequentialInv

(* The inductive invariant of turns that do not overlap.                   *)
SeqInv == IInv /\ SequentialInv

LEMMA InitSeqInv == Init => SeqInv
<1> SUFFICES ASSUME Init PROVE SeqInv
  OBVIOUS
<1>1. IInv
  BY InitIInv
<1>2. SequentialInv
  BY DEF Init, SequentialInv, InOrder, CopyInv, MadeInv, SavedOfferInv, TurnOfferInv,
         AnsweredInv, Working, NewSession, Ordered
<1>. QED
  BY <1>1, <1>2 DEF SeqInv

(* What a step of a turn does to Redis.                                    *)
LEMMA TurnSequential ==
  ASSUME SeqInv, NEW t \in Turns, TurnCase(t)
  PROVE  /\ SequentialInv'
         /\ saved # NoValue => saved' # NoValue /\ saved.known \subseteq saved'.known
<1>0. TypeOK /\ SessionInv /\ OrderInv /\ SequentialInv
  BY DEF SeqInv, IInv
<1>1. CASE Opens(t)
  BY <1>0, <1>1, OpensSequential
<1>2. CASE \E s, next : Wanders(t, s, next)
  BY <1>0, <1>2, KeptSequential DEF Wanders, Passes, moneyVars
<1>3. CASE \E s : Offers(t, s)
  BY <1>0, <1>3, OffersSequential
<1>4. CASE Quits(t)
  <2>1. /\ Moves(t) /\ Working(t) /\ UNCHANGED <<saved, draft, orders, offered>>
        /\ pc'[t] = "done" /\ st'[t] = NewSession
    BY <1>0, <1>4, QuitStep DEF Quits, Moves, Active, Working, redisVars, moneyVars
  <2>. QED
    BY <1>0, <2>1, QuietSequential
<1>5. CASE \E s : Generates(t, s)
  BY <1>0, <1>5, GeneratesSequential
<1>6. CASE \E c : Settles(t, c)
  <2>1. /\ Moves(t) /\ Working(t)
        /\ UNCHANGED <<saved, draft, orders, offered, pc, st>>
    BY <1>6 DEF Settles, AtOrder, Moves, Active, Working, redisVars, turnVars
  <2>. QED
    BY <1>0, <2>1, QuietSequential
<1>7. CASE Dispatches(t)
  <2>1. Keeps(t, st[t], "resolve_invoice_outcome")
    BY <1>7, FollowsSame DEF Dispatches, Keeps
  <2>. QED
    BY <1>0, <1>7, <2>1, KeptSequential DEF Dispatches, moneyVars
<1>8. CASE \E s : Resolves(t, s)
  <2>1. PICK s : Resolves(t, s)
    BY <1>8
  <2>2. Keeps(t, s, "done")
    BY <2>1 DEF Resolves, Keeps
  <2>. QED
    BY <1>0, <2>1, <2>2, KeptSequential DEF Resolves, moneyVars
<1>. QED
  BY <1>1, <1>2, <1>3, <1>4, <1>5, <1>6, <1>7, <1>8 DEF TurnCase

LEMMA BeginSequential ==
  ASSUME ~Overlap, SeqInv, NEW t \in Turns, NEW m \in Messages, Begin(t, m)
  PROVE  SequentialInv' /\ UNCHANGED saved
<1>0. TypeOK /\ SessionInv /\ OrderInv /\ SequentialInv
  BY DEF SeqInv, IInv
<1>1. /\ UNCHANGED <<saved, draft, st, orders, offered, answer>>
      /\ \A u \in Turns : pc[u] \in {"idle", "done"}
      /\ pc[t] = "idle" /\ \A u \in 1..(t - 1) : pc[u] # "idle"
      /\ pc'[t] = "load_session" /\ \A u \in Turns \ {t} : pc'[u] = pc[u] /\ msg'[u] = msg[u]
  BY <1>0 DEF TypeOK, Begin, redisVars, moneyVars
<1>2. InOrder'
  <2>1. \A u \in Turns : (u < t => pc[u] = "done") /\ (t < u => pc[u] = "idle")
    <3>1. ASSUME NEW u \in Turns, u < t PROVE pc[u] = "done"
      <4>1. u \in 1..(t - 1)
        BY <3>1, TurnAssumption DEF Turns
      <4>. QED
        BY <1>1, <4>1
    <3>2. ASSUME NEW u \in Turns, t < u PROVE pc[u] = "idle"
      BY <1>0, <1>1, <3>2 DEF SequentialInv, InOrder
    <3>. QED
      BY <3>1, <3>2
  <2>. QED
    BY <1>0, <1>1, <2>1, TurnAssumption DEF SequentialInv, InOrder, Turns
<1>3. NamedSince \subseteq NamedSince'
  BY <1>1 DEF NamedSince
<1>4. CopyInv' /\ MadeInv'
  BY <1>0, <1>1 DEF SequentialInv, CopyInv, MadeInv, Working, TypeOK, Summary
<1>5. SavedOfferInv'
  BY <1>0, <1>1, <1>3, GoodMore DEF SequentialInv, SavedOfferInv
<1>6. TurnOfferInv'
  BY <1>0, <1>1, <1>3, GoodMore DEF SequentialInv, TurnOfferInv
<1>7. AnsweredInv'
  <2>1. /\ Ordered' = Ordered
        /\ \A u \in Turns : pc[u] = "done" => pc'[u] = "done" /\ answer'[u] = answer[u]
        /\ \A u \in Turns : pc[u] # "idle" => msg'[u] = msg[u]
    BY <1>1 DEF Ordered
  <2>. QED
    BY <1>0, <1>1, <2>1, AnswersStay DEF AnsweredInv
<1>. QED
  BY <1>1, <1>2, <1>4, <1>5, <1>6, <1>7 DEF SequentialInv

LEMMA OutsideSequential ==
  ASSUME SeqInv, Outside
  PROVE  SequentialInv' /\ (saved' = saved \/ saved' = NoValue)
<1>0. TypeOK /\ SessionInv /\ OrderInv /\ SequentialInv
  BY DEF SeqInv, IInv
<1>1. /\ UNCHANGED <<pc, st, answer, msg, orders>>
      /\ \/ UNCHANGED <<saved, draft, offered>>
         \/ /\ saved' = NoValue /\ offered' = NoValue
            /\ \A t \in Turns : pc[t] \in {"idle", "done"}
  BY DEF Outside, Delist, StockChanges, SessionExpires, redisVars, turnVars, moneyVars
<1>2. InOrder' /\ AnsweredInv'
  BY <1>0, <1>1 DEF SequentialInv, InOrder, AnsweredInv, Ordered, Answers
<1>3. CASE UNCHANGED <<saved, draft, offered>>
  <2>1. Opened' = Opened /\ NamedSince' = NamedSince
    BY <1>1, <1>3 DEF Opened, NamedSince
  <2>. QED
    BY <1>0, <1>1, <1>2, <1>3, <2>1
    DEF SequentialInv, CopyInv, MadeInv, SavedOfferInv, TurnOfferInv, Working
<1>4. CASE /\ saved' = NoValue /\ offered' = NoValue
           /\ \A t \in Turns : pc[t] \in {"idle", "done"}
  <2>1. \A t \in Turns : ~st'[t].awaiting /\ ~st'[t].proceed
    <3>1. ~NewSession.awaiting /\ ~NewSession.proceed
      BY DEF NewSession
    <3>. QED
      BY <1>0, <1>1, <1>4, <3>1 DEF SessionInv
  <2>. QED
    BY <1>1, <1>2, <1>4, <2>1
    DEF SequentialInv, CopyInv, MadeInv, SavedOfferInv, TurnOfferInv, Working
<1>. QED
  BY <1>1, <1>3, <1>4

LEMMA NextSequential ==
  ASSUME ~Overlap, SeqInv, [Next]_vars
  PROVE  /\ SequentialInv'
         /\ saved # NoValue /\ saved' # NoValue => saved.known \subseteq saved'.known
<1>1. ASSUME NEW t \in Turns, TurnStep(t) PROVE TurnCase(t)
  BY <1>1, TurnCases DEF SeqInv, IInv
<1>2. ASSUME UNCHANGED vars PROVE SequentialInv' /\ UNCHANGED saved
  <2>1. UNCHANGED <<saved, draft, pc, st, answer, msg, orders, offered>>
    BY <1>2 DEF vars, redisVars, turnVars, moneyVars
  <2>2. Opened' = Opened /\ NamedSince' = NamedSince
    BY <2>1 DEF Opened, NamedSince
  <2>. QED
    BY <2>1, <2>2 DEF SeqInv, SequentialInv, InOrder, CopyInv, MadeInv, SavedOfferInv,
                      TurnOfferInv, AnsweredInv, Working, Ordered, Answers
<1>. QED
  BY <1>1, <1>2, TurnSequential, BeginSequential, OutsideSequential DEF Next, Outside

LEMMA SequentialInvariant ==
  ASSUME ~Overlap
  PROVE  Spec => []SeqInv
<1>1. SeqInv /\ [Next]_vars => SeqInv'
  BY NextIInv, NextSequential DEF SeqInv
<1>. QED
  BY InitSeqInv, <1>1, PTL DEF Spec

(* generate_invoice is reached only by a turn whose message says to        *)
(* proceed, however turns of the session overlap.  When they do not, each  *)
(* order answers a summary of its own: what a message named since then     *)
(* aside, its lines have the item, the brand and the quantity shown there. *)
THEOREM OrdersConfirmed == Spec => []OrderWasConfirmed
<1>1. CASE Overlap
  <2>1. IInv => OrderWasConfirmed
    BY <1>1 DEF IInv, OrderInv, RowInv, OrderWasConfirmed
  <2>. QED
    BY InductiveInvariant, <2>1, PTL
<1>2. CASE ~Overlap
  <2>1. Spec => []SeqInv
    BY <1>2, SequentialInvariant
  <2>2. SeqInv => OrderWasConfirmed
    BY DEF SeqInv, IInv, OrderInv, RowInv, SequentialInv, AnsweredInv, OrderWasConfirmed
  <2>. QED
    BY <2>1, <2>2, PTL
<1>. QED
  BY <1>1, <1>2

(* When turns do not overlap, no line that waits for a substitute gets     *)
(* into an order, whatever write to Redis is lost.                         *)
THEOREM StockoutsLeftOut == ~Overlap => (Spec => []StockoutNotInvoiced)
<1> SUFFICES ASSUME ~Overlap PROVE Spec => []StockoutNotInvoiced
  OBVIOUS
<1>1. SeqInv => StockoutNotInvoiced
  BY DEF SeqInv, SequentialInv, AnsweredInv, StockoutNotInvoiced
<1>. QED
  BY SequentialInvariant, <1>1, PTL

(* When turns do not overlap, load_session, parse_intent and every later   *)
(* node keep the customer fields that are known.                           *)
THEOREM KnownFieldsKept == ~Overlap => (Spec => FieldsKept)
<1> SUFFICES ASSUME ~Overlap PROVE Spec => FieldsKept
  OBVIOUS
<1>1. SeqInv /\ [Next]_vars =>
        [saved # NoValue /\ saved' # NoValue => saved.known \subseteq saved'.known]_vars
  BY NextSequential
<1>. QED
  BY SequentialInvariant, <1>1, PTL DEF Spec, FieldsKept
=============================================================================
