---------------------------- MODULE BillingProofs ----------------------------
(***************************************************************************)
(* Proofs about Billing, for any number of subscriptions, keys, requests,  *)
(* events and faults and for any clock.  They rest on two facts: who a     *)
(* claimed event belongs to, and what Stripe is known to have said at the  *)
(* instant that a row, a task in hand or a verdict of the cron is stamped  *)
(* with (Sure), which no later event changes.                              *)
(***************************************************************************)
EXTENDS Billing, FiniteSetTheorems, WellFoundedInduction, TLAPS

Entitling == {"active", "past_due"}

(* Stripe's history is in the order of its clock.                            *)
History == \A e \in DOMAIN events :
              /\ events[e].at <= clock
              /\ \A i \in DOMAIN events : i <= e => events[i].at <= events[e].at

(* What Stripe is known to have said as of a stamp that is not ahead of it.  *)
Sure(s, status, stamp) == s \in Subs /\ Had(s, status, stamp) /\ stamp <= EventStamp(clock)

Backed(stamp) == \E s \in Subs, status \in Entitling : Sure(s, status, stamp)

(* What a request in hand may rely on: a subscription's state is sure, and   *)
(* an invoice, which tells none, is one that Stripe has sent.                *)
Told(item) == item.status # "untold"

Sent(item, kind) == \E i \in DOMAIN events : events[i].kind = kind /\ Task(i) = item

Listed(h) == \A i \in DOMAIN h.list :
                /\ h.list[i].observed > 0
                /\ Told(h.list[i]) => Sure(h.list[i].sub, h.list[i].status, h.list[i].observed)
                /\ ~Told(h.list[i]) => Len(h.list) = 1

Warranted(h) == \/ Backed(h.observed)
                \/ h.event # 0 /\ \A k \in h.keys : Invoiced(k, h.observed)

AtItem == {"read", "write", "clear", "find", "stamp", "grant"}

InHand(h) ==
    /\ h \in Request
    /\ h.now <= clock
    /\ h.pc = "fetch" => h.now > 0 /\ h.at = 1
    /\ h.row # None => h.row.since <= clock
    /\ h.event # 0 => h.event \in DOMAIN events
    /\ h.pc \in AtItem => h.at \in DOMAIN h.list
    /\ h.pc \in {"fetch", "list", "retire"} => h.event = 0
    /\ Listed(h)
    /\ h.pc \in {"read", "write"} => Told(Current(h))
    /\ h.pc \in {"clear", "find", "stamp"} => h.event # 0
    /\ h.pc = "clear" => Sent(Current(h), "paid")
    /\ h.pc \in {"find", "stamp"} => Sent(Current(h), "failed")
    /\ h.pc = "stamp" => EverEntitled(Current(h).sub)
    /\ h.pc = "grant" /\ h.active => Warranted(h)
    /\ h.pc = "retire" => h.active = FALSE

Requests == /\ handler \in [Workers -> Request]
            /\ \A w \in Workers : InHand(handler[w])

(* What the rows and the cron may rely on.                                   *)
Mirrored == /\ mirror \in [Subs -> MirrorRow \cup {None}]
            /\ \A s \in Subs : mirror[s] # None =>
                 mirror[s].since <= clock /\ Sure(s, mirror[s].status, mirror[s].observed)

Founded(k, row) ==
    /\ row.synced <= clock
    /\ row.active => IF row.by = "staleness" THEN \E n \in Nat : row.observed = SweepStamp(n) /\ Backed(EventStamp(n))
                     ELSE Backed(row.observed) \/ (row.by = "webhook" /\ Invoiced(k, row.observed))

Gated == /\ gate \in [Keys -> GateRow \cup {None}]
         /\ \A k \in Keys : gate[k] # None => Founded(k, gate[k])

Swept == /\ cron \in Run /\ cron.now <= clock
         /\ cron.pc \in {"stamp", "check"} =>
              \E s \in Subs : cron.sub = {s} /\ Sure(s, "past_due", EventStamp(cron.now))
         /\ cron.pc = "put" /\ cron.verdict => Backed(EventStamp(cron.now))

Clocked == /\ clock \in Nat /\ clock > 0
           /\ events \in Seq(Event) /\ Len(events) <= MaxEvents
           /\ queue \subseteq DOMAIN events /\ processed \subseteq DOMAIN events
           /\ faults \in 0..MaxFaults

IInv == Clocked /\ History /\ Requests /\ Mirrored /\ Gated /\ Swept /\ OneHolder

USE DEF stripe, Statuses, Entitling
-----------------------------------------------------------------------------
(* Stamps *)

LEMMA SpanType == Span \in Nat /\ Span > 0 /\ Span = Cardinality(Subs) + 3
BY BillingAssumption, FS_CardinalityType DEF Span

LEMMA Distribute == ASSUME NEW q \in Nat, NEW a \in Nat PROVE q * (a + 1) = q * a + q /\ q * a \in Nat
OBVIOUS

LEMMA Monotone == ASSUME NEW q \in Nat, NEW a \in Nat, NEW b \in Nat, a <= b PROVE q * a <= q * b
<1>1. PICK d \in Nat : b = a + d
  <2>1. b - a \in Nat /\ b = a + (b - a)
    OBVIOUS
  <2>2. QED
    BY <2>1
<1>2. q * (a + d) = q * a + q * d /\ q * d \in Nat /\ q * a \in Nat
  OBVIOUS
<1>3. QED
  BY <1>1, <1>2

LEMMA EventStamps ==
    /\ \A a \in Nat : EventStamp(a) \in Nat /\ EventStamp(a) > 0
    /\ \A a, b \in Nat : a <= b => EventStamp(a) <= EventStamp(b)
<1> DEFINE q == Span
<1>1. q \in Nat /\ q > 0
  BY SpanType
<1> HIDE DEF q
<1>2. ASSUME NEW a \in Nat PROVE q * (a + 1) \in Nat /\ q * (a + 1) > 0
  BY <1>1, Distribute
<1>3. ASSUME NEW a \in Nat, NEW b \in Nat, a <= b PROVE q * (a + 1) <= q * (b + 1)
  BY <1>1, <1>3, Monotone
<1>4. QED
  BY <1>2, <1>3 DEF EventStamp, q

LEMMA ReadStamps ==
    ASSUME NEW a \in Nat, NEW offset \in Nat
    PROVE  /\ ReadStamp(a, offset) \in Nat
           /\ ReadStamp(a, 0) + offset \in Nat
           /\ a > 0 => ReadStamp(a, 0) + offset > 0
           /\ offset <= Span => ReadStamp(a, 0) + offset <= EventStamp(a)
<1> DEFINE q == Span
<1>1. q \in Nat /\ q > 0
  BY SpanType
<1> HIDE DEF q
<1>2. q * a \in Nat /\ q * (a + 1) = q * a + q
  BY <1>1, Distribute
<1>a. a > 0 => q * a > 0
  BY <1>1
<1>3. QED
  BY <1>1, <1>2, <1>a DEF ReadStamp, EventStamp, q

LEMMA SweptStamps == ASSUME NEW a \in Nat PROVE SweepStamp(a) \in Nat /\ SecondOf(SweepStamp(a)) = a
<1> DEFINE q == Span
<1>1. q \in Nat /\ q > 0
  BY SpanType
<1> HIDE DEF q
<1>2. q * (a + 1) \in Nat
  BY <1>1, Distribute
<1>3. ASSUME NEW d \in Nat PROVE (q * d + (q - 1)) \div q = d
  BY <1>1
<1>4. q * (a + 1) + q - 1 = q * (a + 1) + (q - 1)
  BY <1>1, <1>2
<1>5. (q * (a + 1) + q - 1) \div q = a + 1
  BY <1>3, <1>4
<1>6. QED
  BY <1>1, <1>2, <1>5 DEF SweepStamp, SecondOf, EventStamp, q
-----------------------------------------------------------------------------
(* What Stripe has said *)

LEMMA EventAt ==
    ASSUME Clocked, NEW e \in DOMAIN events
    PROVE  events[e] \in Event /\ e \in Nat /\ events[e].at \in Nat
<1>1. events[e] \in Event /\ e \in Nat
  BY DEF Clocked
<1>2. QED
  BY <1>1 DEF Event

LEMMA MaxExists ==
    ASSUME NEW n \in Nat, NEW S, S \subseteq 1..n, S # {}
    PROVE  \E i \in S : \A j \in S : j <= i
<1> DEFINE Above(i) == {j \in S : j > i}
           Tails == {Above(i) : i \in S}
<1>1. IsFiniteSet(1..n)
  BY FS_Interval
<1>2. IsFiniteSet(S)
  BY <1>1, FS_Subset
<1>3. Tails \subseteq SUBSET S /\ Tails # {}
  OBVIOUS
<1>4. IsWellFoundedOn(StrictSubsetOrdering(S), SUBSET S)
  BY <1>2, FS_StrictSubsetOrderingWellFounded, FS_FiniteSubsetsOfFinite
<1>5. PICK x \in Tails : \A y \in Tails : ~(<<y, x>> \in StrictSubsetOrdering(S))
  <2> HIDE DEF Tails
  <2>1. QED
    BY <1>3, <1>4, WFMin
<1>6. PICK i \in S : x = Above(i)
  OBVIOUS
<1>7. ASSUME NEW j \in S, j > i PROVE FALSE
  <2>1. Above(j) \in Tails
    OBVIOUS
  <2>a. \A a \in S : a \in Nat
    OBVIOUS
  <2>b. \A a \in S : a > j => a > i
    BY <1>7, <2>a
  <2>c. j \in Above(i) /\ j \notin Above(j)
    BY <1>7, <2>a
  <2>2. Above(j) \subseteq Above(i) /\ j \in Above(i) /\ j \notin Above(j)
    BY <2>b, <2>c
  <2>3. Above(j) \in SUBSET S /\ Above(i) \in SUBSET S /\ Above(j) # Above(i)
    BY <2>2
  <2>4. <<Above(j), Above(i)>> \in StrictSubsetOrdering(S)
    <3> HIDE DEF Above
    <3>1. QED
      BY <2>2, <2>3 DEF StrictSubsetOrdering
  <2>5. QED
    BY <1>5, <1>6, <2>1, <2>4
<1>8. QED
  BY <1>7

LEMMA LatestIs ==
    ASSUME Clocked, NEW s, Changes(s) # {}
    PROVE  \E i \in Changes(s) : Latest(s) = events[i] /\ \A j \in Changes(s) : j <= i
<1>1. Changes(s) \subseteq 1..Len(events) /\ Len(events) \in Nat
  BY DEF Changes, Clocked
<1>2. \E i \in Changes(s) : \A j \in Changes(s) : j <= i
  BY <1>1, MaxExists
<1>3. QED
  BY <1>2 DEF Latest

(* The subscription as Stripe has it now.                                    *)
LEMMA LatestSure ==
    ASSUME Clocked, NEW s \in Billing, NEW stamp \in Nat, stamp <= EventStamp(clock)
    PROVE  /\ Latest(s).sub = s /\ Latest(s).status \in Statuses /\ Latest(s).keys \in Plans
           /\ Sure(s, Latest(s).status, stamp)
<1>1. PICK i \in Changes(s) : Latest(s) = events[i] /\ \A j \in Changes(s) : j <= i
  BY LatestIs DEF Billing
<1>2. i \in DOMAIN events /\ events[i] \in Event /\ \A j \in Changes(s) : j \in Nat
  BY DEF Clocked, Changes
<1>3. Had(s, events[i].status, stamp)
  BY <1>1, <1>2 DEF Had
<1>4. events[i].sub = s /\ events[i].status \in Statuses /\ events[i].keys \in Plans
  BY <1>2 DEF Changes, Event
<1>5. QED
  BY <1>1, <1>3, <1>4 DEF Sure, Billing

LEMMA EventSure ==
    ASSUME Clocked, History, NEW e \in DOMAIN events
    PROVE  /\ Task(e) \in Item /\ Task(e).observed > 0
           /\ Told(Task(e)) <=> events[e].kind = "updated"
           /\ Told(Task(e)) => Sure(Task(e).sub, Task(e).status, Task(e).observed)
<1>1. /\ events[e] \in Event /\ events[e].at <= clock /\ events[e].at \in Nat
      /\ \A j \in DOMAIN events : events[j].at \in Nat /\ j \in Nat
  BY EventAt DEF History
<1>2. EventStamp(events[e].at) \in Nat /\ EventStamp(events[e].at) > 0 /\ EventStamp(events[e].at) <= EventStamp(clock)
  BY <1>1, EventStamps DEF Clocked
<1>3. Task(e) \in Item /\ (Told(Task(e)) <=> events[e].kind = "updated")
  BY <1>1, <1>2 DEF Task, Item, Event, Told
<1>4. ASSUME events[e].kind = "updated"
      PROVE  events[e].sub \in Subs /\ Had(events[e].sub, events[e].status, EventStamp(events[e].at))
  <2>1. e \in Changes(events[e].sub) /\ events[e].sub \in Subs
    BY <1>1, <1>4 DEF Changes, Event
  <2>2. ASSUME NEW j \in Changes(events[e].sub), j > e
        PROVE  EventStamp(events[j].at) >= EventStamp(events[e].at)
    <3>1. j \in DOMAIN events /\ e <= j
      BY <1>1, <2>2 DEF Changes
    <3>2. events[e].at <= events[j].at
      BY <3>1 DEF History
    <3>3. QED
      BY <1>1, <3>1, <3>2, EventStamps
  <2>3. QED
    BY <2>1, <2>2 DEF Had
<1>5. QED
  BY <1>2, <1>3, <1>4 DEF Task, Sure

LEMMA SureBefore ==
    ASSUME Clocked, NEW s, NEW status, NEW stamp \in Nat, NEW older \in Nat, Sure(s, status, stamp), older <= stamp
    PROVE  Sure(s, status, older)
<1>1. \A j \in Changes(s) : EventStamp(events[j].at) \in Nat
  BY EventStamps, EventAt DEF Changes
<1>2. EventStamp(clock) \in Nat
  BY EventStamps DEF Clocked
<1>3. QED
  BY <1>1, <1>2 DEF Sure, Had

(* What is sure stays sure: a new event is not older than the clock.         *)
Later == /\ clock' \in Nat /\ clock <= clock'
         /\ \/ events' = events
            \/ \E e \in Event : e.at = clock /\ events' = Append(events, e)

LEMMA SureStays ==
    ASSUME Clocked, Later, NEW s, NEW status, NEW stamp \in Nat, Sure(s, status, stamp)
    PROVE  Sure(s, status, stamp)'
<1>1. EventStamp(clock) <= EventStamp(clock') /\ EventStamp(clock) \in Nat /\ EventStamp(clock') \in Nat
  BY EventStamps DEF Clocked, Later
<1>2. PICK i \in Changes(s) :
           events[i].status = status /\ \A j \in Changes(s) : j > i => EventStamp(events[j].at) >= stamp
  BY DEF Sure, Had
<1>3. CASE events' = events
  BY <1>1, <1>3 DEF Sure, Had, Changes
<1>4. ASSUME NEW e \in Event, e.at = clock, events' = Append(events, e) PROVE Sure(s, status, stamp)'
  <2>1. /\ DOMAIN events' = DOMAIN events \cup {Len(events) + 1}
        /\ \A j \in DOMAIN events : events'[j] = events[j]
        /\ events'[Len(events) + 1] = e
    BY <1>4 DEF Clocked
  <2>2. i \in Changes(s)'
    BY <2>1 DEF Changes
  <2>3. \A j \in Changes(s)' : j > i => EventStamp(events'[j].at) >= stamp
    <3> SUFFICES ASSUME NEW j \in Changes(s)', j > i PROVE EventStamp(events'[j].at) >= stamp
      OBVIOUS
    <3>1. CASE j \in DOMAIN events
      BY <1>2, <2>1, <3>1 DEF Changes
    <3>2. CASE j = Len(events) + 1
      BY <1>1, <1>4, <2>1, <3>2 DEF Sure
    <3>3. QED
      BY <2>1, <3>1, <3>2 DEF Changes
  <2>4. Had(s, status, stamp)'
    BY <1>2, <2>1, <2>2, <2>3 DEF Had, Changes
  <2>5. QED
    BY <1>1, <2>4 DEF Sure
<1>5. QED
  BY <1>3, <1>4 DEF Later

LEMMA BackedStays == ASSUME Clocked, Later, NEW stamp \in Nat, Backed(stamp) PROVE Backed(stamp)'
BY SureStays DEF Backed

(* What was sent stays sent.                                                 *)
LEMMA EventsStay ==
    ASSUME Clocked, Later
    PROVE  /\ DOMAIN events \subseteq DOMAIN events' /\ \A i \in DOMAIN events : events'[i] = events[i]
           /\ \A s : EverEntitled(s) => EverEntitled(s)'
           /\ \A item, kind : Sent(item, kind) => Sent(item, kind)'
           /\ \A k, stamp : Invoiced(k, stamp) => Invoiced(k, stamp)'
<1>1. DOMAIN events \subseteq DOMAIN events' /\ \A i \in DOMAIN events : events'[i] = events[i]
  <2>1. CASE events' = events
    BY <2>1
  <2>2. ASSUME NEW e \in Event, events' = Append(events, e)
        PROVE  DOMAIN events \subseteq DOMAIN events' /\ \A i \in DOMAIN events : events'[i] = events[i]
    <3>1. events \in Seq(Event)
      BY DEF Clocked
    <3>2. QED
      BY <2>2, <3>1
  <2>3. QED
    BY <2>1, <2>2 DEF Later
<1>2. ASSUME NEW s, EverEntitled(s) PROVE EverEntitled(s)'
  BY <1>1, <1>2 DEF EverEntitled, Changes
<1>3. ASSUME NEW item, NEW kind, Sent(item, kind) PROVE Sent(item, kind)'
  BY <1>1, <1>3 DEF Sent, Task
<1>4. ASSUME NEW k, NEW stamp, Invoiced(k, stamp) PROVE Invoiced(k, stamp)'
  <2>1. PICK i \in DOMAIN events :
             /\ events[i].kind # "updated" /\ k \in events[i].keys /\ EventStamp(events[i].at) = stamp
             /\ events[i].kind = "failed" => EverEntitled(events[i].sub)
    BY <1>4 DEF Invoiced
  <2>2. QED
    BY <1>1, <1>2, <2>1 DEF Invoiced
<1>5. QED
  BY <1>1, <1>2, <1>3, <1>4
-----------------------------------------------------------------------------
(* Requests *)

LEMMA IdleInHand == ASSUME Clocked PROVE InHand(Idle)
<1>1. Idle \in Request
  BY DEF Idle, Request, AtDatabase
<1>2. QED
  BY <1>1 DEF InHand, Idle, Listed, Clocked, AtItem

LEMMA OnwardInHand ==
    ASSUME Clocked, NEW h, InHand(h), h.pc \in {"grant", "retire"}
    PROVE  InHand(Onward(h))
<1>1. CASE h.keys # {}
  BY <1>1 DEF Onward
<1>2. CASE h.keys = {} /\ h.pc = "retire"
  BY <1>2, IdleInHand DEF Onward
<1>3. CASE h.keys = {} /\ h.pc = "grant" /\ h.at < Len(h.list)
  <2> DEFINE g == [h EXCEPT !.at = @ + 1, !.pc = "read", !.row = None]
  <2>1. h \in Request /\ h.at \in DOMAIN h.list /\ h.list \in Seq(Item)
    BY <1>3 DEF InHand, AtItem, Request
  <2>a. h.at + 1 \in Nat
    BY <2>1 DEF Request
  <2>b. g \in Request
    BY <2>1, <2>a DEF Request, AtDatabase
  <2>2. /\ g \in Request /\ g.now = h.now /\ g.event = h.event /\ g.list = h.list
        /\ g.pc = "read" /\ g.row = None /\ g.at = h.at + 1
    BY <2>1, <2>b DEF Request
  <2>5. h.at + 1 \in DOMAIN h.list /\ Told(h.list[h.at + 1])
    BY <1>3, <2>1 DEF InHand, Listed
  <2>3. Onward(h) = g
    BY <1>3 DEF Onward
  <2> HIDE DEF g
  <2>4. InHand(g)
    BY <2>2, <2>5 DEF InHand, Listed, Current
  <2>6. QED
    BY <2>3, <2>4
<1>4. CASE h.keys = {} /\ h.pc = "grant" /\ ~(h.at < Len(h.list))
  <2> DEFINE g == [h EXCEPT !.pc = IF h.event # 0 THEN "answer" ELSE "list", !.row = None]
  <2>1. h \in Request
    BY DEF InHand
  <2>2. /\ g \in Request /\ g.now = h.now /\ g.event = h.event /\ g.list = h.list
        /\ g.pc = (IF h.event # 0 THEN "answer" ELSE "list") /\ g.row = None
    BY <2>1 DEF Request, AtDatabase
  <2>3. Onward(h) = g
    BY <1>4 DEF Onward
  <2> HIDE DEF g
  <2>4. InHand(g)
    BY <2>2 DEF InHand, Listed, AtItem
  <2>5. QED
    BY <2>3, <2>4
<1>5. QED
  BY <1>1, <1>2, <1>3, <1>4

LEMMA CurrentItem ==
    ASSUME NEW h, InHand(h), h.pc \in AtItem
    PROVE  /\ Current(h) \in Item /\ Current(h).observed > 0
           /\ Told(Current(h)) => Sure(Current(h).sub, Current(h).status, Current(h).observed)
BY DEF InHand, Request, Current, Listed

LEMMA GrantingInHand ==
    ASSUME Clocked, NEW h, InHand(h), h.pc \in AtItem,
           NEW active \in BOOLEAN,
           active => \/ Backed(Current(h).observed)
                     \/ h.event # 0 /\ \A k \in Current(h).keys : Invoiced(k, Current(h).observed)
    PROVE  InHand(Granting(h, active))
<1> DEFINE g == [h EXCEPT !.pc = "grant", !.active = active, !.keys = Current(h).keys,
                          !.observed = Current(h).observed]
<1>1. h \in Request /\ h.at \in DOMAIN h.list /\ Current(h) \in Item /\ Current(h).keys \in SUBSET Keys
  BY CurrentItem, BillingAssumption DEF InHand, Item
<1>2. /\ g \in Request /\ g.now = h.now /\ g.event = h.event /\ g.list = h.list /\ g.row = h.row /\ g.at = h.at
      /\ g.pc = "grant" /\ g.active = active /\ g.observed = Current(h).observed /\ g.keys = Current(h).keys
  BY <1>1 DEF Request, AtDatabase, Item
<1>3. Granting(h, active) = Onward(g)
  BY DEF Granting
<1> HIDE DEF g
<1>4. InHand(g)
  BY <1>1, <1>2 DEF InHand, Listed, Warranted
<1>5. QED
  BY <1>2, <1>3, <1>4, OnwardInHand

LEMMA InHandStays == ASSUME Clocked, Later, NEW h, InHand(h) PROVE InHand(h)'
<1>1. h \in Request /\ h.now \in Nat /\ h.observed \in Nat /\ (h.row # None => h.row.since \in Nat)
  BY DEF InHand, Request, MirrorRow
<1>2. clock \in Nat /\ clock' \in Nat /\ clock <= clock' /\ DOMAIN events \subseteq DOMAIN events'
  BY DEF Clocked, Later
<1>3. Listed(h)'
  <2> SUFFICES ASSUME NEW i \in DOMAIN h.list, Told(h.list[i])
               PROVE  Sure(h.list[i].sub, h.list[i].status, h.list[i].observed)'
    BY DEF InHand, Listed
  <2>a. h.list[i] \in Item
    BY <1>1 DEF Request
  <2>1. h.list[i].observed \in Nat /\ Sure(h.list[i].sub, h.list[i].status, h.list[i].observed)
    BY <2>a DEF InHand, Listed, Item
  <2>2. QED
    BY <2>1, SureStays
<1>4. Warranted(h) => Warranted(h)'
  BY <1>1, BackedStays, EventsStay DEF Warranted
<1>5. h.now <= clock' /\ (h.row # None => h.row.since <= clock')
  BY <1>1, <1>2 DEF InHand
<1>6. (h.event # 0 => h.event \in DOMAIN events') /\ (h.pc = "grant" /\ h.active => Warranted(h)')
  BY <1>2, <1>4 DEF InHand
<1>7. /\ h.pc = "clear" => Sent(Current(h), "paid")'
      /\ h.pc \in {"find", "stamp"} => Sent(Current(h), "failed")'
      /\ h.pc = "stamp" => EverEntitled(Current(h).sub)'
  BY EventsStay DEF InHand, Current
<1>8. QED
  BY <1>3, <1>5, <1>6, <1>7 DEF InHand, Current, Told

Rehandled(w, h) == handler' = [handler EXCEPT ![w] = h]

LEMMA RequestsStep ==
    ASSUME Clocked, Later, Requests, NEW w \in Workers, NEW h, InHand(h), Rehandled(w, h)
    PROVE  Requests'
<1>1. h \in Request
  BY DEF InHand
<1>2. handler' \in [Workers -> Request] /\ handler'[w] = h /\ \A v \in Workers \ {w} : handler'[v] = handler[v]
  BY <1>1 DEF Requests, Rehandled
<1>3. \A v \in Workers : InHand(handler'[v])
  BY <1>2 DEF Requests
<1>4. \A v \in Workers : InHand(handler[v])'
  BY <1>3, InHandStays
<1>5. QED
  BY <1>2, <1>4 DEF Requests

LEMMA RequestsStay == ASSUME Clocked, Later, Requests, handler' = handler PROVE Requests'
BY InHandStays DEF Requests
-----------------------------------------------------------------------------
(* Rows *)

LEMMA MirrorStep ==
    ASSUME Clocked, Later, Mirrored, mirror' \in [Subs -> MirrorRow \cup {None}],
           \A s \in Subs : mirror'[s] # None /\ mirror'[s] # mirror[s] =>
             mirror'[s].since <= clock /\ Sure(s, mirror'[s].status, mirror'[s].observed)
    PROVE  Mirrored'
<1> SUFFICES ASSUME NEW s \in Subs, mirror'[s] # None
             PROVE  mirror'[s].since <= clock' /\ Sure(s, mirror[s].status, mirror[s].observed)'
  BY DEF Mirrored
<1>1. mirror'[s].since <= clock /\ Sure(s, mirror'[s].status, mirror'[s].observed)
  BY DEF Mirrored
<1>2. mirror'[s].since \in Nat /\ mirror'[s].observed \in Nat
  BY DEF MirrorRow
<1>3. QED
  BY <1>1, <1>2, SureStays DEF Clocked, Later

LEMMA StampedMirror ==
    ASSUME Clocked, Later, Mirrored, NEW s \in Subs, NEW since \in Nat, since <= clock, Stamped(s, since)
    PROVE  Mirrored'
<1>1. /\ mirror' \in [Subs -> MirrorRow \cup {None}]
      /\ \A r \in Subs \ {s} : mirror'[r] = mirror[r]
      /\ mirror[s] = None => mirror'[s] = None
      /\ mirror[s] # None => /\ mirror'[s].since = since /\ mirror'[s].status = mirror[s].status
                             /\ mirror'[s].observed = mirror[s].observed
  BY DEF Mirrored, MirrorRow, Stamped
<1>2. QED
  BY <1>1, MirrorStep DEF Mirrored

LEMMA FoundedStays == ASSUME Clocked, Later, NEW k, NEW row \in GateRow, Founded(k, row) PROVE Founded(k, row)'
<1>1. row.synced <= clock'
  BY DEF Founded, GateRow, Clocked, Later
<1>2. Backed(row.observed) => Backed(row.observed)'
  BY BackedStays DEF GateRow
<1>3. ASSUME NEW n \in Nat, Backed(EventStamp(n)) PROVE Backed(EventStamp(n))'
  BY <1>3, BackedStays, EventStamps
<1>4. Invoiced(k, row.observed) => Invoiced(k, row.observed)'
  BY EventsStay
<1>5. QED
  BY <1>1, <1>2, <1>3, <1>4 DEF Founded

LEMMA GateStays == ASSUME Clocked, Later, Gated, gate' = gate PROVE Gated'
BY FoundedStays DEF Gated

LEMMA GateUpsert ==
    ASSUME Clocked, Later, Gated, NEW k \in Keys, NEW row \in GateRow, Founded(k, row), Upsert(k, row) PROVE Gated'
<1>1. /\ gate' \in [Keys -> GateRow \cup {None}]
      /\ \A j \in Keys : gate'[j] = gate[j] \/ (j = k /\ gate'[j] = row)
  BY DEF Gated, Upsert
<1>2. \A j \in Keys : gate'[j] # None => Founded(j, gate'[j])
  BY <1>1 DEF Gated
<1>3. QED
  BY <1>1, <1>2, FoundedStays DEF Gated

LEMMA SweptStays == ASSUME Clocked, Later, Swept, cron' = cron PROVE Swept'
<1>1. cron.now \in Nat /\ EventStamp(cron.now) \in Nat
  BY EventStamps DEF Swept, Run
<1>2. \A s : Sure(s, "past_due", EventStamp(cron.now)) => Sure(s, "past_due", EventStamp(cron.now))'
  BY <1>1, SureStays
<1>3. Backed(EventStamp(cron.now)) => Backed(EventStamp(cron.now))'
  BY <1>1, BackedStays
<1>4. cron.now <= clock'
  BY <1>1 DEF Swept, Clocked, Later
<1>5. QED
  BY <1>2, <1>3, <1>4 DEF Swept
-----------------------------------------------------------------------------
(* The steps of Stripe and of the clock *)

Facts == Clocked /\ History /\ Requests /\ Mirrored /\ Gated /\ Swept

Tables == <<mirror, gate, handler, cron>>

LEMMA TablesStay == ASSUME Facts, Later, UNCHANGED Tables PROVE Requests' /\ Mirrored' /\ Gated' /\ Swept'
<1>1. UNCHANGED <<mirror, gate, handler, cron>>
  BY DEF Tables
<1>2. Requests' /\ Gated' /\ Swept'
  BY <1>1, RequestsStay, GateStays, SweptStays DEF Facts
<1>3. Mirrored'
  BY <1>1, MirrorStep DEF Facts, Mirrored
<1>4. QED
  BY <1>2, <1>3

LEMMA CreateFacts ==
    ASSUME Facts, NEW kind, NEW s, NEW status, NEW keys,
           [kind |-> kind, sub |-> s, status |-> status, keys |-> keys, at |-> clock] \in Event,
           Create(kind, s, status, keys)
    PROVE  Facts'
<1> DEFINE e == [kind |-> kind, sub |-> s, status |-> status, keys |-> keys, at |-> clock]
<1>1. /\ e \in Event /\ e.at = clock
      /\ events' = Append(events, e)
      /\ clock' = clock /\ clock \in Nat /\ clock > 0 /\ processed' = processed /\ faults' = faults
      /\ queue' = queue \cup {Len(events) + 1} /\ Len(events) < MaxEvents
  BY DEF Create, Facts, Clocked
<1> HIDE DEF e
<1>2. Later
  BY <1>1 DEF Later
<1>3. /\ events' \in Seq(Event) /\ Len(events') = Len(events) + 1 /\ Len(events) \in Nat
      /\ DOMAIN events' = DOMAIN events \cup {Len(events) + 1}
      /\ \A i \in DOMAIN events : events'[i] = events[i] /\ i \in Nat /\ i < Len(events) + 1
      /\ events'[Len(events) + 1] = e
  BY <1>1 DEF Facts, Clocked
<1>4. Clocked'
  BY <1>1, <1>3, BillingAssumption DEF Facts, Clocked
<1>5. History'
  <2>a. PICK n : n = Len(events) + 1
    OBVIOUS
  <2>1. \A i \in DOMAIN events : events[i].at <= clock /\ events[i].at \in Nat
    BY EventAt DEF Facts, History
  <2>2. ASSUME NEW i \in DOMAIN events'
        PROVE  /\ events'[i].at <= clock
               /\ \A j \in DOMAIN events' : j <= i => events'[j].at <= events'[i].at
    <3>1. CASE i = n
      BY <1>1, <1>3, <2>a, <2>1, <3>1
    <3>2. CASE i \in DOMAIN events
      <4>1. \A j \in DOMAIN events' : j <= i => j \in DOMAIN events
        BY <1>3, <3>2
      <4>2. QED
        BY <1>3, <3>2, <4>1 DEF Facts, History
    <3>3. QED
      BY <1>3, <2>a, <3>1, <3>2
  <2>3. QED
    BY <1>1, <2>2 DEF History
<1>6. UNCHANGED Tables
  BY DEF Create, Tables
<1>7. QED
  BY <1>2, <1>4, <1>5, <1>6, TablesStay DEF Facts

LEMMA ChangeFacts ==
    ASSUME Facts, NEW s \in Subs, NEW status \in Statuses, NEW plan \in Plans, Change(s, status, plan) PROVE Facts'
<1>1. [kind |-> "updated", sub |-> s, status |-> status, keys |-> plan, at |-> clock] \in Event
  BY DEF Event, Facts, Clocked
<1>2. QED
  BY <1>1, CreateFacts DEF Change

LEMMA InvoiceFacts ==
    ASSUME Facts, NEW s \in Payers, NEW kind \in {"paid", "failed"}, NEW keys \in Plans, Invoice(s, kind, keys) PROVE Facts'
<1>1. [kind |-> kind, sub |-> s, status |-> "untold", keys |-> keys, at |-> clock] \in Event
  BY DEF Event, Facts, Clocked
<1>2. QED
  BY <1>1, CreateFacts DEF Invoice

LEMMA TickFacts == ASSUME Facts, Tick PROVE Facts'
<1>1. Later /\ UNCHANGED Tables
  BY DEF Tick, Later, Facts, Clocked, Tables
<1>2. Clocked'
  BY DEF Tick, Facts, Clocked
<1>3. History'
  <2>1. \A e \in DOMAIN events : events[e].at <= clock'
    BY EventAt DEF Tick, Facts, Clocked, History
  <2>2. events' = events
    BY DEF Tick
  <2>3. QED
    BY <2>1, <2>2 DEF Facts, History
<1>4. QED
  BY <1>1, <1>2, <1>3, TablesStay DEF Facts
-----------------------------------------------------------------------------
(* The steps of a request *)

(* A step of the service itself.                                             *)
Still == /\ UNCHANGED <<clock, events>> /\ queue' \subseteq DOMAIN events
         /\ processed' \subseteq DOMAIN events /\ faults' \in 0..MaxFaults

LEMMA StillFacts == ASSUME Clocked, History, Still PROVE Clocked' /\ History' /\ Later
<1>1. Clocked' /\ Later
  BY DEF Still, Clocked, Later
<1>2. History'
  BY DEF Still, History
<1>3. QED
  BY <1>1, <1>2

Attends(w, h) == InHand(h) /\ Rehandled(w, h)

LEMMA ReadFacts == ASSUME Facts, NEW w \in Workers, Read(w) PROVE \E h : Attends(w, h)
<1> DEFINE h == handler[w]
           task == Current(h)
           row == mirror[task.sub]
<1>1. /\ h.pc = "read" /\ InHand(h) /\ h \in Request
      /\ handler' = [handler EXCEPT ![w] = IF row.observed >= task.observed
                                           THEN Granting(h, Entitled(row.status, row.since, h.now))
                                           ELSE [h EXCEPT !.pc = "write", !.row = row]]
  BY DEF Read, Facts, Requests
<1>2. task \in Item /\ task.observed > 0 /\ task.sub \in Subs /\ task.observed \in Nat /\ Told(task)
  BY <1>1, CurrentItem DEF AtItem, Item, InHand, Sure
<1>3. /\ row \in MirrorRow \cup {None}
      /\ row # None => row.since <= clock /\ Sure(task.sub, row.status, row.observed)
  BY <1>2 DEF Facts, Mirrored
<1>4. CASE row.observed >= task.observed
  <2> DEFINE active == Entitled(row.status, row.since, h.now)
  <2>1. row # None
    BY <1>2, <1>4 DEF None
  <2>2. active \in BOOLEAN /\ (active => row.status \in Entitling)
    BY DEF Entitled
  <2>3. Sure(task.sub, row.status, task.observed)
    <3>1. row.observed \in Nat
      BY <1>3, <2>1 DEF MirrorRow
    <3>2. QED
      BY <1>2, <1>3, <1>4, <2>1, <3>1, SureBefore DEF Facts
  <2>4. active => Backed(task.observed)
    BY <1>2, <2>2, <2>3 DEF Backed
  <2>5. InHand(Granting(h, active))
    <3> HIDE DEF active, h
    <3>1. QED
      BY <1>1, <2>2, <2>4, GrantingInHand DEF Facts, AtItem
  <2>6. QED
    BY <1>1, <1>4, <2>5 DEF Attends, Rehandled
<1>5. CASE ~(row.observed >= task.observed)
  <2> DEFINE g == [h EXCEPT !.pc = "write", !.row = row]
  <2>1. g \in Request
    BY <1>1, <1>3 DEF Request, AtDatabase
  <2>2. /\ g.now = h.now /\ g.event = h.event /\ g.list = h.list /\ g.at = h.at /\ g.pc = "write" /\ g.row = row
    BY <1>1 DEF Request
  <2>3. Rehandled(w, g)
    BY <1>1, <1>5 DEF Rehandled
  <2> HIDE DEF g
  <2>4. InHand(g)
    BY <1>1, <1>3, <2>1, <2>2 DEF InHand, Listed, AtItem, Current
  <2>5. QED
    BY <2>3, <2>4 DEF Attends
<1>6. QED
  BY <1>4, <1>5

LEMMA WriteFacts == ASSUME Facts, Later, NEW w \in Workers, Write(w) PROVE Mirrored' /\ \E h : Attends(w, h)
<1> DEFINE h == handler[w]
           task == Current(h)
           since == NextSince(task.status, IF h.row = None THEN NoStamp ELSE h.row.since, h.now)
           row == [status |-> task.status, since |-> since, observed |-> task.observed]
           active == Entitled(task.status, since, h.now)
<1>1. /\ h.pc = "write" /\ InHand(h) /\ h \in Request
      /\ mirror' = [mirror EXCEPT ![task.sub] = row]
      /\ handler' = [handler EXCEPT ![w] = Granting(h, active)]
  BY DEF Write, Facts, Requests
<1>2. /\ task \in Item /\ task.sub \in Subs /\ task.observed \in Nat /\ task.status \in Statuses
      /\ Sure(task.sub, task.status, task.observed)
  BY <1>1, CurrentItem DEF AtItem, Item, InHand, Told, Sure
<1>3. since \in Nat /\ since <= clock
  <2>1. h.now \in Nat /\ h.now <= clock /\ clock \in Nat
    BY <1>1 DEF Request, InHand, Facts, Clocked
  <2>2. h.row # None => h.row.since \in Nat /\ h.row.since <= clock
    BY <1>1 DEF Request, InHand, MirrorRow
  <2>3. QED
    BY <2>1, <2>2 DEF NextSince, NoStamp
<1>4. Mirrored'
  <2>1. /\ row \in MirrorRow /\ row.since = since /\ row.status = task.status /\ row.observed = task.observed
    BY <1>2, <1>3 DEF MirrorRow
  <2> HIDE DEF row
  <2>2. /\ mirror' \in [Subs -> MirrorRow \cup {None}]
        /\ \A s \in Subs : mirror'[s] = mirror[s] \/ (s = task.sub /\ mirror'[s] = row)
    BY <1>1, <1>2, <2>1 DEF Facts, Mirrored
  <2>3. QED
    BY <1>2, <1>3, <2>1, <2>2, MirrorStep DEF Facts
<1>5. active \in BOOLEAN /\ (active => Backed(task.observed))
  BY <1>2 DEF Entitled, Backed
<1>6. InHand(Granting(h, active))
  <2> HIDE DEF active, h
  <2>1. QED
    BY <1>1, <1>5, GrantingInHand DEF Facts, AtItem
<1>7. QED
  BY <1>1, <1>4, <1>6 DEF Attends, Rehandled

(* invoice.paid and invoice.payment_failed.                                  *)
LEMMA InvoiceGrants ==
    ASSUME Facts, NEW h, InHand(h), h.pc \in {"clear", "find", "stamp"},
           NEW kind \in {"paid", "failed"}, Sent(Current(h), kind),
           NEW active \in BOOLEAN, active => kind = "paid" \/ EverEntitled(Current(h).sub)
    PROVE  InHand(Granting(h, active))
<1>1. PICK i \in DOMAIN events : events[i].kind = kind /\ Task(i) = Current(h)
  BY DEF Sent
<1>2. /\ Current(h).keys = events[i].keys /\ Current(h).observed = EventStamp(events[i].at)
      /\ Current(h).sub = events[i].sub
  BY <1>1 DEF Task
<1>3. active => \A k \in Current(h).keys : Invoiced(k, Current(h).observed)
  BY <1>1, <1>2 DEF Invoiced
<1>4. h.event # 0
  BY DEF InHand
<1>5. QED
  BY <1>3, <1>4, GrantingInHand DEF Facts, AtItem

LEMMA ClearFacts == ASSUME Facts, Later, NEW w \in Workers, Clear(w) PROVE Mirrored' /\ \E h : Attends(w, h)
<1> DEFINE h == handler[w]
           s == Current(h).sub
<1>1. InHand(h) /\ h.pc = "clear" /\ Sent(Current(h), "paid")
  BY DEF Clear, Facts, Requests, InHand
<1>2. InHand(Granting(h, TRUE))
  <2> HIDE DEF h
  <2>1. QED
    BY <1>1, InvoiceGrants
<1>3. mirror' = mirror \/ (s \in Subs /\ Stamped(s, NoStamp))
  BY DEF Clear
<1>4. Mirrored'
  BY <1>3, StampedMirror, MirrorStep DEF Facts, Mirrored, Clocked, NoStamp
<1>5. Rehandled(w, Granting(h, TRUE))
  BY DEF Clear, Rehandled
<1>6. QED
  BY <1>2, <1>4, <1>5 DEF Attends

LEMMA FindFacts == ASSUME Facts, NEW w \in Workers, Find(w) PROVE \E h : Attends(w, h)
<1> DEFINE h == handler[w]
           s == Current(h).sub
           row == IF s \in Subs THEN mirror[s] ELSE None
           dunning == row # None /\ row.status \in {"active", "past_due"}
           active == dunning /\ Entitled("past_due", row.since, h.now)
           g == [h EXCEPT !.pc = "stamp"]
<1>1. h.pc = "find" /\ InHand(h) /\ h \in Request /\ Sent(Current(h), "failed")
  BY DEF Find, Facts, Requests, InHand
<1>2. active \in BOOLEAN
  OBVIOUS
<1>3. dunning => EverEntitled(s)
  BY DEF Facts, Mirrored, Sure, Had, EverEntitled
<1>4. InHand(Granting(h, active))
  <2>1. active => EverEntitled(s)
    BY <1>3
  <2> HIDE DEF active, h
  <2>2. QED
    BY <1>1, <1>2, <2>1, InvoiceGrants
<1>5. /\ g \in Request /\ g.now = h.now /\ g.event = h.event /\ g.list = h.list /\ g.at = h.at /\ g.row = h.row
      /\ g.pc = "stamp"
  BY <1>1 DEF Request, AtDatabase
<1>6. (dunning /\ Rehandled(w, g)) \/ Rehandled(w, Granting(h, active))
  BY DEF Find, Rehandled
<1> HIDE DEF g, dunning
<1>7. dunning => InHand(g)
  BY <1>1, <1>3, <1>5 DEF InHand, Listed, AtItem, Current
<1>8. QED
  BY <1>4, <1>6, <1>7 DEF Attends

LEMMA StampFacts == ASSUME Facts, Later, NEW w \in Workers, Stamp(w) PROVE Mirrored' /\ \E h : Attends(w, h)
<1> DEFINE h == handler[w]
           s == Current(h).sub
<1>1. InHand(h) /\ h.pc = "stamp" /\ Sent(Current(h), "failed") /\ EverEntitled(s)
  BY DEF Stamp, Facts, Requests, InHand
<1>2. InHand(Granting(h, TRUE))
  <2> HIDE DEF h
  <2>1. QED
    BY <1>1, InvoiceGrants
<1>3. h.now \in Nat /\ h.now <= clock
  BY DEF Facts, Requests, InHand, Request
<1>4. s \in Subs
  BY <1>1 DEF EverEntitled, Changes, Facts, Clocked, Event
<1>5. mirror' = mirror \/ Stamped(s, h.now)
  BY DEF Stamp
<1>6. Mirrored'
  BY <1>3, <1>4, <1>5, StampedMirror, MirrorStep DEF Facts, Mirrored
<1>7. Rehandled(w, Granting(h, TRUE))
  BY DEF Stamp, Rehandled
<1>8. QED
  BY <1>2, <1>6, <1>7 DEF Attends

LEMMA GrantFacts ==
    ASSUME Facts, Later, NEW w \in Workers, NEW k \in Keys, GrantKey(w, k) PROVE Gated' /\ \E h : Attends(w, h)
<1> DEFINE h == handler[w]
           by == IF h.event # 0 THEN "webhook" ELSE "sync"
           row == Grant(h.active, h.observed, h.now, by)
           g == [h EXCEPT !.keys = @ \ {k}]
<1>1. h.pc \in {"grant", "retire"} /\ InHand(h) /\ h \in Request
  BY DEF GrantKey, Facts, Requests
<1>2. Upsert(k, row) /\ Rehandled(w, Onward(g))
  BY DEF GrantKey, Rehandled
<1>3. /\ row \in GateRow /\ row.synced = h.now /\ row.active = h.active /\ row.observed = h.observed
      /\ row.by # "staleness" /\ (h.event # 0 => row.by = "webhook")
  BY <1>1 DEF Grant, GateRow, Request
<1>4. /\ g \in Request /\ g.now = h.now /\ g.event = h.event /\ g.list = h.list /\ g.at = h.at /\ g.row = h.row
      /\ g.pc = h.pc /\ g.active = h.active /\ g.observed = h.observed /\ g.keys \subseteq h.keys /\ k \in h.keys
  BY <1>1 DEF Request, GrantKey
<1> HIDE DEF row, g
<1>5. Founded(k, row)
  BY <1>1, <1>3, <1>4 DEF Founded, InHand, Warranted
<1>6. Gated'
  BY <1>2, <1>3, <1>5, GateUpsert DEF Facts
<1>7. InHand(g)
  BY <1>1, <1>4 DEF InHand, Listed, Warranted
<1>8. InHand(Onward(g))
  BY <1>1, <1>4, <1>7, OnwardInHand DEF Facts
<1>9. QED
  BY <1>2, <1>6, <1>8 DEF Attends

LEMMA IdleFacts ==
    ASSUME Facts, NEW w \in Workers, Answer(w) \/ Release(w) \/ Die(w) PROVE \E h : Attends(w, h)
<1>1. Rehandled(w, Idle)
  BY DEF Answer, Release, Die, Rehandled
<1>2. QED
  BY <1>1, IdleInHand DEF Facts, Attends

LEMMA FetchFacts == ASSUME Facts, NEW w \in Workers, Fetch(w) PROVE \E h : Attends(w, h)
<1> DEFINE h == handler[w]
           n == Cardinality(Billing)
<1>1. h.pc = "fetch" /\ InHand(h) /\ h \in Request /\ h.now \in Nat /\ h.now > 0 /\ h.now <= clock /\ h.at = 1 /\ h.event = 0
  BY DEF Fetch, Fetched, Facts, Requests, InHand, Request
<1>2. PICK order \in Orders : handler' = [handler EXCEPT
        ![w].pc = IF Billing = {} THEN "list" ELSE "read",
        ![w].list = [i \in 1..n |-> [sub |-> order[i], status |-> Latest(order[i]).status,
                                     keys |-> Latest(order[i]).keys, observed |-> ReadStamp(h.now, 0) + i - 1]]]
  BY DEF Fetch, Fetched
<1> DEFINE item(i) == [sub |-> order[i], status |-> Latest(order[i]).status,
                       keys |-> Latest(order[i]).keys, observed |-> ReadStamp(h.now, 0) + i - 1]
           list == [i \in 1..n |-> item(i)]
           g == [h EXCEPT !.pc = IF Billing = {} THEN "list" ELSE "read", !.list = list]
<1>3. n \in Nat /\ n <= Span /\ (Billing # {} => n > 0) /\ order \in [1..n -> Billing]
  <2>1. IsFiniteSet(Subs) /\ Billing \in SUBSET Subs
    BY BillingAssumption DEF Billing
  <2>2. IsFiniteSet(Billing) /\ n <= Cardinality(Subs) /\ n \in Nat /\ Cardinality(Subs) \in Nat
    BY <2>1, FS_Subset, FS_CardinalityType
  <2>3. Billing # {} => n # 0
    BY <2>2, FS_EmptySet
  <2>4. QED
    BY <2>2, <2>3, SpanType DEF Orders
<1>4. ASSUME NEW i \in 1..n
      PROVE  /\ item(i) \in Item /\ item(i).observed > 0 /\ Told(item(i))
             /\ Sure(item(i).sub, item(i).status, item(i).observed)
  <2>1. order[i] \in Billing /\ order[i] \in Subs
    BY <1>3 DEF Billing
  <2>2. i - 1 \in Nat /\ i - 1 <= Span
    BY <1>3, SpanType
  <2>3. /\ ReadStamp(h.now, 0) + (i - 1) \in Nat /\ ReadStamp(h.now, 0) + (i - 1) > 0
        /\ ReadStamp(h.now, 0) + (i - 1) <= EventStamp(h.now)
    <3>1. PICK offset \in Nat : offset = i - 1
      BY <2>2
    <3>2. PICK now \in Nat : now = h.now
      BY <1>1
    <3>3. /\ ReadStamp(now, 0) + offset \in Nat
          /\ now > 0 => ReadStamp(now, 0) + offset > 0
          /\ offset <= Span => ReadStamp(now, 0) + offset <= EventStamp(now)
      BY ReadStamps
    <3>4. QED
      BY <1>1, <2>2, <3>1, <3>2, <3>3
  <2>4. EventStamp(h.now) <= EventStamp(clock) /\ EventStamp(h.now) \in Nat /\ EventStamp(clock) \in Nat
    BY <1>1, EventStamps DEF Facts, Clocked
  <2>5. item(i).observed = ReadStamp(h.now, 0) + (i - 1)
    <3>1. PICK now \in Nat : now = h.now
      BY <1>1
    <3>2. ReadStamp(now, 0) \in Nat /\ ReadStamp(now, 0) = ReadStamp(h.now, 0)
      BY <3>1, ReadStamps
    <3>3. i \in Nat
      BY <1>3
    <3>4. QED
      BY <3>2, <3>3
  <2>6. item(i).observed \in Nat /\ item(i).observed > 0 /\ item(i).observed <= EventStamp(clock)
    BY <2>3, <2>4, <2>5
  <2>7. /\ Latest(order[i]).status \in Statuses /\ Latest(order[i]).keys \in Plans
        /\ Sure(order[i], Latest(order[i]).status, item(i).observed)
    <3> DEFINE stamp == item(i).observed
    <3> HIDE DEF stamp
    <3>1. stamp \in Nat /\ stamp <= EventStamp(clock)
      BY <2>6 DEF stamp
    <3>2. /\ Latest(order[i]).status \in Statuses /\ Latest(order[i]).keys \in Plans
          /\ Sure(order[i], Latest(order[i]).status, stamp)
      BY <2>1, <3>1, LatestSure DEF Facts
    <3>3. QED
      BY <3>2 DEF stamp
  <2>8. item(i) \in Item /\ Told(item(i))
    BY <2>1, <2>6, <2>7 DEF Item, Told
  <2>9. QED
    BY <2>6, <2>7, <2>8
<1>5. Rehandled(w, g)
  BY <1>1, <1>2 DEF Rehandled, Facts, Requests
<1> HIDE DEF item
<1>6. list \in Seq(Item) /\ DOMAIN list = 1..n /\ \A i \in 1..n : list[i] = item(i)
  BY <1>3, <1>4
<1> HIDE DEF list
<1>7. /\ g \in Request /\ g.now = h.now /\ g.event = h.event /\ g.list = list /\ g.at = h.at /\ g.row = h.row
      /\ g.pc = (IF Billing = {} THEN "list" ELSE "read")
  BY <1>1, <1>6 DEF Request, AtDatabase
<1> HIDE DEF g
<1>8. Listed(g)
  BY <1>4, <1>6, <1>7 DEF Listed
<1>9. g.pc \in AtItem => g.pc = "read" /\ g.at \in DOMAIN g.list /\ Told(Current(g))
  BY <1>1, <1>3, <1>4, <1>6, <1>7 DEF AtItem, Current
<1>10. InHand(g)
  BY <1>1, <1>7, <1>8, <1>9 DEF InHand, AtItem
<1>11. QED
  BY <1>5, <1>10 DEF Attends

LEMMA ListRetiredFacts == ASSUME Facts, NEW w \in Workers, ListRetired(w) PROVE \E h : Attends(w, h)
<1> DEFINE h == handler[w]
           kept == {k \in Keys : Open(k)} \ UNION {h.list[i].keys : i \in DOMAIN h.list}
           stamp == ReadStamp(h.now, Len(h.list))
           g == [h EXCEPT !.pc = "retire", !.active = FALSE, !.keys = kept, !.observed = stamp]
<1>1. h.pc = "list" /\ InHand(h) /\ h \in Request /\ h.event = 0 /\ h.now \in Nat /\ h.list \in Seq(Item)
  BY DEF ListRetired, Facts, Requests, InHand, Request
<1>2. Rehandled(w, Onward(g))
  BY DEF ListRetired, Rehandled
<1>3. kept \in SUBSET Keys /\ stamp \in Nat
  <2>1. Len(h.list) \in Nat
    BY <1>1
  <2>2. stamp \in Nat
    BY <1>1, <2>1, ReadStamps
  <2>3. kept \in SUBSET Keys
    OBVIOUS
  <2>4. QED
    BY <2>2, <2>3
<1> HIDE DEF kept, stamp
<1>4. /\ g \in Request /\ g.now = h.now /\ g.event = h.event /\ g.list = h.list /\ g.at = h.at /\ g.row = h.row
      /\ g.pc = "retire" /\ g.active = FALSE
  BY <1>1, <1>3 DEF Request, AtDatabase
<1> HIDE DEF g
<1>5. InHand(g)
  BY <1>1, <1>4 DEF InHand, Listed, AtItem
<1>6. InHand(Onward(g))
  BY <1>4, <1>5, OnwardInHand DEF Facts
<1>7. QED
  BY <1>2, <1>6 DEF Attends

LEMMA FailFacts == ASSUME Facts, NEW w \in Workers, Fail(w) PROVE \E h : Attends(w, h)
<1> DEFINE h == handler[w]
           g == [Idle EXCEPT !.pc = "release", !.event = h.event]
<1>1. InHand(h) /\ h.event \in Nat
  BY DEF Facts, Requests, InHand, Request
<1>2. IF h.event = 0 THEN Rehandled(w, Idle) ELSE Rehandled(w, g)
  BY DEF Fail, Rehandled
<1>3. InHand(Idle) /\ Idle \in Request
  BY IdleInHand DEF Facts, InHand
<1>4. /\ g \in Request /\ g.now = Idle.now /\ g.event = h.event /\ g.list = Idle.list /\ g.row = Idle.row
      /\ g.pc = "release"
  BY <1>1, <1>3 DEF Request, AtDatabase
<1> HIDE DEF g
<1>5. InHand(g)
  BY <1>1, <1>3, <1>4 DEF InHand, Listed, AtItem
<1>6. QED
  BY <1>2, <1>3, <1>5 DEF Attends

LEMMA StartSyncFacts == ASSUME Facts, NEW w \in Workers, StartSync(w) PROVE \E h : Attends(w, h)
<1> DEFINE g == [Idle EXCEPT !.pc = "fetch", !.now = clock]
<1>1. InHand(Idle) /\ Idle \in Request /\ clock \in Nat /\ clock > 0
  BY IdleInHand DEF Facts, Clocked, InHand
<1>2. Rehandled(w, g)
  BY DEF StartSync, Rehandled
<1>3. g \in Request
  BY <1>1 DEF Request
<1>4. g.now = clock /\ g.event = 0 /\ g.list = <<>> /\ g.row = None /\ g.pc = "fetch" /\ g.at = 1
  BY DEF Idle
<1> HIDE DEF g
<1>5. InHand(g)
  BY <1>1, <1>3, <1>4 DEF InHand, Listed, AtItem
<1>6. QED
  BY <1>2, <1>5 DEF Attends

LEMMA ClaimFacts == ASSUME Facts, NEW w \in Workers, NEW e \in DOMAIN events, Claim(w, e) PROVE \E h : Attends(w, h)
<1> DEFINE g == [Idle EXCEPT !.pc = FirstStep(e), !.event = e, !.now = clock, !.list = <<Task(e)>>]
<1>1. Idle \in Request /\ clock \in Nat /\ e \in Nat
  BY IdleInHand, EventAt DEF Facts, Clocked, InHand
<1>2. /\ Task(e) \in Item /\ Task(e).observed > 0
      /\ Told(Task(e)) <=> events[e].kind = "updated"
      /\ Told(Task(e)) => Sure(Task(e).sub, Task(e).status, Task(e).observed)
  BY EventSure DEF Facts
<1>3. /\ FirstStep(e) \in {"read", "clear", "find"} /\ (FirstStep(e) = "read" => Told(Task(e)))
      /\ FirstStep(e) = "clear" => Sent(Task(e), "paid")
      /\ FirstStep(e) = "find" => Sent(Task(e), "failed")
  <2>1. events[e].kind \in {"updated", "paid", "failed"}
    BY EventAt DEF Facts, Event
  <2>2. QED
    BY <1>2, <2>1 DEF FirstStep, Sent
<1>4. Rehandled(w, g)
  BY DEF Claim, Rehandled
<1> DEFINE first == FirstStep(e)
           list == <<Task(e)>>
<1>5. list \in Seq(Item) /\ DOMAIN list = {1} /\ Len(list) = 1 /\ list[1] = Task(e)
  BY <1>2
<1> HIDE DEF first, list
<1>6. /\ g \in Request /\ g.now = clock /\ g.event = e /\ g.list = list /\ g.at = 1 /\ g.row = None
      /\ g.pc = first
  <2>1. first \in AtDatabase
    BY <1>3 DEF first, AtDatabase
  <2>2. g = [Idle EXCEPT !.pc = first, !.event = e, !.now = clock, !.list = list]
    BY DEF first, list
  <2> HIDE DEF g
  <2>3. g \in Request
    BY <1>1, <1>5, <2>1, <2>2 DEF Request
  <2>4. QED
    BY <2>2, <2>3 DEF Idle
<1> HIDE DEF g
<1>7. Listed(g)
  BY <1>2, <1>5, <1>6 DEF Listed
<1>8. Current(g) = Task(e) /\ g.at \in DOMAIN g.list
  BY <1>5, <1>6 DEF Current
<1>9. e # 0
  BY DEF Facts, Clocked
<1>10. /\ first \in {"read", "clear", "find"} /\ (first = "read" => Told(Task(e)))
       /\ first = "clear" => Sent(Task(e), "paid")
       /\ first = "find" => Sent(Task(e), "failed")
  BY <1>3 DEF first
<1>11. InHand(g)
  BY <1>1, <1>6, <1>7, <1>8, <1>9, <1>10 DEF InHand, AtItem
<1>12. QED
  BY <1>4, <1>11 DEF Attends
-----------------------------------------------------------------------------
(* The steps of the cron *)

LEMMA SweptStep ==
    ASSUME Clocked, Later, NEW n \in Nat, cron' \in Run, cron'.now = n, n <= clock,
           cron'.pc \in {"stamp", "check"} => \E s \in Subs : cron'.sub = {s} /\ Sure(s, "past_due", EventStamp(n)),
           cron'.pc = "put" /\ cron'.verdict => Backed(EventStamp(n))
    PROVE  Swept'
<1>1. EventStamp(n) \in Nat
  BY EventStamps
<1>2. \A s : Sure(s, "past_due", EventStamp(n)) => Sure(s, "past_due", EventStamp(n))'
  BY <1>1, SureStays
<1>3. Backed(EventStamp(n)) => Backed(EventStamp(n))'
  BY <1>1, BackedStays
<1>4. n <= clock'
  BY DEF Clocked, Later
<1>5. QED
  BY <1>2, <1>3, <1>4 DEF Swept

LEMMA StartCronFacts == ASSUME Facts, Later, StartCron PROVE Swept'
<1> DEFINE due == {k \in Keys : gate[k] # None /\ clock > gate[k].synced + Ceiling}
<1>1. cron' = [CronIdle EXCEPT !.pc = "stale", !.now = clock, !.stale = due]
  BY DEF StartCron
<1>2. due \in SUBSET Keys /\ clock \in Nat
  BY DEF Facts, Clocked
<1> HIDE DEF due
<1>3. cron' \in Run /\ cron'.now = clock /\ cron'.pc = "stale"
  BY <1>1, <1>2 DEF CronIdle, Run
<1>4. QED
  BY <1>2, <1>3, SweptStep DEF Facts, Clocked

LEMMA SweepReadFacts == ASSUME Facts, Later, NEW k \in Keys, SweepRead(k) PROVE Swept'
<1> DEFINE n == cron.now
<1>1. cron \in Run /\ n \in Nat /\ n <= clock
  BY DEF Facts, Swept, Run
<1>2. EventStamp(n) \in Nat /\ EventStamp(n) <= EventStamp(clock)
  BY <1>1, EventStamps DEF Facts, Clocked
<1>3. ASSUME NEW status, NEW s \in Having(status, k) PROVE s \in Subs /\ Sure(s, status, EventStamp(n))
  <2>1. s \in Billing /\ Latest(s).status = status
    BY DEF Having
  <2>2. QED
    BY <1>2, <2>1, LatestSure DEF Facts, Billing
<1>4. CASE cron' = [cron EXCEPT !.pc = "put", !.key = {k}, !.verdict = Having("active", k) # {}]
  <2>1. cron' \in Run /\ cron'.now = n /\ cron'.pc = "put" /\ cron'.verdict = (Having("active", k) # {})
    BY <1>1, <1>4 DEF Run
  <2>2. cron'.verdict => Backed(EventStamp(n))
    BY <1>3, <2>1 DEF Backed
  <2>3. QED
    BY <1>1, <2>1, <2>2, SweptStep DEF Facts
<1>5. ASSUME NEW s \in Having("past_due", k), cron' = [cron EXCEPT !.pc = "stamp", !.key = {k}, !.sub = {s}] PROVE Swept'
  <2>1. s \in Subs /\ Sure(s, "past_due", EventStamp(n))
    BY <1>3
  <2>2. cron' \in Run /\ cron'.now = n /\ cron'.pc = "stamp" /\ cron'.sub = {s}
    BY <1>1, <1>5, <2>1 DEF Run
  <2>3. QED
    BY <1>1, <2>1, <2>2, SweptStep DEF Facts
<1>6. QED
  BY <1>4, <1>5 DEF SweepRead

LEMMA SweepStampsFacts == ASSUME Facts, Later, SweepStamps PROVE Mirrored' /\ Swept'
<1> DEFINE n == cron.now
<1>1. cron \in Run /\ n \in Nat /\ n <= clock /\ cron.pc = "stamp"
  BY DEF Facts, Swept, Run, SweepStamps
<1>2. PICK s \in Subs : cron.sub = {s} /\ Sure(s, "past_due", EventStamp(n))
  BY <1>1 DEF Facts, Swept
<1>3. cron' \in Run /\ cron'.now = n /\ cron'.pc = "check" /\ cron'.sub = {s}
  BY <1>1, <1>2 DEF SweepStamps, Run
<1>4. Swept'
  BY <1>1, <1>2, <1>3, SweptStep DEF Facts
<1>5. mirror' = mirror \/ Stamped(s, n)
  BY <1>2 DEF SweepStamps
<1>6. Mirrored'
  BY <1>1, <1>5, MirrorStep, StampedMirror DEF Facts, Mirrored
<1>7. QED
  BY <1>4, <1>6

LEMMA SweepChecksFacts == ASSUME Facts, Later, SweepChecks PROVE Swept'
<1> DEFINE n == cron.now
           verdict == \A s \in cron.sub : /\ mirror[s] # None
                                          /\ mirror[s].since # NoStamp
                                          /\ Entitled("past_due", mirror[s].since, cron.now)
<1>1. cron \in Run /\ n \in Nat /\ n <= clock /\ cron.pc = "check"
  BY DEF Facts, Swept, Run, SweepChecks
<1>2. Backed(EventStamp(n))
  BY <1>1 DEF Facts, Swept, Backed
<1>3. verdict \in BOOLEAN /\ cron' = [cron EXCEPT !.pc = "put", !.sub = {}, !.verdict = verdict]
  BY DEF SweepChecks
<1> HIDE DEF verdict
<1>4. cron' \in Run /\ cron'.now = n /\ cron'.pc = "put"
  BY <1>1, <1>3 DEF Run
<1>5. QED
  BY <1>1, <1>2, <1>4, SweptStep DEF Facts

LEMMA SweepPutFacts == ASSUME Facts, Later, NEW k \in Keys, SweepPut(k) PROVE Gated' /\ Swept'
<1> DEFINE n == cron.now
           row == Grant(cron.verdict, SweepStamp(n), n, "staleness")
<1>1. /\ cron \in Run /\ n \in Nat /\ n <= clock /\ cron.pc = "put" /\ Upsert(k, row)
      /\ cron' = [cron EXCEPT !.pc = "stale", !.stale = @ \ {k}, !.key = {}, !.verdict = FALSE]
  BY DEF Facts, Swept, Run, SweepPut, SweepPutAs
<1>2. cron' \in Run /\ cron'.now = n /\ cron'.pc = "stale"
  BY <1>1 DEF Run
<1>3. Swept'
  BY <1>1, <1>2, SweptStep DEF Facts
<1>4. cron.verdict \in BOOLEAN /\ SweepStamp(n) \in Nat
  BY <1>1, SweptStamps DEF Run
<1>5. /\ row \in GateRow /\ row.active = cron.verdict /\ row.observed = SweepStamp(n) /\ row.synced = n
      /\ row.by = "staleness"
  BY <1>1, <1>4 DEF Grant, GateRow
<1> HIDE DEF row
<1>6. Founded(k, row)
  BY <1>1, <1>5 DEF Founded, Facts, Swept
<1>7. Gated'
  BY <1>1, <1>5, <1>6, GateUpsert DEF Facts
<1>8. QED
  BY <1>3, <1>7

LEMMA RevokeFacts == ASSUME Facts, Later, NEW k \in Keys, Revoke(k) PROVE Gated' /\ Swept'
<1> DEFINE n == cron.now
           row == Grant(FALSE, SweepStamp(n), n, "grace")
<1>1. /\ cron \in Run /\ n \in Nat /\ n <= clock /\ cron.pc = "revoke" /\ Upsert(k, row)
      /\ cron' = [cron EXCEPT !.key = @ \ {k}]
  BY DEF Facts, Swept, Run, Revoke, RevokeAs
<1>2. cron' \in Run /\ cron'.now = n /\ cron'.pc = "revoke"
  BY <1>1 DEF Run
<1>3. Swept'
  BY <1>1, <1>2, SweptStep DEF Facts
<1>4. SweepStamp(n) \in Nat
  BY <1>1, SweptStamps
<1>5. row \in GateRow /\ row.active = FALSE /\ row.synced = n
  BY <1>1, <1>4 DEF Grant, GateRow
<1> HIDE DEF row
<1>6. Founded(k, row)
  BY <1>1, <1>5 DEF Founded
<1>7. Gated'
  BY <1>1, <1>5, <1>6, GateUpsert DEF Facts
<1>8. QED
  BY <1>3, <1>7

LEMMA GraceFacts ==
    ASSUME Facts, Later, ListOverGrace \/ (\E s \in Subs : ListActive(s)) \/ NextOverGrace \/ SkipRow PROVE Swept'
<1>1. cron \in Run /\ cron.now \in Nat /\ cron.now <= clock
  BY DEF Facts, Swept, Run
<1>2. CronIdle \in Run /\ CronIdle.now = 0 /\ CronIdle.pc = "idle" /\ clock \in Nat
  BY DEF CronIdle, Run, Facts, Clocked
<1>3. CASE cron' = CronIdle
  BY <1>2, <1>3, SweptStep DEF Facts
<1>4. CASE cron' \in Run /\ cron'.now = cron.now /\ cron'.pc \in {"stale", "grace", "revoke"}
  BY <1>1, <1>4, SweptStep DEF Facts
<1>5. CASE ListOverGrace
  <2>1. OverGrace(cron.now) \in SUBSET Subs
    BY DEF OverGrace
  <2>2. QED
    BY <1>1, <1>3, <1>4, <1>5, <2>1 DEF ListOverGrace, Run
<1>6. ASSUME NEW s \in Subs, ListActive(s) PROVE Swept'
  <2>1. {k \in Keys : Open(k)} \in SUBSET Keys
    OBVIOUS
  <2>2. cron' \in Run /\ cron'.now = cron.now /\ cron'.pc = "revoke"
    BY <1>1, <1>6, <2>1 DEF ListActive, Run
  <2>3. QED
    BY <1>4, <2>2
<1>7. CASE NextOverGrace
  BY <1>1, <1>3, <1>4, <1>7 DEF NextOverGrace, Run
<1>8. CASE SkipRow
  <2>1. CASE cron' = [cron EXCEPT !.pc = "stale", !.stale = @ \ cron.key, !.key = {}, !.sub = {}, !.verdict = FALSE]
    <3>1. cron' \in Run /\ cron'.now = cron.now /\ cron'.pc = "stale"
      BY <1>1, <2>1 DEF Run
    <3>2. QED
      BY <1>4, <3>1
  <2>2. CASE cron.pc = "revoke" /\ cron' = [cron EXCEPT !.key = {}]
    <3>1. cron' \in Run /\ cron'.now = cron.now /\ cron'.pc = "revoke"
      BY <1>1, <2>2 DEF Run
    <3>2. QED
      BY <1>4, <3>1
  <2>3. QED
    BY <1>3, <1>8, <2>1, <2>2 DEF SkipRow
<1>9. QED
  BY <1>5, <1>6, <1>7, <1>8
-----------------------------------------------------------------------------
(* Every step keeps what the requests, the rows and the cron rely on *)

LEMMA MirrorStays == ASSUME Clocked, Later, Mirrored, mirror' = mirror PROVE Mirrored'
BY MirrorStep DEF Mirrored

LEMMA Attended ==
    ASSUME Facts, Still, NEW w \in Workers, \E h : Attends(w, h), Mirrored', Gated', cron' = cron
    PROVE  Facts'
<1>1. Clocked' /\ History' /\ Later
  BY StillFacts DEF Facts
<1>2. PICK h : InHand(h) /\ Rehandled(w, h)
  BY DEF Attends
<1>3. Requests'
  BY <1>1, <1>2, RequestsStep DEF Facts
<1>4. QED
  BY <1>1, <1>3, SweptStays DEF Facts

LEMMA ServeFacts ==
    ASSUME Facts, NEW w \in Workers, Serve(w) \/ Fail(w) \/ Die(w) \/ StartSync(w) \/ \E e \in queue : Deliver(w, e)
    PROVE  Facts'
<1>1. queue \subseteq DOMAIN events /\ processed \subseteq DOMAIN events /\ faults \in 0..MaxFaults /\ MaxFaults \in Nat
  BY BillingAssumption DEF Facts, Clocked
<1>2. ASSUME UNCHANGED <<clock, events, queue, processed, faults>> PROVE Still
  BY <1>1, <1>2 DEF Still
<1>3. ASSUME Still PROVE Later /\ (mirror' = mirror => Mirrored') /\ (gate' = gate => Gated')
  BY <1>3, StillFacts, MirrorStays, GateStays DEF Facts
<1>4. CASE Read(w)
  <2>1. Still /\ UNCHANGED <<mirror, gate, cron>>
    BY <1>2, <1>4 DEF Read
  <2>2. QED
    BY <1>3, <1>4, <2>1, ReadFacts, Attended
<1>5. CASE Write(w)
  <2>1. Still /\ UNCHANGED <<gate, cron>>
    BY <1>2, <1>5 DEF Write
  <2>2. QED
    BY <1>3, <1>5, <2>1, WriteFacts, Attended
<1>6. CASE Clear(w)
  <2>1. Still /\ UNCHANGED <<gate, cron>>
    BY <1>2, <1>6 DEF Clear
  <2>2. QED
    BY <1>3, <1>6, <2>1, ClearFacts, Attended
<1>7. CASE Find(w)
  <2>1. Still /\ UNCHANGED <<mirror, gate, cron>>
    BY <1>2, <1>7 DEF Find
  <2>2. QED
    BY <1>3, <1>7, <2>1, FindFacts, Attended
<1>8. CASE Stamp(w)
  <2>1. Still /\ UNCHANGED <<gate, cron>>
    BY <1>2, <1>8 DEF Stamp
  <2>2. QED
    BY <1>3, <1>8, <2>1, StampFacts, Attended
<1>9. ASSUME NEW k \in Keys, GrantKey(w, k) PROVE Facts'
  <2>1. Still /\ UNCHANGED <<mirror, cron>>
    BY <1>2, <1>9 DEF GrantKey
  <2>2. QED
    BY <1>3, <1>9, <2>1, GrantFacts, Attended
<1>10. CASE Answer(w)
  <2>1. Still /\ UNCHANGED <<mirror, gate, cron>>
    BY <1>1, <1>10 DEF Answer, Still
  <2>2. QED
    BY <1>3, <1>10, <2>1, IdleFacts, Attended
<1>11. CASE Release(w)
  <2>1. Still /\ UNCHANGED <<mirror, gate, cron>>
    BY <1>1, <1>11 DEF Release, Still
  <2>2. QED
    BY <1>3, <1>11, <2>1, IdleFacts, Attended
<1>12. CASE Fetch(w)
  <2>1. Still /\ UNCHANGED <<mirror, gate, cron>>
    BY <1>2, <1>12 DEF Fetch, Fetched
  <2>2. QED
    BY <1>3, <1>12, <2>1, FetchFacts, Attended
<1>13. CASE ListRetired(w)
  <2>1. Still /\ UNCHANGED <<mirror, gate, cron>>
    BY <1>2, <1>13 DEF ListRetired
  <2>2. QED
    BY <1>3, <1>13, <2>1, ListRetiredFacts, Attended
<1>14. ASSUME Fault PROVE Still /\ UNCHANGED <<mirror, gate>>
  BY <1>1, <1>14 DEF Fault, Still
<1>15. CASE Fail(w)
  <2>1. Fault /\ cron' = cron
    BY <1>15 DEF Fail
  <2>2. QED
    BY <1>3, <1>14, <1>15, <2>1, FailFacts, Attended
<1>16. CASE Die(w)
  <2>1. Fault /\ cron' = cron
    BY <1>16 DEF Die
  <2>2. QED
    BY <1>3, <1>14, <1>16, <2>1, IdleFacts, Attended
<1>17. CASE StartSync(w)
  <2>1. Still /\ UNCHANGED <<mirror, gate, cron>>
    BY <1>2, <1>17 DEF StartSync
  <2>2. QED
    BY <1>3, <1>17, <2>1, StartSyncFacts, Attended
<1>18. ASSUME NEW e \in queue, Deliver(w, e) PROVE Facts'
  <2>1. Still /\ UNCHANGED <<mirror, gate, cron>> /\ e \in DOMAIN events
    BY <1>1, <1>18 DEF Deliver, Claim, Still
  <2>2. CASE Claim(w, e)
    BY <1>3, <2>1, <2>2, ClaimFacts, Attended
  <2>3. CASE handler' = handler
    <3>1. Clocked' /\ History' /\ Later
      BY <2>1, StillFacts DEF Facts
    <3>2. QED
      BY <1>3, <2>1, <2>3, <3>1, RequestsStay, SweptStays DEF Facts
  <2>4. QED
    BY <1>18, <2>2, <2>3 DEF Deliver
<1>19. QED
  BY <1>4, <1>5, <1>6, <1>7, <1>8, <1>9, <1>10, <1>11, <1>12, <1>13, <1>15, <1>16, <1>17, <1>18 DEF Serve

LEMMA SweepFacts == ASSUME Facts, StartCron \/ Sweep \/ SkipRow PROVE Facts'
<1>1. Still /\ handler' = handler
  <2>1. queue \subseteq DOMAIN events /\ processed \subseteq DOMAIN events /\ faults \in 0..MaxFaults /\ MaxFaults \in Nat
    BY BillingAssumption DEF Facts, Clocked
  <2>2. CASE SkipRow
    BY <2>1, <2>2 DEF SkipRow, Fault, Still
  <2>3. CASE UNCHANGED <<clock, events, queue, processed, handler, faults>>
    BY <2>1, <2>3 DEF Still
  <2>4. CASE StartCron
    BY <2>3, <2>4 DEF StartCron
  <2>5. CASE Sweep
    BY <2>3, <2>5 DEF Sweep, SweepRead, SweepPut, SweepPutAs, Revoke, RevokeAs, SweepStamps, SweepChecks, ListOverGrace,
       NextOverGrace, ListActive
  <2>6. QED
    BY <2>2, <2>4, <2>5
<1>2. Clocked' /\ History' /\ Later
  BY <1>1, StillFacts DEF Facts
<1>3. Requests' /\ (mirror' = mirror => Mirrored') /\ (gate' = gate => Gated')
  BY <1>1, <1>2, RequestsStay, MirrorStays, GateStays DEF Facts
<1>4. CASE StartCron
  BY <1>2, <1>3, <1>4, StartCronFacts DEF StartCron, Facts
<1>5. ASSUME NEW k \in Keys, SweepRead(k) PROVE Facts'
  BY <1>2, <1>3, <1>5, SweepReadFacts DEF SweepRead, Facts
<1>6. ASSUME NEW k \in Keys, SweepPut(k) PROVE Facts'
  BY <1>2, <1>3, <1>6, SweepPutFacts DEF SweepPut, SweepPutAs, Facts
<1>7. ASSUME NEW k \in Keys, Revoke(k) PROVE Facts'
  BY <1>2, <1>3, <1>7, RevokeFacts DEF Revoke, RevokeAs, Facts
<1>8. CASE SweepStamps
  BY <1>2, <1>3, <1>8, SweepStampsFacts DEF SweepStamps, Facts
<1>9. CASE SweepChecks
  BY <1>2, <1>3, <1>9, SweepChecksFacts DEF SweepChecks, Facts
<1>10. CASE ListOverGrace \/ (\E s \in Subs : ListActive(s)) \/ NextOverGrace \/ SkipRow
  <2>1. UNCHANGED <<mirror, gate>>
    BY <1>10 DEF ListOverGrace, ListActive, NextOverGrace, SkipRow, Fault
  <2>2. QED
    BY <1>2, <1>3, <1>10, <2>1, GraceFacts DEF Facts
<1>11. QED
  BY <1>4, <1>5, <1>6, <1>7, <1>8, <1>9, <1>10 DEF Sweep

LEMMA NextFacts == ASSUME Facts, [Next]_vars PROVE Facts'
<1>1. CASE UNCHANGED vars
  <2>1. Still /\ UNCHANGED Tables
    BY <1>1, BillingAssumption DEF vars, Still, Facts, Clocked, Tables
  <2>2. Clocked' /\ History' /\ Later
    BY <2>1, StillFacts DEF Facts
  <2>3. QED
    BY <2>1, <2>2, TablesStay DEF Facts
<1>2. ASSUME NEW s \in Subs, NEW status \in Statuses, NEW plan \in Plans, Change(s, status, plan) PROVE Facts'
  BY <1>2, ChangeFacts
<1>3. ASSUME NEW s \in Payers, NEW kind \in {"paid", "failed"}, NEW keys \in Plans, Invoice(s, kind, keys) PROVE Facts'
  BY <1>3, InvoiceFacts
<1>4. QED
  BY <1>1, <1>2, <1>3, TickFacts, ServeFacts, SweepFacts DEF Next

LEMMA InitFacts == ASSUME Init PROVE Facts /\ OneHolder
<1>1. Clocked
  BY BillingAssumption DEF Init, Clocked
<1>2. History
  BY DEF Init, History
<1>3. Requests
  <2>1. InHand(Idle)
    BY <1>1, IdleInHand
  <2>2. Idle \in Request
    BY <2>1 DEF InHand
  <2>3. QED
    BY <2>1, <2>2 DEF Init, Requests
<1>4. Mirrored /\ Gated
  BY DEF Init, Mirrored, Gated
<1>5. Swept
  BY DEF Init, Swept, CronIdle, Run
<1>6. OneHolder
  BY DEF Init, OneHolder
<1>7. QED
  BY <1>1, <1>2, <1>3, <1>4, <1>5, <1>6 DEF Facts
-----------------------------------------------------------------------------
(* Whose an event is *)

(* A request keeps its event or gives it up.                                 *)
Keeps(w) == \E h : /\ Rehandled(w, h)
                   /\ h.event = 0 \/ (h.event = handler[w].event /\ handler[w].pc # "idle")

LEMMA OnwardEvent == ASSUME NEW h, "event" \in DOMAIN h PROVE Onward(h).event \in {0, h.event}
<1>1. Idle.event = 0
  BY DEF Idle
<1>2. ASSUME NEW pc, NEW at PROVE [h EXCEPT !.at = at, !.pc = pc, !.row = None].event = h.event
  OBVIOUS
<1>3. ASSUME NEW pc PROVE [h EXCEPT !.pc = pc, !.row = None].event = h.event
  OBVIOUS
<1>4. QED
  BY <1>1, <1>2, <1>3 DEF Onward

LEMMA GrantingEvent ==
    ASSUME NEW h \in Request, NEW active PROVE Granting(h, active).event \in {0, h.event}
<1> DEFINE g == [h EXCEPT !.pc = "grant", !.active = active, !.keys = Current(h).keys,
                          !.observed = Current(h).observed]
<1>1. "event" \in DOMAIN g /\ g.event = h.event
  BY DEF Request
<1>2. Granting(h, active) = Onward(g)
  BY DEF Granting
<1> HIDE DEF g
<1>3. QED
  BY <1>1, <1>2, OnwardEvent

LEMMA ServeKeeps == ASSUME Facts, NEW w \in Workers, Serve(w) \/ Fail(w) \/ Die(w) \/ StartSync(w) PROVE Keeps(w)
<1> DEFINE h == handler[w]
<1>1. h \in Request /\ DOMAIN h = DOMAIN Idle /\ Idle.event = 0 /\ "event" \in DOMAIN h
  BY DEF Facts, Requests, Request, Idle
<1>2. ASSUME NEW g, Rehandled(w, g), g.event \in {0, h.event}, h.pc # "idle" PROVE Keeps(w)
  BY <1>2 DEF Keeps
<1>3. ASSUME NEW active, Rehandled(w, Granting(h, active)), h.pc # "idle" PROVE Keeps(w)
  BY <1>1, <1>2, <1>3, GrantingEvent
<1>4. ASSUME Rehandled(w, Idle) PROVE Keeps(w)
  BY <1>1, <1>4 DEF Keeps
<1>5. CASE Read(w)
  <2> DEFINE g == [h EXCEPT !.pc = "write", !.row = mirror[Current(h).sub]]
  <2>1. g.event = h.event
    BY <1>1
  <2>2. Rehandled(w, g) \/ \E active : Rehandled(w, Granting(h, active))
    BY <1>5 DEF Read, Rehandled
  <2>3. h.pc # "idle"
    BY <1>5 DEF Read
  <2> HIDE DEF g, h
  <2>4. QED
    BY <1>2, <1>3, <2>1, <2>2, <2>3
<1>6. CASE Write(w) \/ Clear(w) \/ Stamp(w)
  <2>1. \E active : Rehandled(w, Granting(h, active))
    BY <1>6 DEF Write, Clear, Stamp, Rehandled
  <2>2. h.pc # "idle"
    BY <1>6 DEF Write, Clear, Stamp
  <2> HIDE DEF h
  <2>3. QED
    BY <1>3, <2>1, <2>2
<1>7. CASE Find(w)
  <2> DEFINE g == [h EXCEPT !.pc = "stamp"]
  <2>1. g.event = h.event
    BY <1>1
  <2>2. Rehandled(w, g) \/ \E active : Rehandled(w, Granting(h, active))
    BY <1>7 DEF Find, Rehandled
  <2>3. h.pc # "idle"
    BY <1>7 DEF Find
  <2> HIDE DEF g, h
  <2>4. QED
    BY <1>2, <1>3, <2>1, <2>2, <2>3
<1>8. ASSUME NEW k \in Keys, GrantKey(w, k) PROVE Keeps(w)
  <2> DEFINE g == [h EXCEPT !.keys = @ \ {k}]
  <2>1. g.event = h.event /\ "event" \in DOMAIN g
    BY <1>1
  <2>2. Rehandled(w, Onward(g)) /\ h.pc # "idle"
    BY <1>8 DEF GrantKey, Rehandled
  <2> HIDE DEF g, h
  <2>3. QED
    BY <1>2, <2>1, <2>2, OnwardEvent
<1>9. CASE Answer(w) \/ Release(w) \/ Die(w)
  BY <1>4, <1>9 DEF Answer, Release, Die, Rehandled
<1>10. CASE Fetch(w)
  <2>1. PICK pc, list : handler' = [handler EXCEPT ![w].pc = pc, ![w].list = list]
    BY <1>10 DEF Fetch, Fetched
  <2> DEFINE g == [h EXCEPT !.pc = pc, !.list = list]
  <2>2. g.event = h.event
    BY <1>1
  <2>3. Rehandled(w, g) /\ h.pc # "idle"
    BY <1>10, <2>1 DEF Fetch, Fetched, Rehandled, Facts, Requests
  <2> HIDE DEF g, h
  <2>4. QED
    BY <1>2, <2>2, <2>3
<1>11. CASE ListRetired(w)
  <2> DEFINE kept == {k \in Keys : Open(k)} \ UNION {h.list[i].keys : i \in DOMAIN h.list}
             stamp == ReadStamp(h.now, Len(h.list))
             g == [h EXCEPT !.pc = "retire", !.active = FALSE, !.keys = kept, !.observed = stamp]
  <2>1. g.event = h.event /\ "event" \in DOMAIN g
    BY <1>1
  <2>2. Rehandled(w, Onward(g)) /\ h.pc # "idle"
    BY <1>11 DEF ListRetired, Rehandled
  <2> HIDE DEF g, h
  <2>3. QED
    BY <1>2, <2>1, <2>2, OnwardEvent
<1>12. CASE Fail(w)
  <2> DEFINE g == [Idle EXCEPT !.pc = "release", !.event = h.event]
  <2>1. g.event = h.event /\ h.pc # "idle"
    BY <1>12 DEF Fail, AtDatabase, Idle
  <2>2. Rehandled(w, Idle) \/ Rehandled(w, g)
    BY <1>12 DEF Fail, Rehandled
  <2> HIDE DEF g, h
  <2>3. QED
    BY <1>2, <1>4, <2>1, <2>2
<1>13. CASE StartSync(w)
  <2> DEFINE g == [Idle EXCEPT !.pc = "fetch", !.now = clock]
  <2>1. g.event = 0
    BY DEF Idle
  <2>2. Rehandled(w, g)
    BY <1>13 DEF StartSync, Rehandled
  <2> HIDE DEF g
  <2>3. QED
    BY <2>1, <2>2 DEF Keeps
<1>14. QED
  BY <1>5, <1>6, <1>7, <1>8, <1>9, <1>10, <1>11, <1>12, <1>13 DEF Serve

(* Whoever comes to hold an event claims it, and only its holder gives it back. *)
Taken(v, e) == e \notin processed /\ e \in processed' /\ \A u \in Workers \ {v} : handler'[u] = handler[u]

Holders == /\ \A v \in Workers, e \in DOMAIN events' : Holds(v, e)' => Holds(v, e) \/ Taken(v, e)
           /\ \A e \in processed : e \in processed' \/ \E w \in Workers : Holds(w, e) /\ handler'[w] = Idle

LEMMA NextHolders == ASSUME Facts, [Next]_vars PROVE Holders
<1>1. /\ handler \in [Workers -> Request] /\ processed \subseteq DOMAIN events /\ events \in Seq(Event)
      /\ \A e \in DOMAIN events : e # 0
  BY DEF Facts, Requests, Clocked
<1>a. \A e \in DOMAIN events' : e # 0
  <2>1. Clocked'
    BY NextFacts DEF Facts
  <2>2. events' \in Seq(Event)
    BY <2>1 DEF Clocked
  <2>3. QED
    BY <2>2
<1>2. CASE UNCHANGED <<handler, processed>>
  BY <1>2 DEF Holders, Holds
<1>3. ASSUME NEW w \in Workers, Keeps(w) PROVE \A v \in Workers, e \in DOMAIN events' : Holds(v, e)' => Holds(v, e)
  <2>1. PICK h : Rehandled(w, h) /\ (h.event = 0 \/ (h.event = handler[w].event /\ handler[w].pc # "idle"))
    BY <1>3 DEF Keeps
  <2>2. handler'[w] = h /\ \A v \in Workers \ {w} : handler'[v] = handler[v]
    BY <1>1, <2>1 DEF Rehandled
  <2>3. QED
    BY <1>a, <2>1, <2>2 DEF Holds
<1>4. ASSUME NEW w \in Workers, Serve(w) \/ Fail(w) \/ Die(w) \/ StartSync(w) PROVE Holders
  <2>1. \A v \in Workers, e \in DOMAIN events' : Holds(v, e)' => Holds(v, e)
    BY <1>3, <1>4, ServeKeeps
  <2>2. CASE processed' = processed
    BY <2>1, <2>2 DEF Holders
  <2>3. CASE Release(w)
    <3>1. handler[w].pc = "release" /\ processed' = processed \ {handler[w].event} /\ handler'[w] = Idle
      BY <1>1, <2>3 DEF Release
    <3>2. QED
      BY <2>1, <3>1 DEF Holders, Holds
  <2>4. CASE Fail(w) \/ Die(w) \/ StartSync(w)
    BY <2>2, <2>4 DEF Fail, Die, Fault, StartSync
  <2>5. CASE Serve(w) /\ ~Release(w)
    BY <2>2, <2>5 DEF Serve, Read, Write, Clear, Find, Stamp, GrantKey, Answer, Fetch, Fetched, ListRetired
  <2>6. QED
    BY <1>4, <2>3, <2>4, <2>5
<1>5. ASSUME NEW w \in Workers, NEW e \in queue, Deliver(w, e) PROVE Holders
  <2>1. CASE e \in processed
    BY <1>2, <1>5, <2>1 DEF Deliver
  <2>2. CASE e \notin processed
    <3> DEFINE g == [Idle EXCEPT !.pc = FirstStep(e), !.event = e, !.now = clock, !.list = <<Task(e)>>]
    <3>1. processed' = processed \cup {e} /\ handler' = [handler EXCEPT ![w] = g]
      BY <1>5, <2>2 DEF Deliver, Claim
    <3>2. g.event = e
      BY DEF Idle
    <3> HIDE DEF g
    <3>3. handler'[w] = g /\ \A v \in Workers \ {w} : handler'[v] = handler[v]
      BY <1>1, <3>1
    <3>4. \A v \in Workers, f \in DOMAIN events' : Holds(v, f)' => Holds(v, f) \/ (v = w /\ f = e)
      BY <3>2, <3>3 DEF Holds
    <3>5. Taken(w, e)
      BY <2>2, <3>1, <3>3 DEF Taken
    <3>6. QED
      BY <3>1, <3>4, <3>5 DEF Holders
  <2>3. QED
    BY <2>1, <2>2
<1>6. CASE StartCron \/ Sweep \/ SkipRow
  BY <1>2, <1>6 DEF StartCron, Sweep, SkipRow, Fault, SweepRead, SweepPut, SweepPutAs, Revoke, RevokeAs, SweepStamps,
     SweepChecks, ListOverGrace, NextOverGrace, ListActive
<1>7. CASE Tick \/ UNCHANGED vars
  BY <1>2, <1>7 DEF Tick, vars
<1>8. ASSUME NEW s \in Subs, NEW status, NEW keys, Change(s, status, keys) PROVE Holders
  BY <1>2, <1>8 DEF Change, Create
<1>9. ASSUME NEW s, NEW kind, NEW keys, Invoice(s, kind, keys) PROVE Holders
  BY <1>2, <1>9 DEF Invoice, Create
<1>10. QED
  BY <1>4, <1>5, <1>6, <1>7, <1>8, <1>9 DEF Next

LEMMA NextOneHolder == ASSUME Facts, Facts', OneHolder, Holders PROVE OneHolder'
<1> SUFFICES ASSUME NEW v \in Workers, NEW e \in DOMAIN events', Holds(v, e)'
             PROVE  e \in processed' /\ \A u \in Workers : Holds(u, e)' => u = v
  BY DEF OneHolder
<1>1. \A u \in Workers : Holds(u, e) => e \in processed /\ \A x \in Workers : Holds(x, e) => x = u
  <2> SUFFICES ASSUME NEW u \in Workers, Holds(u, e)
               PROVE  e \in processed /\ \A x \in Workers : Holds(x, e) => x = u
    OBVIOUS
  <2>1. e # 0
    BY DEF Facts, Clocked
  <2>2. e \in DOMAIN events
    BY <2>1 DEF Facts, Requests, InHand, Holds
  <2>3. QED
    BY <2>2 DEF OneHolder
<1>2. handler'[v] # Idle
  BY DEF Holds, Idle
<1>3. CASE Holds(v, e)
  <2>1. e \in processed'
    BY <1>1, <1>2, <1>3 DEF Holders
  <2>2. \A u \in Workers : Holds(u, e)' => u = v
    BY <1>1, <1>3 DEF Holders, Taken
  <2>3. QED
    BY <2>1, <2>2
<1>4. CASE Taken(v, e)
  <2>1. ASSUME NEW u \in Workers, Holds(u, e)', u # v PROVE FALSE
    <3>1. Holds(u, e)
      BY <1>4, <2>1 DEF Taken, Holds
    <3>2. QED
      BY <1>1, <1>4, <3>1 DEF Taken
  <2>2. QED
    BY <1>4, <2>1 DEF Taken
<1>5. QED
  BY <1>3, <1>4 DEF Holders
-----------------------------------------------------------------------------
(* What is proved *)

THEOREM Invariance == Spec => []IInv
<1>1. Init => Facts /\ OneHolder
  BY InitFacts
<1>2. Facts /\ OneHolder /\ [Next]_vars => (Facts /\ OneHolder)'
  BY NextFacts, NextHolders, NextOneHolder
<1>3. Facts /\ OneHolder => IInv
  BY DEF Facts, IInv
<1>4. QED
  BY <1>1, <1>2, <1>3, PTL DEF Spec

(* webhook.ts step 5: of all the deliveries of an event, one at a time runs its writes, and only *)
(* while the row that claims the event is there.                             *)
THEOREM OneDelivery == Spec => []OneHolder
<1>1. IInv => OneHolder
  BY DEF IInv
<1>2. QED
  BY <1>1, Invariance, PTL

(* webhook.ts step 4: the claim of an event that no delivery is at work on stays, and no delivery *)
(* begins its writes again.                                                  *)
THEOREM ClaimsStay == Spec => ClaimStays
<1>1. ASSUME IInv, [Next]_vars
      PROVE  [\A e \in processed : Orphaned(e) => e \in processed' /\ Orphaned(e)']_vars
  <2>1. Facts /\ Holders /\ Facts'
    BY <1>1, NextHolders, NextFacts DEF IInv, Facts
  <2>2. ASSUME NEW e \in processed, Orphaned(e) PROVE e \in processed' /\ Orphaned(e)'
    <3>1. e \in processed'
      BY <2>1, <2>2 DEF Holders, Orphaned
    <3>2. e \in DOMAIN events'
      BY <2>1, <3>1 DEF Facts, Clocked
    <3>3. \A v \in Workers : ~Holds(v, e)'
      BY <2>1, <2>2, <3>2 DEF Holders, Orphaned, Taken
    <3>4. QED
      BY <3>1, <3>3 DEF Orphaned
  <2>3. QED
    BY <2>2
<1>2. QED
  BY <1>1, Invariance, PTL DEF Spec, ClaimStays

(* upsertSubscription: the mirror never outranks an event that describes a later state than its *)
(* own.                                                                      *)
THEOREM MirrorIsHonest == Spec => []MirrorHonest
<1>1. IInv => MirrorHonest
  BY DEF IInv, Mirrored, Sure, MirrorHonest
<1>2. QED
  BY <1>1, Invariance, PTL

(* upsertEntitlement: an open gate rests on a subscription that was active or in dunning when it *)
(* was observed or later, whichever of the webhook, the console and the sweeps wrote it. *)
THEOREM OpenIsHonest == Spec => []OpenHonest
<1>1. ASSUME IInv PROVE OpenHonest
  <2> SUFFICES ASSUME NEW k \in Keys, Open(k)
               PROVE  \/ \E s \in Subs, status \in {"active", "past_due"} :
                           Had(s, status, IF gate[k].by = "staleness" THEN EventStamp(SecondOf(gate[k].observed))
                                                                      ELSE gate[k].observed)
                      \/ gate[k].by = "webhook" /\ Invoiced(k, gate[k].observed)
    BY DEF OpenHonest
  <2>1. Founded(k, gate[k]) /\ gate[k].active
    BY <1>1 DEF IInv, Gated, Open
  <2>2. CASE gate[k].by = "staleness"
    <3>1. PICK n \in Nat : gate[k].observed = SweepStamp(n) /\ Backed(EventStamp(n))
      BY <2>1, <2>2 DEF Founded
    <3>2. SecondOf(gate[k].observed) = n
      BY <3>1, SweptStamps
    <3>3. QED
      BY <2>2, <3>1, <3>2 DEF Backed, Sure
  <2>3. CASE gate[k].by # "staleness"
    BY <2>1, <2>3 DEF Founded, Backed, Sure
  <2>4. QED
    BY <2>2, <2>3
<1>2. QED
  BY <1>1, Invariance, PTL

(* The tables hold rows of their columns, and no instant of theirs is ahead of the clock. *)
THEOREM TypeCorrect == Spec => []TypeOK
<1>1. ASSUME IInv PROVE TypeOK
  <2>1. \A k \in Keys : gate[k] # None => gate[k].synced <= clock
    BY <1>1 DEF IInv, Gated, Founded
  <2>2. QED
    BY <1>1, <2>1 DEF IInv, TypeOK, Clocked, Requests, Mirrored, Gated, Swept
<1>2. QED
  BY <1>1, Invariance, PTL
==============================================================================
