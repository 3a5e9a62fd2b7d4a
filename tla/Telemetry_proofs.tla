-------------------------- MODULE Telemetry_proofs --------------------------
(***************************************************************************)
(* Theorems about Telemetry, for any number of streams, subscribers and    *)
(* events, and whatever the extensions answer.                             *)
(***************************************************************************)
EXTENDS Telemetry, SequenceTheorems, TLAPS

\* A subscriber's record: its batches hold positions in the order of the broadcasts.
SubRecs == [pc : {"select", "drop"}, lock : BOOLEAN, cur : Seq(Nat), sender : {"loop", "idle", "sending", "drop"},
            out : Seq(Nat), delivered : Seq(Nat), lost : SUBSET Nat, overrun : BOOLEAN]

JobRecs == [kind : {"none", "broadcast", "add", "flush"}, by : Callers \cup {<<"none", "none">>},
            ev : Nat, left : SUBSET Subs, rest : Seq(Nat)]

TypeInv ==
    /\ hist \in Seq(EventCategories) /\ buffer \in Seq(Nat) /\ disabled \in BOOLEAN
    /\ subs \subseteq Subs /\ waiting \subseteq Callers
    /\ sub \in [Subs -> SubRecs] /\ job \in JobRecs

\* Every event of one batch was broadcast before every event of another.
Before(a, b) == \A x \in ToSet(a), y \in ToSet(b) : x < y

\* What a subscriber has been given.
Given(r) == ToSet(r.delivered) \cup ToSet(r.out) \cup ToSet(r.cur) \cup r.lost

\* The batches of a subscriber: in order, and none of their events is given up.
Tidy(r) ==
    /\ Increasing(r.delivered) /\ Increasing(r.out) /\ Increasing(r.cur)
    /\ Before(r.delivered, r.out) /\ Before(r.delivered, r.cur) /\ Before(r.out, r.cur)
    /\ r.lost \cap (ToSet(r.delivered) \cup ToSet(r.out) \cup ToSet(r.cur)) = {}
    /\ r.sender # "sending" => r.out = <<>>

Blank(r) == Given(r) = {} /\ r.sender \in {"loop", "idle"} /\ r.cur = <<>>

Wanted(s) == {e \in 1 .. Len(hist) : hist[e] \in Categories[s]}

\* What the holder of the relay's mutex is doing.
JobInv ==
    /\ job.kind # "broadcast" => job.left = {}
    /\ job.kind = "broadcast" => /\ job.by \in Callers /\ job.ev = Len(hist) /\ job.ev > 0
                                 /\ job.left \subseteq subs
                                 /\ \A s \in job.left : Wants(s, hist[job.ev])
    /\ job.kind = "add" => /\ job.by[1] = "subscription" /\ job.by[2] \in subs
                           /\ Increasing(job.rest) /\ ToSet(job.rest) \subseteq 1 .. Len(hist)

\* Until subscribing is turned off the relay keeps every event, in order.
BufferInv == ~ disabled =>
    /\ Increasing(buffer)
    /\ ToSet(buffer) = 1 .. (IF job.kind = "broadcast" THEN Len(hist) - 1 ELSE Len(hist))

\* A sender that broadcasts the loss of its batch has no other.
Reports(s) == job.kind = "broadcast" /\ job.by = <<"sender", s>>
SenderInv == \A s \in Subs :
    /\ <<"sender", s>> \in waiting \/ Reports(s) => sub[s].sender = "drop"
    /\ ~(<<"sender", s>> \in waiting /\ Reports(s))

\* A subscriber has been given what it wants but for what the relay is about to send it, which
\* is later than all it has.
Accounted(s) ==
    /\ s \notin subs => Blank(sub[s])
    /\ s \in subs => Given(sub[s]) \cup Pending(s) = Wanted(s)
    /\ s \in job.left => job.ev \notin Given(sub[s])
    /\ job.kind = "add" /\ job.by[2] = s => \A x \in Given(sub[s]), y \in ToSet(job.rest) : x < y

RelayInv == TypeInv /\ JobInv /\ BufferInv /\ SenderInv
                /\ \A s \in Subs : Tidy(sub[s]) /\ Accounted(s)

-----------------------------------------------------------------------------
(* Sequences of events. *)

LEMMA EmptySeqFacts == ToSet(<<>>) = {} /\ Increasing(<<>>) /\ <<>> \in Seq(Nat)
BY DEF ToSet, Increasing

LEMMA ToSetType ==
    ASSUME NEW q \in Seq(Nat)
    PROVE  ToSet(q) \subseteq Nat
BY DEF ToSet

LEMMA AppendFacts ==
    ASSUME NEW q \in Seq(Nat), NEW e \in Nat
    PROVE  /\ Append(q, e) \in Seq(Nat) /\ Append(q, e) # <<>>
           /\ ToSet(Append(q, e)) = ToSet(q) \cup {e}
           /\ Increasing(q) /\ (\A x \in ToSet(q) : x < e) => Increasing(Append(q, e))
<1> DEFINE a == Append(q, e)
<1>1. /\ a \in Seq(Nat) /\ Len(a) = Len(q) + 1 /\ DOMAIN a = 1 .. Len(q) + 1 /\ DOMAIN q = 1 .. Len(q)
      /\ a[Len(q) + 1] = e /\ Len(q) \in Nat
      /\ \A k \in 1 .. Len(q) : a[k] = q[k]
  BY AppendProperties
<1> HIDE DEF a
<1>2. a # <<>>
  BY <1>1
<1>3. ToSet(a) = ToSet(q) \cup {e}
  <2>1. ASSUME NEW x \in ToSet(a) PROVE x \in ToSet(q) \cup {e}
    BY <1>1, <2>1, SMTT(30) DEF ToSet
  <2>2. ASSUME NEW x \in ToSet(q) PROVE x \in ToSet(a)
    BY <1>1, <2>2 DEF ToSet
  <2>3. e \in ToSet(a)
    BY <1>1 DEF ToSet
  <2> QED
    BY <2>1, <2>2, <2>3
<1>4. ASSUME Increasing(q), \A x \in ToSet(q) : x < e PROVE Increasing(a)
  <2> SUFFICES ASSUME NEW i \in 1 .. Len(a), NEW j \in 1 .. Len(a), i < j PROVE a[i] < a[j]
    BY DEF Increasing
  <2>1. i \in 1 .. Len(q) /\ a[i] = q[i] /\ q[i] \in ToSet(q)
    <3>1. i \in DOMAIN q /\ a[i] = q[i]
      BY <1>1
    <3> QED
      BY <1>1, <3>1 DEF ToSet
  <2>2. CASE j = Len(q) + 1
    BY <1>1, <1>4, <2>1, <2>2
  <2>3. CASE j \in 1 .. Len(q)
    BY <1>1, <1>4, <2>1, <2>3 DEF Increasing
  <2>4. Len(a) = Len(q) + 1 /\ Len(q) \in Nat
    BY <1>1
  <2>5. j = Len(q) + 1 \/ j \in 1 .. Len(q)
    BY <2>4
  <2> QED
    BY <2>2, <2>3, <2>5
<1> QED
  BY <1>1, <1>2, <1>3, <1>4 DEF a

LEMMA HeadTailFacts ==
    ASSUME NEW q \in Seq(Nat), q # <<>>
    PROVE  /\ Tail(q) \in Seq(Nat) /\ Head(q) \in Nat
           /\ ToSet(q) = {Head(q)} \cup ToSet(Tail(q))
           /\ Increasing(q) => Increasing(Tail(q)) /\ \A y \in ToSet(Tail(q)) : Head(q) < y
<1> DEFINE t == Tail(q)
<1>1. /\ t \in Seq(Nat) /\ Len(t) = Len(q) - 1 /\ DOMAIN t = 1 .. Len(q) - 1 /\ DOMAIN q = 1 .. Len(q)
      /\ Head(q) = q[1] /\ Len(q) \in Nat \ {0} /\ Head(q) \in Nat
      /\ \A k \in 1 .. Len(q) - 1 : t[k] = q[k + 1]
  BY HeadTailProperties, EmptySeq, LenProperties
<1> HIDE DEF t
<1>2. \A y \in ToSet(t) : \E k \in 1 .. Len(q) : 1 < k /\ y = q[k]
  <2> SUFFICES ASSUME NEW k \in DOMAIN t PROVE \E j \in 1 .. Len(q) : 1 < j /\ t[k] = q[j]
    BY DEF ToSet
  <2>1. k + 1 \in 1 .. Len(q) /\ 1 < k + 1 /\ t[k] = q[k + 1]
    BY <1>1, SMTT(30)
  <2> QED
    BY <2>1
<1>3. ToSet(q) = {Head(q)} \cup ToSet(t)
  <2>1. ASSUME NEW x \in ToSet(q) PROVE x \in {Head(q)} \cup ToSet(t)
    <3>1. PICK k \in 1 .. Len(q) : x = q[k]
      BY <1>1, <2>1 DEF ToSet
    <3>2. CASE k # 1
      <4>1. k - 1 \in DOMAIN t /\ t[k - 1] = x
        BY <1>1, <3>1, <3>2, SMTT(30)
      <4> QED
        BY <4>1 DEF ToSet
    <3> QED
      BY <1>1, <3>1, <3>2
  <2>2. ToSet(t) \subseteq ToSet(q)
    BY <1>1, <1>2 DEF ToSet
  <2>3. Head(q) \in ToSet(q)
    BY <1>1 DEF ToSet
  <2> QED
    BY <2>1, <2>2, <2>3
<1>4. ASSUME Increasing(q) PROVE Increasing(t) /\ \A y \in ToSet(t) : Head(q) < y
  <2>1. Increasing(t)
    <3> SUFFICES ASSUME NEW i \in 1 .. Len(t), NEW j \in 1 .. Len(t), i < j PROVE t[i] < t[j]
      BY DEF Increasing
    <3>1. i + 1 \in 1 .. Len(q) /\ j + 1 \in 1 .. Len(q) /\ i + 1 < j + 1
      BY <1>1
    <3> QED
      BY <1>1, <1>4, <3>1 DEF Increasing
  <2>2. \A y \in ToSet(t) : Head(q) < y
    BY <1>1, <1>2, <1>4, SMTT(30) DEF Increasing
  <2> QED
    BY <2>1, <2>2
<1> QED
  BY <1>1, <1>3, <1>4 DEF t

LEMMA ConcatFacts ==
    ASSUME NEW a \in Seq(Nat), NEW b \in Seq(Nat)
    PROVE  /\ a \o b \in Seq(Nat) /\ ToSet(a \o b) = ToSet(a) \cup ToSet(b)
           /\ Increasing(a) /\ Increasing(b) /\ Before(a, b) => Increasing(a \o b)
<1> DEFINE c == a \o b
<1>1. /\ c \in Seq(Nat) /\ Len(c) = Len(a) + Len(b) /\ Len(a) \in Nat /\ Len(b) \in Nat
      /\ DOMAIN c = 1 .. Len(a) + Len(b) /\ DOMAIN a = 1 .. Len(a) /\ DOMAIN b = 1 .. Len(b)
      /\ \A i \in 1 .. Len(a) + Len(b) : c[i] = IF i <= Len(a) THEN a[i] ELSE b[i - Len(a)]
  BY ConcatProperties
<1> HIDE DEF c
<1>2. ToSet(c) = ToSet(a) \cup ToSet(b)
  <2>1. ASSUME NEW x \in ToSet(c) PROVE x \in ToSet(a) \cup ToSet(b)
    <3>1. PICK i \in 1 .. Len(a) + Len(b) : x = c[i]
      BY <1>1, <2>1 DEF ToSet
    <3>2. CASE i <= Len(a)
      <4>1. i \in DOMAIN a /\ x = a[i]
        BY <1>1, <3>1, <3>2
      <4> QED
        BY <4>1 DEF ToSet
    <3>3. CASE ~(i <= Len(a))
      <4>1. i - Len(a) \in DOMAIN b /\ x = b[i - Len(a)]
        BY <1>1, <3>1, <3>3
      <4> QED
        BY <4>1 DEF ToSet
    <3> QED
      BY <3>2, <3>3
  <2>2. ASSUME NEW i \in DOMAIN a PROVE a[i] \in ToSet(c)
    <3>1. i \in DOMAIN c /\ c[i] = a[i]
      BY <1>1, <2>2
    <3> QED
      BY <3>1 DEF ToSet
  <2>3. ASSUME NEW i \in DOMAIN b PROVE b[i] \in ToSet(c)
    <3>1. i + Len(a) \in 1 .. Len(a) + Len(b) /\ ~(i + Len(a) <= Len(a)) /\ i + Len(a) - Len(a) = i
      BY <1>1, <2>3
    <3>2. i + Len(a) \in DOMAIN c /\ c[i + Len(a)] = b[i]
      BY <1>1, <3>1
    <3> QED
      BY <3>2 DEF ToSet
  <2>4. ToSet(a) \subseteq ToSet(c) /\ ToSet(b) \subseteq ToSet(c)
    BY <2>2, <2>3 DEF ToSet
  <2> QED
    BY <2>1, <2>4
<1>3. ASSUME Increasing(a), Increasing(b), Before(a, b) PROVE Increasing(c)
  <2> SUFFICES ASSUME NEW i \in 1 .. Len(c), NEW j \in 1 .. Len(c), i < j PROVE c[i] < c[j]
    BY DEF Increasing
  <2>1. CASE j <= Len(a)
    BY <1>1, <1>3, <2>1 DEF Increasing
  <2>2. CASE ~(j <= Len(a)) /\ i <= Len(a)
    <3>1. /\ c[i] = a[i] /\ i \in DOMAIN a
          /\ c[j] = b[j - Len(a)] /\ j - Len(a) \in DOMAIN b
      BY <1>1, <2>2
    <3>2. c[i] \in ToSet(a) /\ c[j] \in ToSet(b)
      BY <3>1 DEF ToSet
    <3> QED
      BY <1>3, <3>2 DEF Before
  <2>3. CASE ~(i <= Len(a))
    <3>1. /\ i \in 1 .. Len(a) + Len(b) /\ j \in 1 .. Len(a) + Len(b)
          /\ ~(i <= Len(a)) /\ ~(j <= Len(a))
      BY <1>1, <2>3
    <3>2. i - Len(a) \in 1 .. Len(b) /\ j - Len(a) \in 1 .. Len(b) /\ i - Len(a) < j - Len(a)
      BY <1>1, <3>1
    <3>3. \A k \in 1 .. Len(a) + Len(b) : ~(k <= Len(a)) => c[k] = b[k - Len(a)]
      BY <1>1
    <3>4. c[i] = b[i - Len(a)] /\ c[j] = b[j - Len(a)]
      BY <3>1, <3>3
    <3> QED
      BY <1>3, <3>2, <3>4 DEF Increasing
  <2> QED
    BY <2>1, <2>2, <2>3
<1> QED
  BY <1>1, <1>2, <1>3 DEF c

-----------------------------------------------------------------------------
(* The batches of a subscriber. *)

\* An event joins the current batch; the batch is handed over, or dropped; a post succeeds, or
\* fails.
Taken(r, e)   == [r EXCEPT !.cur = Append(r.cur, e)]
Passed(r)     == [r EXCEPT !.cur = <<>>, !.sender = "sending", !.out = r.cur]
Dropped(r, l) == [r EXCEPT !.cur = <<>>, !.pc = "drop", !.lock = l, !.lost = @ \cup ToSet(r.cur),
                           !.overrun = TRUE]
Posted(r)     == [r EXCEPT !.sender = "loop", !.delivered = @ \o r.out, !.out = <<>>]
Failed(r)     == [r EXCEPT !.sender = "drop", !.lost = @ \cup ToSet(r.out), !.out = <<>>]

LEMMA RecFields ==
    ASSUME NEW r \in SubRecs
    PROVE  /\ r.cur \in Seq(Nat) /\ r.out \in Seq(Nat) /\ r.delivered \in Seq(Nat)
           /\ r.lost \subseteq Nat /\ Given(r) \subseteq Nat
           /\ ToSet(r.cur) \subseteq Nat /\ ToSet(r.out) \subseteq Nat /\ ToSet(r.delivered) \subseteq Nat
<1>1. r.cur \in Seq(Nat) /\ r.out \in Seq(Nat) /\ r.delivered \in Seq(Nat) /\ r.lost \subseteq Nat
  BY DEF SubRecs
<1>2. ToSet(r.cur) \subseteq Nat /\ ToSet(r.out) \subseteq Nat /\ ToSet(r.delivered) \subseteq Nat
  BY <1>1, ToSetType
<1> QED
  BY <1>1, <1>2 DEF Given

LEMMA TakenTidy ==
    ASSUME NEW r \in SubRecs, Tidy(r), NEW e \in Nat, \A x \in Given(r) : x < e
    PROVE  /\ Taken(r, e) \in SubRecs /\ Tidy(Taken(r, e)) /\ Given(Taken(r, e)) = Given(r) \cup {e}
           /\ Taken(r, e).sender = r.sender
<1> DEFINE t == Taken(r, e)
<1>1. /\ Append(r.cur, e) \in Seq(Nat) /\ ToSet(Append(r.cur, e)) = ToSet(r.cur) \cup {e}
      /\ Increasing(r.cur) /\ (\A x \in ToSet(r.cur) : x < e) => Increasing(Append(r.cur, e))
  BY RecFields, AppendFacts
<1>2. /\ t \in SubRecs /\ t.cur = Append(r.cur, e) /\ t.out = r.out /\ t.delivered = r.delivered
      /\ t.lost = r.lost /\ t.sender = r.sender
  BY <1>1 DEF SubRecs, Taken
<1> HIDE DEF t
<1>3. Given(t) = Given(r) \cup {e}
  BY <1>1, <1>2 DEF Given
<1>4. \A x \in ToSet(r.delivered) \cup ToSet(r.out) \cup ToSet(r.cur) \cup r.lost : x < e /\ x \in Nat
  BY RecFields DEF Given
<1>5. Tidy(t)
  <2>1. Increasing(t.cur)
    BY <1>1, <1>2, <1>4 DEF Tidy
  <2>2. Before(t.delivered, t.cur) /\ Before(t.out, t.cur)
    BY <1>1, <1>2, <1>4 DEF Tidy, Before
  <2>3. e \notin r.lost
    BY <1>4
  <2>4. t.lost \cap (ToSet(t.delivered) \cup ToSet(t.out) \cup ToSet(t.cur)) = {}
    BY <1>1, <1>2, <2>3 DEF Tidy
  <2> QED
    BY <1>2, <2>1, <2>2, <2>4 DEF Tidy
<1> QED
  BY <1>2, <1>3, <1>5 DEF t

LEMMA PassedTidy ==
    ASSUME NEW r \in SubRecs, Tidy(r), r.sender = "idle"
    PROVE  /\ Passed(r) \in SubRecs /\ Tidy(Passed(r)) /\ Given(Passed(r)) = Given(r)
           /\ Passed(r).sender = "sending"
<1> DEFINE t == Passed(r)
<1>1. r.cur \in Seq(Nat) /\ <<>> \in Seq(Nat) /\ ToSet(<<>>) = {} /\ Increasing(<<>>) /\ r.out = <<>>
  BY RecFields, EmptySeqFacts DEF Tidy
<1>2. /\ t \in SubRecs /\ t.cur = <<>> /\ t.out = r.cur /\ t.delivered = r.delivered
      /\ t.lost = r.lost /\ t.sender = "sending"
  BY <1>1 DEF SubRecs, Passed
<1> HIDE DEF t
<1>3. Given(t) = Given(r)
  BY <1>1, <1>2 DEF Given
<1>4. Tidy(t)
  BY <1>1, <1>2 DEF Tidy, Before
<1> QED
  BY <1>2, <1>3, <1>4 DEF t

LEMMA DroppedTidy ==
    ASSUME NEW r \in SubRecs, Tidy(r), NEW l \in BOOLEAN
    PROVE  /\ Dropped(r, l) \in SubRecs /\ Tidy(Dropped(r, l)) /\ Given(Dropped(r, l)) = Given(r)
           /\ Dropped(r, l).sender = r.sender
<1> DEFINE m == [r EXCEPT !.cur = <<>>, !.pc = "drop", !.lock = l]
           t == Dropped(r, l)
<1>1. /\ <<>> \in Seq(Nat) /\ ToSet(<<>>) = {} /\ Increasing(<<>>)
      /\ r.lost \subseteq Nat /\ ToSet(r.cur) \subseteq Nat /\ ToSet(r.delivered) \subseteq Nat
      /\ ToSet(r.out) \subseteq Nat
  BY RecFields, EmptySeqFacts
<1>2. /\ m \in SubRecs /\ m.cur = <<>> /\ m.out = r.out /\ m.delivered = r.delivered
      /\ m.lost = r.lost /\ m.sender = r.sender
  BY <1>1 DEF SubRecs
<1>3. t = [m EXCEPT !.lost = @ \cup ToSet(r.cur), !.overrun = TRUE]
  BY DEF Dropped
<1> HIDE DEF m
<1>4. \A b \in BOOLEAN : [m EXCEPT !.lost = @ \cup ToSet(r.cur), !.overrun = b] \in SubRecs
  BY <1>1, <1>2 DEF SubRecs
<1>5. /\ t \in SubRecs /\ t.cur = <<>> /\ t.out = r.out /\ t.delivered = r.delivered
      /\ t.lost = r.lost \cup ToSet(r.cur) /\ t.sender = r.sender
  BY <1>2, <1>3, <1>4 DEF SubRecs
<1> HIDE DEF t
<1>6. Given(t) = Given(r)
  BY <1>1, <1>5 DEF Given
<1>7. Tidy(t)
  <2>1. \A x \in ToSet(r.cur) : x \notin ToSet(r.delivered) \cup ToSet(r.out)
    BY <1>1 DEF Tidy, Before
  <2> QED
    BY <1>1, <1>5, <2>1 DEF Tidy, Before
<1> QED
  BY <1>5, <1>6, <1>7 DEF t

LEMMA PostedTidy ==
    ASSUME NEW r \in SubRecs, Tidy(r)
    PROVE  Posted(r) \in SubRecs /\ Tidy(Posted(r)) /\ Given(Posted(r)) = Given(r)
<1> DEFINE t == Posted(r)
<1>1. <<>> \in Seq(Nat) /\ ToSet(<<>>) = {} /\ Increasing(<<>>)
  BY EmptySeqFacts
<1>2. /\ r.delivered \o r.out \in Seq(Nat) /\ ToSet(r.delivered \o r.out) = ToSet(r.delivered) \cup ToSet(r.out)
      /\ Increasing(r.delivered \o r.out)
  BY RecFields, ConcatFacts DEF Tidy
<1>3. /\ t \in SubRecs /\ t.cur = r.cur /\ t.out = <<>> /\ t.delivered = r.delivered \o r.out
      /\ t.lost = r.lost /\ t.sender = "loop"
  BY <1>1, <1>2 DEF SubRecs, Posted
<1> HIDE DEF t
<1>4. Given(t) = Given(r)
  BY <1>1, <1>2, <1>3 DEF Given
<1>5. Tidy(t)
  BY <1>1, <1>2, <1>3 DEF Tidy, Before
<1> QED
  BY <1>3, <1>4, <1>5 DEF t

LEMMA FailedTidy ==
    ASSUME NEW r \in SubRecs, Tidy(r)
    PROVE  /\ Failed(r) \in SubRecs /\ Tidy(Failed(r)) /\ Given(Failed(r)) = Given(r)
           /\ Failed(r).sender = "drop"
<1> DEFINE t == Failed(r)
<1>1. /\ <<>> \in Seq(Nat) /\ ToSet(<<>>) = {} /\ Increasing(<<>>)
      /\ r.lost \subseteq Nat /\ ToSet(r.cur) \subseteq Nat /\ ToSet(r.delivered) \subseteq Nat
      /\ ToSet(r.out) \subseteq Nat
  BY RecFields, EmptySeqFacts
<1>2. /\ t \in SubRecs /\ t.cur = r.cur /\ t.out = <<>> /\ t.delivered = r.delivered
      /\ t.lost = r.lost \cup ToSet(r.out) /\ t.sender = "drop"
  BY <1>1 DEF SubRecs, Failed
<1> HIDE DEF t
<1>3. Given(t) = Given(r)
  BY <1>1, <1>2 DEF Given
<1>4. Tidy(t)
  <2>1. \A x \in ToSet(r.out) : x \notin ToSet(r.delivered) \cup ToSet(r.cur)
    BY <1>1 DEF Tidy, Before
  <2> QED
    BY <1>1, <1>2, <2>1 DEF Tidy, Before
<1> QED
  BY <1>2, <1>3, <1>4 DEF t

\* What a step does with the batches of a subscriber: its record is tidy, it has been given g,
\* and only a sender that was idle has changed; nobody but the consumer may have come to wait.
Hands(s, g) ==
    /\ \E r \in SubRecs : /\ SetSub(s, r) /\ Tidy(r) /\ Given(r) = g
                          /\ r.sender = sub[s].sender \/ sub[s].sender = "idle"
    /\ waiting' = waiting \/ waiting' = waiting \cup {<<"consumer", s>>}

LEMMA HandOverHands ==
    ASSUME NEW s \in Subs, sub \in [Subs -> SubRecs], NEW b \in Seq(Nat), NEW l \in BOOLEAN,
           NEW r \in SubRecs, r = [sub[s] EXCEPT !.cur = b], Tidy(r), HandOver(s, b, l)
    PROVE  Hands(s, Given(r))
<1>1. sub[s] \in SubRecs /\ r.cur = b /\ r.sender = sub[s].sender
  BY DEF SubRecs
<1>2. CASE sub[s].sender = "idle"
  <2>1. Passed(r) = [sub[s] EXCEPT !.cur = <<>>, !.sender = "sending", !.out = b]
    BY <1>1 DEF Passed, SubRecs
  <2>2. SetSub(s, Passed(r)) /\ waiting' = waiting
    BY <1>2, <2>1 DEF HandOver
  <2>3. Passed(r) \in SubRecs /\ Tidy(Passed(r)) /\ Given(Passed(r)) = Given(r)
    BY <1>1, <1>2, PassedTidy
  <2> QED
    BY <1>2, <2>2, <2>3 DEF Hands
<1>3. CASE sub[s].sender # "idle"
  <2>1. Dropped(r, l) = [sub[s] EXCEPT !.cur = <<>>, !.pc = "drop", !.lock = l,
                                       !.lost = @ \cup ToSet(b), !.overrun = TRUE]
    BY <1>1 DEF Dropped, SubRecs
  <2>2. SetSub(s, Dropped(r, l)) /\ waiting' = waiting \cup {<<"consumer", s>>}
    BY <1>3, <2>1 DEF HandOver
  <2>3. /\ Dropped(r, l) \in SubRecs /\ Tidy(Dropped(r, l)) /\ Given(Dropped(r, l)) = Given(r)
        /\ Dropped(r, l).sender = r.sender
    BY DroppedTidy
  <2> QED
    BY <1>1, <2>2, <2>3 DEF Hands
<1> QED
  BY <1>2, <1>3

LEMMA CurHands ==
    ASSUME NEW s \in Subs, sub \in [Subs -> SubRecs], Tidy(sub[s]), NEW l \in BOOLEAN,
           HandOver(s, sub[s].cur, l)
    PROVE  Hands(s, Given(sub[s]))
<1>1. /\ sub[s] \in SubRecs /\ sub[s].cur \in Seq(Nat)
      /\ sub[s] = [sub[s] EXCEPT !.cur = sub[s].cur]
  BY DEF SubRecs
<1> QED
  BY <1>1, HandOverHands

LEMMA TakeEventHands ==
    ASSUME NEW s \in Subs, sub \in [Subs -> SubRecs], Tidy(sub[s]), NEW e \in Nat,
           \A x \in Given(sub[s]) : x < e, TakeEvent(s, e)
    PROVE  Hands(s, Given(sub[s]) \cup {e})
<1> DEFINE b == Append(sub[s].cur, e)
           r == Taken(sub[s], e)
<1>1. sub[s] \in SubRecs /\ b \in Seq(Nat)
  BY RecFields, AppendFacts
<1>2. r \in SubRecs /\ Tidy(r) /\ Given(r) = Given(sub[s]) \cup {e} /\ r.sender = sub[s].sender
  BY <1>1, TakenTidy
<1>3. r = [sub[s] EXCEPT !.cur = b]
  BY DEF Taken
<1>4. CASE IsFull(s, b)
  <2>1. HandOver(s, b, TRUE)
    BY <1>4 DEF TakeEvent
  <2> HIDE DEF b, r
  <2> QED
    BY <1>1, <1>2, <1>3, <2>1, HandOverHands
<1>5. CASE ~IsFull(s, b)
  <2>1. SetSub(s, r) /\ waiting' = waiting
    BY <1>3, <1>5 DEF TakeEvent
  <2> HIDE DEF b, r
  <2> QED
    BY <1>2, <2>1 DEF Hands
<1> QED
  BY <1>4, <1>5

-----------------------------------------------------------------------------
(* Steps of the relay. *)

\* A step that changes nothing but who waits, and no sender among them.
LEMMA WaitingStep ==
    ASSUME RelayInv, UNCHANGED <<relay, sub, job>>, waiting' \subseteq Callers,
           \A s \in Subs : <<"sender", s>> \in waiting' => <<"sender", s>> \in waiting
    PROVE  RelayInv'
<1> USE DEF relay
<1>1. TypeInv'
  BY DEF RelayInv, TypeInv
<1>2. JobInv' /\ BufferInv'
  BY DEF RelayInv, JobInv, BufferInv, Wants
<1>3. SenderInv'
  BY DEF RelayInv, SenderInv, Reports
<1>4. ASSUME NEW s \in Subs PROVE (Tidy(sub[s]) /\ Accounted(s))'
  <2>1. Tidy(sub[s]) /\ Accounted(s) /\ sub'[s] = sub[s]
    BY DEF RelayInv
  <2>2. Pending(s)' = Pending(s) /\ Wanted(s)' = Wanted(s)
    BY DEF Pending, Wanted
  <2> QED
    BY <2>1, <2>2 DEF Accounted
<1> QED
  BY <1>1, <1>2, <1>3, <1>4 DEF RelayInv

\* What a step that hands a batch over leaves of the invariants.
LEMMA HandsTyped ==
    ASSUME RelayInv, NEW s \in Subs, NEW g, Hands(s, g)
    PROVE  /\ sub' \in [Subs -> SubRecs] /\ waiting' \subseteq Callers
           /\ Tidy(sub'[s]) /\ Given(sub'[s]) = g
           /\ \A t \in Subs \ {s} : sub'[t] = sub[t]
           /\ \A t \in Subs : <<"sender", t>> \in waiting' => <<"sender", t>> \in waiting
           /\ sub'[s].sender = sub[s].sender \/ sub[s].sender = "idle"
<1>1. sub \in [Subs -> SubRecs] /\ waiting \subseteq Callers
  BY DEF RelayInv, TypeInv
<1>2. PICK r \in SubRecs : /\ SetSub(s, r) /\ Tidy(r) /\ Given(r) = g
                           /\ r.sender = sub[s].sender \/ sub[s].sender = "idle"
  BY DEF Hands
<1>3. waiting' = waiting \/ waiting' = waiting \cup {<<"consumer", s>>}
  BY DEF Hands
<1>4. sub' \in [Subs -> SubRecs] /\ sub'[s] = r /\ \A t \in Subs \ {s} : sub'[t] = sub[t]
  BY <1>1, <1>2 DEF SetSub
<1>5. <<"consumer", s>> \in Callers
  BY DEF Callers
<1>6. waiting' \subseteq Callers /\ \A t \in Subs : <<"sender", t>> \in waiting' => <<"sender", t>> \in waiting
  BY <1>1, <1>3, <1>5
<1> QED
  BY <1>2, <1>4, <1>6

LEMMA HandsSender ==
    ASSUME RelayInv, NEW s \in Subs, NEW g, Hands(s, g), job'.kind = job.kind, job'.by = job.by
    PROVE  SenderInv'
<1>1. /\ \A t \in Subs \ {s} : sub'[t] = sub[t]
      /\ \A t \in Subs : <<"sender", t>> \in waiting' => <<"sender", t>> \in waiting
      /\ sub'[s].sender = sub[s].sender \/ sub[s].sender = "idle"
  BY HandsTyped
<1>2. SUFFICES ASSUME NEW t \in Subs
               PROVE /\ <<"sender", t>> \in waiting' \/ Reports(t)' => sub'[t].sender = "drop"
                     /\ ~(<<"sender", t>> \in waiting' /\ Reports(t)')
  BY DEF SenderInv
<1>3. Reports(t)' = Reports(t)
  BY DEF Reports
<1>4. /\ <<"sender", t>> \in waiting \/ Reports(t) => sub[t].sender = "drop"
      /\ ~(<<"sender", t>> \in waiting /\ Reports(t))
  BY DEF RelayInv, SenderInv
<1>5. sub[t].sender = "drop" => sub'[t].sender = "drop"
  BY <1>1
<1> QED
  BY <1>1, <1>3, <1>4, <1>5

\* A subscriber hands over what it has.
LEMMA OwnHandsStep ==
    ASSUME RelayInv, NEW s \in Subs, s \in subs, Hands(s, Given(sub[s])), UNCHANGED <<relay, job>>
    PROVE  RelayInv'
<1> USE DEF relay
<1>1. /\ sub' \in [Subs -> SubRecs] /\ waiting' \subseteq Callers
      /\ Tidy(sub'[s]) /\ Given(sub'[s]) = Given(sub[s])
      /\ \A t \in Subs \ {s} : sub'[t] = sub[t]
  BY HandsTyped
<1>2. TypeInv'
  BY <1>1 DEF RelayInv, TypeInv
<1>3. JobInv' /\ BufferInv'
  BY DEF RelayInv, JobInv, BufferInv, Wants
<1>4. SenderInv'
  BY HandsSender
<1>5. ASSUME NEW t \in Subs PROVE (Tidy(sub[t]) /\ Accounted(t))'
  <2>1. Tidy(sub[t]) /\ Accounted(t)
    BY DEF RelayInv
  <2>2. Given(sub'[t]) = Given(sub[t]) /\ Tidy(sub'[t]) /\ (t \notin subs => sub'[t] = sub[t])
    BY <1>1, <2>1
  <2>3. Accounted(t)'
    BY <2>1, <2>2 DEF Accounted, Blank, Pending, Wanted
  <2> QED
    BY <2>2, <2>3
<1> QED
  BY <1>2, <1>3, <1>4, <1>5 DEF RelayInv

LEMMA BatchTimerStep ==
    ASSUME RelayInv, NEW s \in Subs, BatchTimer(s)
    PROVE  RelayInv'
<1>1. s \in subs
  BY DEF RelayInv, Accounted, Blank, BatchTimer
<1>2. sub \in [Subs -> SubRecs] /\ Tidy(sub[s])
  BY DEF RelayInv, TypeInv
<1>3. Hands(s, Given(sub[s]))
  BY <1>2, CurHands DEF BatchTimer
<1> QED
  BY <1>1, <1>3, OwnHandsStep DEF BatchTimer

LEMMA FlushSignalsStep ==
    ASSUME RelayInv, NEW s \in Subs, FlushSignals(s)
    PROVE  RelayInv'
<1>1. CASE sub[s].cur = <<>>
  BY <1>1, WaitingStep DEF FlushSignals, RelayInv, TypeInv
<1>2. CASE sub[s].cur # <<>>
  <2>1. s \in subs
    BY <1>2 DEF RelayInv, Accounted, Blank
  <2>2. sub \in [Subs -> SubRecs] /\ Tidy(sub[s])
    BY DEF RelayInv, TypeInv
  <2>3. Hands(s, Given(sub[s]))
    BY <1>2, <2>2, CurHands DEF FlushSignals
  <2> QED
    BY <2>1, <2>3, OwnHandsStep DEF FlushSignals
<1> QED
  BY <1>1, <1>2

\* The sender of a subscriber is done with a batch, or comes to its receive.
LEMMA SentStep ==
    ASSUME RelayInv, NEW s \in Subs, sub[s].sender \in {"loop", "sending"}, NEW r \in SubRecs, SetSub(s, r), Tidy(r),
           Given(r) = Given(sub[s]), UNCHANGED <<relay, job>>,
           \/ waiting' = waiting
           \/ waiting' = waiting \cup {<<"sender", s>>} /\ r.sender = "drop",
           sub[s].sender = "loop" => r.sender = "idle" /\ r.cur = sub[s].cur
    PROVE  RelayInv'
<1> USE DEF relay
<1>1. s \in subs \/ sub[s].sender = "loop"
  BY DEF RelayInv, Accounted, Blank
<1>2. sub \in [Subs -> SubRecs] /\ waiting \subseteq Callers
  BY DEF RelayInv, TypeInv
<1>3. sub' \in [Subs -> SubRecs] /\ sub'[s] = r /\ \A t \in Subs \ {s} : sub'[t] = sub[t]
  BY <1>2 DEF SetSub
<1>4. <<"sender", s>> \in Callers
  BY DEF Callers
<1>5. TypeInv'
  BY <1>2, <1>3, <1>4 DEF RelayInv, TypeInv
<1>6. JobInv' /\ BufferInv'
  BY DEF RelayInv, JobInv, BufferInv, Wants
<1>7. SenderInv'
  <2> SUFFICES ASSUME NEW t \in Subs
               PROVE /\ <<"sender", t>> \in waiting' \/ Reports(t)' => sub'[t].sender = "drop"
                     /\ ~(<<"sender", t>> \in waiting' /\ Reports(t)')
    BY DEF SenderInv
  <2>1. Reports(t)' = Reports(t)
    BY DEF Reports
  <2>2. /\ <<"sender", t>> \in waiting \/ Reports(t) => sub[t].sender = "drop"
        /\ ~(<<"sender", t>> \in waiting /\ Reports(t))
    BY DEF RelayInv, SenderInv
  <2>3. CASE t = s
    BY <1>3, <2>1, <2>2, <2>3
  <2>4. CASE t # s
    <3>1. sub'[t] = sub[t] /\ (<<"sender", t>> \in waiting' => <<"sender", t>> \in waiting)
      BY <1>3, <2>4
    <3> QED
      BY <2>1, <2>2, <3>1
  <2> QED
    BY <2>3, <2>4
<1>8. ASSUME NEW t \in Subs PROVE (Tidy(sub[t]) /\ Accounted(t))'
  <2>1. Tidy(sub[t]) /\ Accounted(t)
    BY DEF RelayInv
  <2>2. Given(sub'[t]) = Given(sub[t]) /\ Tidy(sub'[t])
    BY <1>3, <2>1
  <2>3. t \notin subs => Blank(sub'[t])
    <3>1. t \notin subs => Blank(sub[t])
      BY <2>1 DEF Accounted
    <3>2. CASE t = s
      BY <1>1, <1>3, <2>2, <3>1, <3>2 DEF Blank
    <3>3. CASE t # s
      BY <1>3, <3>1, <3>3
    <3> QED
      BY <3>2, <3>3
  <2>4. Accounted(t)'
    BY <2>1, <2>2, <2>3 DEF Accounted, Pending, Wanted
  <2> QED
    BY <2>2, <2>4
<1> QED
  BY <1>5, <1>6, <1>7, <1>8 DEF RelayInv

LEMMA ReceivesStep ==
    ASSUME RelayInv, NEW s \in Subs, SenderReceives(s)
    PROVE  RelayInv'
<1> DEFINE r == [sub[s] EXCEPT !.sender = "idle"]
<1>1. sub[s] \in SubRecs /\ Tidy(sub[s])
  BY DEF RelayInv, TypeInv
<1>2. SetSub(s, r) /\ UNCHANGED <<relay, job, waiting>> /\ sub[s].sender = "loop"
  BY DEF SenderReceives
<1>3. /\ r \in SubRecs /\ r.sender = "idle" /\ r.cur = sub[s].cur /\ r.out = sub[s].out
      /\ r.delivered = sub[s].delivered /\ r.lost = sub[s].lost
  BY <1>1 DEF SubRecs
<1> HIDE DEF r
<1>4. Tidy(r) /\ Given(r) = Given(sub[s])
  BY <1>1, <1>2, <1>3 DEF Tidy, Given
<1> QED
  BY <1>2, <1>3, <1>4, SentStep

LEMMA SendStep ==
    ASSUME RelayInv, NEW s \in Subs, SendSucceeds(s) \/ SendFails(s)
    PROVE  RelayInv'
<1>1. sub[s] \in SubRecs /\ Tidy(sub[s])
  BY DEF RelayInv, TypeInv
<1>2. CASE SendSucceeds(s)
  <2>1. SetSub(s, Posted(sub[s])) /\ UNCHANGED <<relay, job, waiting>> /\ sub[s].sender = "sending"
    BY <1>2 DEF SendSucceeds, Posted
  <2>2. Posted(sub[s]) \in SubRecs /\ Tidy(Posted(sub[s])) /\ Given(Posted(sub[s])) = Given(sub[s])
    BY <1>1, PostedTidy
  <2> QED
    BY <2>1, <2>2, SentStep
<1>3. CASE SendFails(s)
  <2>1. /\ SetSub(s, Failed(sub[s])) /\ UNCHANGED <<relay, job>> /\ sub[s].sender = "sending"
        /\ waiting' = waiting \cup {<<"sender", s>>}
    BY <1>3 DEF SendFails, Failed
  <2>2. /\ Failed(sub[s]) \in SubRecs /\ Tidy(Failed(sub[s])) /\ Given(Failed(sub[s])) = Given(sub[s])
        /\ Failed(sub[s]).sender = "drop"
    BY <1>1, FailedTidy
  <2> QED
    BY <2>1, <2>2, SentStep
<1> QED
  BY <1>2, <1>3

LEMMA TakeBroadcastStep ==
    ASSUME RelayInv, NEW s \in Subs, TakeBroadcast(s)
    PROVE  RelayInv'
<1> USE DEF relay
<1>1. /\ job.kind = "broadcast" /\ s \in job.left /\ TakeEvent(s, job.ev)
      /\ job' = [job EXCEPT !.left = @ \ {s}] /\ UNCHANGED relay
  BY DEF TakeBroadcast
<1>2. /\ job \in JobRecs /\ sub \in [Subs -> SubRecs] /\ Tidy(sub[s]) /\ Accounted(s)
      /\ JobInv /\ subs \subseteq Subs /\ hist \in Seq(EventCategories)
  BY DEF RelayInv, TypeInv
<1>3. job.ev = Len(hist) /\ job.ev \in Nat /\ s \in subs /\ job.ev > 0
  BY <1>1, <1>2 DEF JobInv, JobRecs
<1>4. \A x \in Given(sub[s]) : x < job.ev
  <2>1. Given(sub[s]) \subseteq 1 .. Len(hist) /\ job.ev \notin Given(sub[s])
    BY <1>1, <1>2, <1>3 DEF Accounted, Wanted
  <2> QED
    BY <1>3, <2>1
<1>5. Hands(s, Given(sub[s]) \cup {job.ev})
  BY <1>1, <1>2, <1>3, <1>4, TakeEventHands
<1>6. /\ sub' \in [Subs -> SubRecs] /\ waiting' \subseteq Callers
      /\ Tidy(sub'[s]) /\ Given(sub'[s]) = Given(sub[s]) \cup {job.ev}
      /\ \A t \in Subs \ {s} : sub'[t] = sub[t]
  BY <1>5, HandsTyped
<1>7. /\ job' \in JobRecs /\ job'.kind = job.kind /\ job'.by = job.by /\ job'.ev = job.ev
      /\ job'.left = job.left \ {s} /\ job'.rest = job.rest
  BY <1>1, <1>2 DEF JobRecs
<1> HIDE DEF relay
<1>8. hist' = hist /\ buffer' = buffer /\ disabled' = disabled /\ subs' = subs
  BY <1>1 DEF relay
<1>9. TypeInv'
  BY <1>6, <1>7, <1>8 DEF RelayInv, TypeInv
<1>10. JobInv'
  BY <1>1, <1>2, <1>7, <1>8 DEF JobInv, Wants
<1>11. BufferInv'
  BY <1>7, <1>8 DEF RelayInv, BufferInv
<1>12. SenderInv'
  BY <1>5, <1>7, HandsSender
<1>13. ASSUME NEW t \in Subs PROVE (Tidy(sub[t]) /\ Accounted(t))'
  <2>1. Tidy(sub[t]) /\ Accounted(t)
    BY DEF RelayInv
  <2>2. CASE t = s
    <3>1. Given(sub'[s]) \cup Pending(s)' = Given(sub[s]) \cup Pending(s)
      BY <1>1, <1>6, <1>7, <1>8 DEF Pending
    <3>2. Accounted(s)'
      BY <1>1, <1>2, <1>3, <1>7, <1>8, <3>1 DEF Accounted, Wanted
    <3> QED
      BY <1>6, <2>2, <3>2
  <2>3. CASE t # s
    <3>1. sub'[t] = sub[t] /\ Pending(t)' = Pending(t)
      BY <1>6, <1>7, <1>8, <2>3 DEF Pending
    <3> QED
      BY <1>7, <1>8, <2>1, <3>1 DEF Accounted, Wanted
  <2> QED
    BY <2>2, <2>3
<1> QED
  BY <1>9, <1>10, <1>11, <1>12, <1>13 DEF RelayInv

LEMMA TakeReplayedStep ==
    ASSUME RelayInv, NEW s \in Subs, TakeReplayed(s)
    PROVE  RelayInv'
<1> DEFINE h == Head(job.rest)
<1>1. /\ job.kind = "add" /\ job.by[2] = s /\ job.rest # <<>>
      /\ job' = [job EXCEPT !.rest = Tail(@)]
  BY DEF TakeReplayed
<1>2. hist' = hist /\ buffer' = buffer /\ disabled' = disabled /\ subs' = subs
  BY DEF TakeReplayed, relay
<1>3. /\ job \in JobRecs /\ sub \in [Subs -> SubRecs] /\ Tidy(sub[s]) /\ Accounted(s)
      /\ JobInv /\ hist \in Seq(EventCategories)
  BY DEF RelayInv, TypeInv
<1>4. /\ job.rest \in Seq(Nat) /\ Increasing(job.rest) /\ ToSet(job.rest) \subseteq 1 .. Len(hist)
      /\ job.left = {} /\ s \in subs
  BY <1>1, <1>3 DEF JobInv, JobRecs
<1>5. /\ Tail(job.rest) \in Seq(Nat) /\ h \in Nat /\ ToSet(job.rest) = {h} \cup ToSet(Tail(job.rest))
      /\ Increasing(Tail(job.rest)) /\ \A y \in ToSet(Tail(job.rest)) : h < y
  BY <1>1, <1>4, HeadTailFacts
<1>6. /\ job' \in JobRecs /\ job'.kind = job.kind /\ job'.by = job.by /\ job'.ev = job.ev
      /\ job'.left = job.left /\ job'.rest = Tail(job.rest)
  BY <1>1, <1>3, <1>5 DEF JobRecs
<1>7. \A x \in Given(sub[s]), y \in ToSet(job.rest) : x < y
  BY <1>1, <1>3 DEF Accounted
<1>8. CASE Wants(s, hist[h])
  <2>1. TakeEvent(s, h)
    BY <1>8 DEF TakeReplayed
  <2> HIDE DEF h
  <2>2. \A x \in Given(sub[s]) : x < h
    BY <1>5, <1>7
  <2>3. Hands(s, Given(sub[s]) \cup {h})
    BY <1>3, <1>5, <2>1, <2>2, TakeEventHands
  <2>4. /\ sub' \in [Subs -> SubRecs] /\ waiting' \subseteq Callers
        /\ Tidy(sub'[s]) /\ Given(sub'[s]) = Given(sub[s]) \cup {h}
        /\ \A t \in Subs \ {s} : sub'[t] = sub[t]
    BY <2>3, HandsTyped
  <2>5. SenderInv'
    BY <1>6, <2>3, HandsSender
  <2>6. TypeInv'
    BY <1>2, <1>6, <2>4 DEF RelayInv, TypeInv
  <2>7. JobInv'
    BY <1>1, <1>2, <1>3, <1>4, <1>5, <1>6 DEF JobInv
  <2>8. BufferInv'
    BY <1>2, <1>6 DEF RelayInv, BufferInv
  <2>9. Accounted(s)'
    <3>1. Given(sub'[s]) \cup Pending(s)' = Given(sub[s]) \cup Pending(s)
      BY <1>1, <1>2, <1>4, <1>5, <1>6, <1>8, <2>4 DEF Pending, Wants
    <3>2. \A x \in Given(sub'[s]), y \in ToSet(Tail(job.rest)) : x < y
      BY <1>5, <1>7, <2>4
    <3> QED
      BY <1>1, <1>2, <1>3, <1>4, <1>6, <3>1, <3>2 DEF Accounted, Wanted
  <2>10. ASSUME NEW t \in Subs, t # s PROVE (Tidy(sub[t]) /\ Accounted(t))'
    <3>1. sub'[t] = sub[t] /\ Pending(t)' = Pending(t) /\ job'.by[2] # t /\ job'.left = {}
      BY <1>1, <1>2, <1>4, <1>6, <2>4, <2>10 DEF Pending
    <3>2. Tidy(sub[t]) /\ Accounted(t)
      BY DEF RelayInv
    <3> QED
      BY <1>2, <3>1, <3>2 DEF Accounted, Wanted
  <2> QED
    BY <2>4, <2>5, <2>6, <2>7, <2>8, <2>9, <2>10 DEF RelayInv
<1>9. CASE ~Wants(s, hist[h])
  <2>1. sub' = sub /\ waiting' = waiting
    BY <1>9 DEF TakeReplayed
  <2> HIDE DEF h
  <2>2. SenderInv'
    BY <1>6, <2>1 DEF RelayInv, SenderInv, Reports
  <2>3. TypeInv'
    BY <1>2, <1>6, <2>1 DEF RelayInv, TypeInv
  <2>4. JobInv'
    BY <1>1, <1>2, <1>3, <1>4, <1>5, <1>6 DEF JobInv
  <2>5. BufferInv'
    BY <1>2, <1>6 DEF RelayInv, BufferInv
  <2>6. Accounted(s)'
    <3>1. Pending(s)' = Pending(s)
      BY <1>1, <1>2, <1>4, <1>5, <1>6, <1>9 DEF Pending, Wants
    <3>2. \A x \in Given(sub[s]), y \in ToSet(Tail(job.rest)) : x < y
      BY <1>5, <1>7
    <3> QED
      BY <1>1, <1>2, <1>3, <1>4, <1>6, <2>1, <3>1, <3>2 DEF Accounted, Wanted
  <2>7. ASSUME NEW t \in Subs, t # s PROVE Accounted(t)'
    <3>1. sub'[t] = sub[t] /\ Pending(t)' = Pending(t) /\ job'.by[2] # t /\ job'.left = {}
      BY <1>1, <1>2, <1>4, <1>6, <2>1, <2>7 DEF Pending
    <3>2. Accounted(t)
      BY DEF RelayInv
    <3> QED
      BY <1>2, <3>1, <3>2 DEF Accounted, Wanted
  <2>8. \A t \in Subs : Tidy(sub'[t])
    BY <2>1 DEF RelayInv
  <2> QED
    BY <2>2, <2>3, <2>4, <2>5, <2>6, <2>7, <2>8 DEF RelayInv
<1> QED
  BY <1>8, <1>9

\* A caller of broadcast is a stream, or works for a subscriber.
LEMMA CallerFacts ==
    ASSUME NEW c \in Callers
    PROVE  /\ c # <<"none", "none">> /\ CategoryOfCall(c) \in EventCategories
           /\ c[1] \in {"subscription", "consumer", "sender"} => c[2] \in Subs /\ c = <<c[1], c[2]>>
<1>1. c \in {"stream"} \X Streams \/ c \in {"subscription", "consumer", "sender"} \X Subs
  BY DEF Callers
<1>2. /\ c = <<c[1], c[2]>> /\ c[1] \in {"stream", "subscription", "consumer", "sender"}
      /\ c[1] = "stream" => c[2] \in Streams
      /\ c[1] # "stream" => c[2] \in Subs
  <2>1. CASE c \in {"stream"} \X Streams
    <3>1. PICK x \in {"stream"}, y \in Streams : c = <<x, y>>
      BY <2>1
    <3> QED
      BY <3>1
  <2>2. CASE c \in {"subscription", "consumer", "sender"} \X Subs
    <3>1. PICK x \in {"subscription", "consumer", "sender"}, y \in Subs : c = <<x, y>>
      BY <2>2
    <3> QED
      BY <3>1
  <2> QED
    BY <1>1, <2>1, <2>2
<1>3. CategoryOfCall(c) \in EventCategories
  BY <1>2, TelemetryAssumption DEF CategoryOfCall, EventCategories
<1>4. c # <<"none", "none">>
  BY <1>2
<1> QED
  BY <1>2, <1>3, <1>4

LEMMA BroadcastLocksStep ==
    ASSUME RelayInv, NEW c \in Callers, BroadcastLocks(c)
    PROVE  RelayInv'
<1> DEFINE k == CategoryOfCall(c)
           n == Len(hist)
<1>1. /\ c \in waiting /\ job = NoJob /\ waiting' = waiting \ {c} /\ hist' = Append(hist, k)
      /\ job' = [NoJob EXCEPT !.kind = "broadcast", !.by = c, !.ev = n + 1,
                              !.left = {s \in subs : Wants(s, k)}]
      /\ buffer' = buffer /\ disabled' = disabled /\ subs' = subs /\ sub' = sub
  BY DEF BroadcastLocks
<1>2. /\ hist \in Seq(EventCategories) /\ subs \subseteq Subs /\ sub \in [Subs -> SubRecs]
      /\ waiting \subseteq Callers
  BY DEF RelayInv, TypeInv
<1>3. k \in EventCategories
  BY CallerFacts
<1> HIDE DEF k
<1>4. /\ hist' \in Seq(EventCategories) /\ n \in Nat /\ Len(hist') = n + 1 /\ hist'[n + 1] = k
      /\ \A e \in 1 .. n : hist'[e] = hist[e]
  BY <1>1, <1>2, <1>3
<1> HIDE DEF n
<1>5. /\ job.kind = "none" /\ job.left = {} /\ job'.kind = "broadcast" /\ job'.by = c /\ job'.ev = n + 1
      /\ job'.left = {s \in subs : Wants(s, k)} /\ job'.rest = <<>>
  BY <1>1 DEF NoJob
<1>6. job' \in JobRecs
  <2>1. job' = [kind |-> "broadcast", by |-> c, ev |-> n + 1, left |-> {s \in subs : Wants(s, k)}, rest |-> <<>>]
    BY <1>1 DEF NoJob
  <2>2. <<>> \in Seq(Nat) /\ {s \in subs : Wants(s, k)} \subseteq Subs
    BY <1>2, EmptySeqFacts
  <2> QED
    BY <1>4, <2>1, <2>2 DEF JobRecs
<1>7. TypeInv'
  BY <1>1, <1>2, <1>4, <1>6 DEF RelayInv, TypeInv
<1>8. JobInv'
  BY <1>1, <1>4, <1>5 DEF JobInv, Wants
<1>9. BufferInv'
  <2>1. ~disabled => Increasing(buffer) /\ ToSet(buffer) = 1 .. n
    BY <1>5 DEF RelayInv, BufferInv, n
  <2> QED
    BY <1>1, <1>4, <1>5, <2>1 DEF BufferInv
<1>10. SenderInv'
  <2> SUFFICES ASSUME NEW t \in Subs
               PROVE /\ <<"sender", t>> \in waiting' \/ Reports(t)' => sub'[t].sender = "drop"
                     /\ ~(<<"sender", t>> \in waiting' /\ Reports(t)')
    BY DEF SenderInv
  <2>1. <<"sender", t>> \in waiting => sub[t].sender = "drop"
    BY DEF RelayInv, SenderInv
  <2>2. Reports(t)' => c = <<"sender", t>>
    BY <1>5 DEF Reports
  <2> QED
    BY <1>1, <2>1, <2>2
<1>11. ASSUME NEW t \in Subs PROVE (Tidy(sub[t]) /\ Accounted(t))'
  <2>1. Tidy(sub[t]) /\ Accounted(t)
    BY DEF RelayInv
  <2>2. Wanted(t)' = Wanted(t) \cup (IF k \in Categories[t] THEN {n + 1} ELSE {})
    BY <1>4 DEF Wanted, n
  <2>3. t \in subs => Given(sub[t]) = Wanted(t)
    BY <1>5, <2>1 DEF Accounted, Pending
  <2>4. t \in subs => Pending(t)' = IF k \in Categories[t] THEN {n + 1} ELSE {}
    BY <1>1, <1>5 DEF Pending, Wants
  <2>5. t \in subs => n + 1 \notin Given(sub[t])
    BY <1>4, <2>3 DEF Wanted, n
  <2>6. Accounted(t)'
    BY <1>1, <1>5, <2>1, <2>2, <2>3, <2>4, <2>5 DEF Accounted
  <2> QED
    BY <1>1, <2>1, <2>6
<1> QED
  BY <1>7, <1>8, <1>9, <1>10, <1>11 DEF RelayInv

\* The caller of a broadcast goes on: its subscriber keeps what it has.
LEMMA ReleaseFacts ==
    ASSUME RelayInv, BroadcastEnds, NEW t \in Subs
    PROVE  /\ sub'[t] \in SubRecs /\ Tidy(sub'[t]) /\ Given(sub'[t]) = Given(sub[t])
           /\ sub'[t].cur = sub[t].cur
           /\ sub'[t].sender = sub[t].sender \/ (Reports(t) /\ sub[t].sender = "drop")
<1> DEFINE s == job.by[2]
<1>1. job.kind = "broadcast" /\ job.by \in Callers
  BY DEF RelayInv, JobInv, BroadcastEnds
<1>2. /\ job.by[1] \in {"subscription", "consumer", "sender"} => s \in Subs /\ job.by = <<job.by[1], s>>
  BY <1>1, CallerFacts
<1>3. sub \in [Subs -> SubRecs] /\ sub[t] \in SubRecs /\ Tidy(sub[t])
  BY DEF RelayInv, TypeInv
<1>4. CASE job.by[1] = "consumer"
  <2>1. sub' = [sub EXCEPT ![s] = [sub[s] EXCEPT !.pc = "select", !.lock = FALSE]]
    BY <1>4 DEF BroadcastEnds, SetSub
  <2>2. CASE t = s
    <3>1. sub'[t] = [sub[t] EXCEPT !.pc = "select", !.lock = FALSE]
      BY <1>2, <1>3, <1>4, <2>1, <2>2
    <3>2. \A b \in BOOLEAN : [sub[t] EXCEPT !.pc = "select", !.lock = b] \in SubRecs
      BY <1>3 DEF SubRecs
    <3>3. /\ sub'[t] \in SubRecs /\ sub'[t].cur = sub[t].cur /\ sub'[t].out = sub[t].out
          /\ sub'[t].delivered = sub[t].delivered /\ sub'[t].lost = sub[t].lost
          /\ sub'[t].sender = sub[t].sender
      BY <1>3, <3>1, <3>2 DEF SubRecs
    <3>4. Given(sub'[t]) = Given(sub[t]) /\ Tidy(sub'[t])
      BY <1>3, <3>3 DEF Given, Tidy
    <3> QED
      BY <3>3, <3>4
  <2>3. CASE t # s
    <3>1. sub'[t] = sub[t]
      BY <1>3, <2>1, <2>3
    <3> QED
      BY <1>3, <3>1
  <2> QED
    BY <2>2, <2>3
<1>5. CASE job.by[1] = "sender"
  <2>1. sub' = [sub EXCEPT ![s] = [sub[s] EXCEPT !.sender = "loop"]]
    BY <1>5 DEF BroadcastEnds, SetSub
  <2>2. CASE t = s
    <3>1. sub'[t] = [sub[t] EXCEPT !.sender = "loop"]
      BY <1>2, <1>3, <1>5, <2>1, <2>2
    <3>2. /\ sub'[t] \in SubRecs /\ sub'[t].cur = sub[t].cur /\ sub'[t].out = sub[t].out
          /\ sub'[t].delivered = sub[t].delivered /\ sub'[t].lost = sub[t].lost
      BY <1>3, <3>1 DEF SubRecs
    <3>3. Reports(t)
      BY <1>1, <1>2, <1>5, <2>2 DEF Reports
    <3>4. sub[t].sender = "drop"
      BY <3>3 DEF RelayInv, SenderInv
    <3> QED
      BY <1>3, <2>1, <3>2, <3>3, <3>4 DEF Given, Tidy
  <2>3. CASE t # s
    <3>1. sub'[t] = sub[t]
      BY <1>3, <2>1, <2>3
    <3> QED
      BY <1>3, <3>1
  <2> QED
    BY <2>2, <2>3
<1>6. CASE job.by[1] \notin {"consumer", "sender"}
  <2>1. sub'[t] = sub[t]
    BY <1>6 DEF BroadcastEnds
  <2> QED
    BY <1>3, <2>1
<1> QED
  BY <1>4, <1>5, <1>6

LEMMA BroadcastEndsStep ==
    ASSUME RelayInv, BroadcastEnds
    PROVE  RelayInv'
<1>1. /\ job.kind = "broadcast" /\ job.left = {} /\ job' = NoJob
      /\ buffer' = IF disabled THEN buffer ELSE Append(buffer, job.ev)
      /\ hist' = hist /\ disabled' = disabled /\ subs' = subs /\ waiting' = waiting
  BY DEF BroadcastEnds
<1>2. job'.kind = "none" /\ job'.left = {} /\ job' \in JobRecs
  BY <1>1, EmptySeqFacts DEF NoJob, JobRecs
<1>3. buffer \in Seq(Nat) /\ job.ev \in Nat /\ job.ev = Len(hist)
  BY <1>1 DEF RelayInv, TypeInv, JobInv, JobRecs
<1>4. \A t \in Subs : /\ sub'[t] \in SubRecs /\ Tidy(sub'[t]) /\ Given(sub'[t]) = Given(sub[t])
                      /\ sub'[t].cur = sub[t].cur
                      /\ sub'[t].sender = sub[t].sender \/ (Reports(t) /\ sub[t].sender = "drop")
  BY ReleaseFacts
<1>5. sub' \in [Subs -> SubRecs]
  <2>1. sub \in [Subs -> SubRecs]
    BY DEF RelayInv, TypeInv
  <2>2. sub' = sub \/ \E x, r : sub' = [sub EXCEPT ![x] = r]
    BY DEF BroadcastEnds, SetSub
  <2>3. sub' = [x \in Subs |-> sub'[x]]
    BY <2>1, <2>2
  <2> QED
    BY <1>4, <2>3
<1>6. buffer' \in Seq(Nat) /\ BufferInv'
  <2>1. CASE disabled
    BY <1>1, <1>3, <2>1 DEF BufferInv
  <2>2. CASE ~disabled
    <3>1. Increasing(buffer) /\ ToSet(buffer) = 1 .. Len(hist) - 1 /\ Len(hist) > 0
      BY <1>1, <2>2 DEF RelayInv, BufferInv, JobInv
    <3>2. buffer' = Append(buffer, job.ev)
      BY <1>1, <2>2
    <3>3. buffer' \in Seq(Nat) /\ ToSet(buffer') = ToSet(buffer) \cup {job.ev} /\ Increasing(buffer')
      BY <1>3, <3>1, <3>2, AppendFacts
    <3>4. ToSet(buffer') = 1 .. Len(hist)
      BY <1>3, <3>1, <3>3
    <3> QED
      BY <1>1, <1>2, <3>3, <3>4 DEF BufferInv
  <2> QED
    BY <2>1, <2>2
<1>7. TypeInv'
  BY <1>1, <1>2, <1>5, <1>6 DEF RelayInv, TypeInv
<1>8. JobInv'
  BY <1>2 DEF JobInv
<1>9. SenderInv'
  <2> SUFFICES ASSUME NEW t \in Subs
               PROVE /\ <<"sender", t>> \in waiting' \/ Reports(t)' => sub'[t].sender = "drop"
                     /\ ~(<<"sender", t>> \in waiting' /\ Reports(t)')
    BY DEF SenderInv
  <2>1. /\ <<"sender", t>> \in waiting => sub[t].sender = "drop"
        /\ ~(<<"sender", t>> \in waiting /\ Reports(t))
    BY DEF RelayInv, SenderInv
  <2>2. ~Reports(t)'
    BY <1>2 DEF Reports
  <2> QED
    BY <1>1, <1>4, <2>1, <2>2
<1>10. ASSUME NEW t \in Subs PROVE Accounted(t)'
  <2>1. Accounted(t)
    BY DEF RelayInv
  <2>2. Pending(t) = {} /\ Pending(t)' = {}
    BY <1>1, <1>2 DEF Pending
  <2>3. t \notin subs => Blank(sub'[t])
    BY <1>4, <2>1 DEF Accounted, Blank
  <2> QED
    BY <1>1, <1>2, <1>4, <2>1, <2>2, <2>3 DEF Accounted, Wanted
<1> QED
  BY <1>4, <1>6, <1>7, <1>8, <1>9, <1>10 DEF RelayInv

LEMMA AddSubscriberStep ==
    ASSUME RelayInv, NEW s \in Subs, AddSubscriber(s)
    PROVE  RelayInv'
<1>1. /\ job = NoJob /\ hist' = hist /\ buffer' = buffer /\ disabled' = disabled
      /\ sub' = sub /\ waiting' = waiting
  BY DEF AddSubscriber
<1>2. CASE Refusal(s) # "adding"
  <2>1. UNCHANGED <<relay, sub, job>> /\ waiting' \subseteq Callers
    BY <1>1, <1>2 DEF AddSubscriber, relay, RelayInv, TypeInv
  <2> QED
    BY <1>1, <2>1, WaitingStep
<1>3. CASE Refusal(s) = "adding"
  <2>1. /\ subs' = subs \cup {s}
        /\ job' = [NoJob EXCEPT !.kind = "add", !.by = <<"subscription", s>>, !.rest = buffer]
    BY <1>3 DEF AddSubscriber
  <2>2. ~disabled /\ s \notin subs
    BY <1>3 DEF Refusal, SameAgent
  <2>3. /\ buffer \in Seq(Nat) /\ hist \in Seq(EventCategories) /\ subs \subseteq Subs
    BY DEF RelayInv, TypeInv
  <2>4. job.kind = "none" /\ job.left = {}
    BY <1>1 DEF NoJob
  <2>5. Increasing(buffer) /\ ToSet(buffer) = 1 .. Len(hist)
    BY <2>2, <2>4 DEF RelayInv, BufferInv
  <2>6. job' = [kind |-> "add", by |-> <<"subscription", s>>, ev |-> 0, left |-> {}, rest |-> buffer]
    BY <2>1 DEF NoJob
  <2>7. <<"subscription", s>> \in Callers
    BY DEF Callers
  <2>8. /\ job' \in JobRecs /\ job'.kind = "add" /\ job'.by = <<"subscription", s>>
        /\ job'.by[1] = "subscription" /\ job'.by[2] = s /\ job'.left = {} /\ job'.rest = buffer
    BY <2>3, <2>6, <2>7 DEF JobRecs
  <2>9. TypeInv'
    BY <1>1, <2>1, <2>3, <2>8 DEF RelayInv, TypeInv
  <2>10. JobInv'
    BY <1>1, <2>1, <2>5, <2>8 DEF JobInv
  <2>11. BufferInv'
    BY <1>1, <2>4, <2>5, <2>8 DEF BufferInv
  <2>12. SenderInv'
    BY <1>1, <2>8 DEF RelayInv, SenderInv, Reports
  <2>13. ASSUME NEW t \in Subs PROVE Accounted(t)'
    <3>1. Accounted(t)
      BY DEF RelayInv
    <3>2. CASE t = s
      <4>1. Given(sub[s]) = {}
        BY <2>2, <3>1, <3>2 DEF Accounted, Blank
      <4>2. Pending(s)' = Wanted(s)'
        BY <1>1, <2>5, <2>8 DEF Pending, Wanted
      <4> QED
        BY <1>1, <2>1, <2>8, <3>2, <4>1, <4>2 DEF Accounted
    <3>3. CASE t # s
      <4>1. Pending(t) = {} /\ Pending(t)' = {}
        BY <2>4, <2>8, <3>3 DEF Pending
      <4> QED
        BY <1>1, <2>1, <2>8, <3>1, <3>3, <4>1 DEF Accounted, Wanted
    <3> QED
      BY <3>2, <3>3
  <2> QED
    BY <1>1, <2>9, <2>10, <2>11, <2>12, <2>13 DEF RelayInv
<1> QED
  BY <1>2, <1>3

\* The mutex is let go, or taken to flush: nobody is owed an event by it.
LEMMA JobStep ==
    ASSUME RelayInv, UNCHANGED <<relay, sub>>, job.kind # "broadcast", job.rest = <<>> \/ job.kind # "add",
           waiting' \subseteq Callers,
           \A s \in Subs : <<"sender", s>> \in waiting' => <<"sender", s>> \in waiting,
           job' = NoJob \/ job' = [NoJob EXCEPT !.kind = "flush"]
    PROVE  RelayInv'
<1>1. hist' = hist /\ buffer' = buffer /\ disabled' = disabled /\ subs' = subs /\ sub' = sub
  BY DEF relay
<1>2. job'.kind \in {"none", "flush"} /\ job'.left = {} /\ job' \in JobRecs
  <2>1. PICK k \in {"none", "flush"} :
            job' = [kind |-> k, by |-> <<"none", "none">>, ev |-> 0, left |-> {}, rest |-> <<>>]
    BY DEF NoJob
  <2> QED
    BY <2>1, EmptySeqFacts DEF JobRecs
<1>3. TypeInv'
  BY <1>1, <1>2 DEF RelayInv, TypeInv
<1>4. JobInv'
  BY <1>2 DEF JobInv
<1>5. BufferInv'
  BY <1>1, <1>2 DEF RelayInv, BufferInv
<1>6. SenderInv'
  BY <1>1, <1>2 DEF RelayInv, SenderInv, Reports
<1>7. ASSUME NEW t \in Subs PROVE Accounted(t)'
  <2>1. Accounted(t) /\ job.left = {}
    BY DEF RelayInv, JobInv
  <2>2. Pending(t) = {} /\ Pending(t)' = {}
    BY <1>2, <2>1, EmptySeqFacts DEF Pending
  <2> QED
    BY <1>1, <1>2, <2>1, <2>2 DEF Accounted, Wanted
<1> QED
  BY <1>1, <1>3, <1>4, <1>5, <1>6, <1>7 DEF RelayInv

-----------------------------------------------------------------------------
(* The invariant. *)

LEMMA RelayInit == Init => RelayInv
<1> SUFFICES ASSUME Init PROVE RelayInv
  OBVIOUS
<1> USE DEF Init, NewRelay
<1>1. NewSubscriber \in SubRecs /\ NoJob \in JobRecs
  BY EmptySeqFacts DEF NewSubscriber, SubRecs, NoJob, JobRecs
<1>2. \A s \in Subs : sub[s] = NewSubscriber
  OBVIOUS
<1>3. TypeInv
  <2>1. hist \in Seq(EventCategories) /\ buffer \in Seq(Nat) /\ subs \subseteq Subs /\ waiting \subseteq Callers
    BY EmptySeqFacts
  <2>2. sub \in [Subs -> SubRecs] /\ job \in JobRecs
    BY <1>1
  <2>3. disabled \in BOOLEAN
    OBVIOUS
  <2> QED
    BY <2>1, <2>2, <2>3 DEF TypeInv
<1>4. job.kind = "none" /\ job.left = {}
  BY DEF NoJob
<1>5. JobInv /\ SenderInv
  BY <1>4 DEF JobInv, SenderInv, Reports
<1>6. BufferInv
  BY <1>4, EmptySeqFacts DEF BufferInv
<1>7. Tidy(NewSubscriber) /\ Blank(NewSubscriber)
  BY EmptySeqFacts DEF Tidy, Blank, Given, Before, NewSubscriber
<1>8. \A s \in Subs : Tidy(sub[s]) /\ Accounted(s)
  BY <1>2, <1>4, <1>7 DEF Accounted
<1> QED
  BY <1>3, <1>5, <1>6, <1>8 DEF RelayInv

LEMMA RelayNext == RelayInv /\ [Next]_vars => RelayInv'
<1> SUFFICES ASSUME RelayInv, [Next]_vars PROVE RelayInv'
  OBVIOUS
<1>1. TypeInv /\ waiting \subseteq Callers /\ job \in JobRecs /\ JobInv
  BY DEF RelayInv, TypeInv
<1>2. CASE UNCHANGED vars
  BY <1>1, <1>2, WaitingStep DEF vars, relay
<1>3. ASSUME NEW p \in Streams, Produce(p) \/ ScanFails(p) PROVE RelayInv'
  <2>1. UNCHANGED <<relay, sub, job>> /\ (waiting' = waiting \/ waiting' = waiting \cup {<<"stream", p>>})
    BY <1>3 DEF Produce, ScanFails
  <2>2. <<"stream", p>> \in Callers
    BY DEF Callers
  <2>3. \A s \in Subs : <<"sender", s>> \in waiting' => <<"sender", s>> \in waiting
    BY <2>1
  <2> QED
    BY <1>1, <2>1, <2>2, <2>3, WaitingStep
<1>4. ASSUME NEW s \in Subs, Subscribe(s) \/ FlushLooks(s) \/ FlushWaits(s) PROVE RelayInv'
  <2>1. UNCHANGED <<relay, sub, job, waiting>>
    BY <1>4 DEF Subscribe, FlushLooks, FlushWaits
  <2> QED
    BY <1>1, <2>1, WaitingStep
<1>5. CASE Flush \/ FlushExpires
  <2>1. UNCHANGED <<relay, sub, job, waiting>>
    BY <1>5 DEF Flush, FlushExpires
  <2> QED
    BY <1>1, <2>1, WaitingStep
<1>6. CASE FlushLocks
  <2>1. UNCHANGED <<relay, sub, waiting>> /\ job.kind = "none" /\ job' = [NoJob EXCEPT !.kind = "flush"]
    BY <1>6 DEF FlushLocks, NoJob
  <2> QED
    BY <1>1, <2>1, JobStep
<1>7. CASE FlushEnds
  <2>1. UNCHANGED <<relay, sub, waiting>> /\ job.kind = "flush" /\ job' = NoJob
    BY <1>7 DEF FlushEnds
  <2> QED
    BY <1>1, <2>1, JobStep
<1>8. CASE SubscriberAdded
  <2>1. /\ UNCHANGED <<relay, sub>> /\ job.kind = "add" /\ job.rest = <<>> /\ job' = NoJob
        /\ waiting' = waiting \cup {job.by}
    BY <1>8 DEF SubscriberAdded
  <2>2. job.by[1] = "subscription" /\ job.by \in Callers
    <3>1. job.by \in Callers \cup {<<"none", "none">>} /\ job.by[1] = "subscription"
      BY <1>1, <2>1 DEF JobInv, JobRecs
    <3> QED
      BY <3>1
  <2>3. \A s \in Subs : <<"sender", s>> \in waiting' => <<"sender", s>> \in waiting
    BY <2>1, <2>2
  <2> QED
    BY <1>1, <2>1, <2>2, <2>3, JobStep
<1>9. CASE TurnOff
  <2>1. /\ job = NoJob /\ disabled' = TRUE /\ buffer' = <<>>
        /\ UNCHANGED <<hist, subs, sub, waiting, job>>
    BY <1>9 DEF TurnOff, DisableAddSubscriber
  <2>2. TypeInv'
    BY <1>1, <2>1, EmptySeqFacts DEF TypeInv
  <2>3. JobInv' /\ BufferInv'
    BY <1>1, <2>1 DEF JobInv, BufferInv, Wants
  <2>4. SenderInv'
    BY <2>1 DEF RelayInv, SenderInv, Reports
  <2>5. \A s \in Subs : (Tidy(sub[s]) /\ Accounted(s))'
    BY <2>1 DEF RelayInv, Accounted, Pending, Wanted
  <2> QED
    BY <2>2, <2>3, <2>4, <2>5 DEF RelayInv
<1>10. ASSUME NEW c \in Callers, BroadcastLocks(c) PROVE RelayInv'
  BY <1>10, BroadcastLocksStep
<1>11. CASE BroadcastEnds
  BY <1>11, BroadcastEndsStep
<1>12. ASSUME NEW s \in Subs, TakeBroadcast(s) PROVE RelayInv'
  BY <1>12, TakeBroadcastStep
<1>13. ASSUME NEW s \in Subs, TakeReplayed(s) PROVE RelayInv'
  BY <1>13, TakeReplayedStep
<1>14. ASSUME NEW s \in Subs, BatchTimer(s) PROVE RelayInv'
  BY <1>14, BatchTimerStep
<1>15. ASSUME NEW s \in Subs, AddSubscriber(s) PROVE RelayInv'
  BY <1>15, AddSubscriberStep
<1>16. ASSUME NEW s \in Subs, FlushSignals(s) PROVE RelayInv'
  BY <1>16, FlushSignalsStep
<1>17. ASSUME NEW s \in Subs, SendSucceeds(s) \/ SendFails(s) PROVE RelayInv'
  BY <1>17, SendStep
<1>18. ASSUME NEW s \in Subs, SenderReceives(s) PROVE RelayInv'
  BY <1>18, ReceivesStep
<1> QED
  BY <1>2, <1>3, <1>4, <1>5, <1>6, <1>7, <1>8, <1>9, <1>10, <1>11, <1>12, <1>13, <1>14, <1>15, <1>16, <1>17,
     <1>18
  DEF Next, Program, World

LEMMA InvAccounts == RelayInv => EventsAccounted
<1> SUFFICES ASSUME RelayInv, NEW s \in subs
             PROVE LET kept == sub[s].delivered \o sub[s].out \o sub[s].cur IN
                   /\ Increasing(kept) /\ ToSet(kept) \cap sub[s].lost = {}
                   /\ ToSet(kept) \cup sub[s].lost \cup Pending(s)
                        = {e \in 1 .. Len(hist) : hist[e] \in Categories[s]}
  BY DEF EventsAccounted
<1> DEFINE d == sub[s].delivered
           o == sub[s].out
           c == sub[s].cur
<1>1. s \in Subs /\ sub[s] \in SubRecs /\ Tidy(sub[s]) /\ Accounted(s)
  BY DEF RelayInv, TypeInv
<1>2. d \in Seq(Nat) /\ o \in Seq(Nat) /\ c \in Seq(Nat)
  BY <1>1, RecFields
<1>3. /\ Increasing(d) /\ Increasing(o) /\ Increasing(c) /\ Before(d, o) /\ Before(d, c) /\ Before(o, c)
      /\ sub[s].lost \cap (ToSet(d) \cup ToSet(o) \cup ToSet(c)) = {}
  BY <1>1 DEF Tidy
<1>4. ToSet(d) \cup ToSet(o) \cup ToSet(c) \cup sub[s].lost \cup Pending(s) = Wanted(s)
  BY <1>1 DEF Accounted, Given
<1> HIDE DEF d, o, c
<1>5. d \o o \in Seq(Nat) /\ ToSet(d \o o) = ToSet(d) \cup ToSet(o) /\ Increasing(d \o o)
  BY <1>2, <1>3, ConcatFacts
<1>6. Before(d \o o, c)
  BY <1>3, <1>5 DEF Before
<1>7. ToSet((d \o o) \o c) = ToSet(d \o o) \cup ToSet(c) /\ Increasing((d \o o) \o c)
  BY <1>2, <1>3, <1>5, <1>6, ConcatFacts
<1>8. /\ Increasing((d \o o) \o c) /\ ToSet((d \o o) \o c) \cap sub[s].lost = {}
      /\ ToSet((d \o o) \o c) \cup sub[s].lost \cup Pending(s) = Wanted(s)
  BY <1>3, <1>4, <1>5, <1>7
<1> QED
  BY <1>8 DEF d, o, c, Wanted

\* No event is lost without a trace: whatever the interleaving of broadcasts, batches, posts that
\* fail or never end, subscriptions during the init and the flush of a shutdown, each event of a
\* subscriber's categories since the start of the program is delivered to it, on its way or in a
\* batch that was given up, each once and in the order of Relay.broadcast.
THEOREM AllEventsAccounted == Spec => []EventsAccounted
<1>1. Init => RelayInv
  BY RelayInit
<1>2. RelayInv /\ [Next]_vars => RelayInv'
  BY RelayNext
<1>3. RelayInv => EventsAccounted
  BY InvAccounts
<1> QED
  BY <1>1, <1>2, <1>3, PTL DEF Spec
=============================================================================
