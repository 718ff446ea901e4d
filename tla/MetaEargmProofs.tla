-------------------------- MODULE MetaEargmProofs ---------------------------
(***************************************************************************)
(* The meta-EARGM, for every number of EARGMs and every order of messages: *)
(* what it decides from statuses however stale goes one way for each       *)
(* EARGM, and in the order it is meant to.                                 *)
(***************************************************************************)
EXTENDS MetaEargm, EarLemmas

-----------------------------------------------------------------------------
(* The decisions of the meta-EARGM.                                        *)

\* What an EARGM publishes: it has no power to spare while it asks for some,
\* and asks for its default only below it.
Statuses == {"OK", "ASK_DEF", "GREEDY"}
Entry == [id : 1 .. Subs, status : Statuses, requested : Nat, available : Nat, powercap : Nat,
          extra : Nat]
Consistent(s) == /\ s.status # "OK" => s.available = 0
                 /\ s.status = "ASK_DEF" => s.extra = 0

\* What the meta-EARGM knows and decides, for k statuses.
Plan(k) == [ss : [1 .. k -> Entry], action : [1 .. k -> {"NO", "INC", "RED"}],
            value : [1 .. k -> Nat], free : Nat, freeable : Nat, pending : Nat, both : BOOLEAN]

\* Only those that ask are increased, only those that do not are reduced.
Balanced(x, k) ==
    /\ x \in Plan(k) /\ x.both = FALSE
    /\ x.freeable = Total(Field(x.ss, "available"))
    /\ \A i \in 1 .. k : /\ Consistent(x.ss[i])
                         /\ x.action[i] = "INC" => x.ss[i].status # "OK"
                         /\ x.action[i] = "RED" => x.ss[i].status = "OK"

\* A pass over the statuses takes no more than there is, and all of it if it can.
LEMMA InOrder ==
  ASSUME NEW k \in Nat, NEW w \in [1 .. k -> Nat], NEW p \in Nat
  PROVE  /\ TakeInOrder(w, p) \in [1 .. k -> Nat]
         /\ \A i \in 1 .. k : TakeInOrder(w, p)[i] <= w[i]
         /\ Total(w) \in Nat
         /\ Total(TakeInOrder(w, p)) = ear_min(p, Total(w))
  <1> DEFINE t == TakeInOrder(w, p)
  <1>1. DOMAIN w = 1 .. k /\ DOMAIN t = 1 .. k
    BY DEF TakeInOrder
  <1>2. \A i \in 1 .. k : t[i] = ear_min(w[i], ear_max(p - Total(SubSeq(w, 1, i - 1)), 0))
    BY <1>1 DEF TakeInOrder
  <1>3. t = [i \in 1 .. k |-> t[i]]
    BY <1>1 DEF TakeInOrder
  <1> HIDE DEF t
  <1>4. /\ \A i \in 1 .. k : t[i] \in Nat /\ t[i] <= w[i]
        /\ SumFunctionOnSet(t, 1 .. k) = ear_min(p, SumFunctionOnSet(w, 1 .. k))
    BY <1>2, InOrderTotal, Zenon
  <1>5. t \in [1 .. k -> Nat]
    BY <1>3, <1>4
  <1>6. IsFiniteSet(1 .. k)
    BY FS_Interval, 1 \in Int, k \in Int
  <1>7. SumFunctionOnSet(w, 1 .. k) \in Nat
    BY <1>6, SumNat
  <1>8. Total(w) = SumFunctionOnSet(w, 1 .. k) /\ Total(t) = SumFunctionOnSet(t, 1 .. k)
    BY <1>1, TotalIsSum
  <1> QED BY <1>4, <1>5, <1>7, <1>8 DEF t

\* What is left after a pass.
LEMMA LeftOver ==
  ASSUME NEW k \in Nat, NEW w \in [1 .. k -> Nat], NEW t \in [1 .. k -> Nat], NEW v \in [1 .. k -> Nat],
         \A i \in 1 .. k : v[i] = w[i] - t[i]
  PROVE  Total(v) = Total(w) - Total(t) /\ Total(t) \in Nat /\ Total(v) \in Nat
  <1>1. IsFiniteSet(1 .. k)
    BY FS_Interval, 1 \in Int, k \in Int
  <1>2. \A i \in 1 .. k : v[i] \in Int /\ t[i] \in Int /\ w[i] = v[i] + t[i]
    OBVIOUS
  <1>3. SumFunctionOnSet(w, 1 .. k) = SumFunctionOnSet(v, 1 .. k) + SumFunctionOnSet(t, 1 .. k)
    BY <1>1, <1>2, SumPlus
  <1>4. SumFunctionOnSet(v, 1 .. k) \in Nat /\ SumFunctionOnSet(t, 1 .. k) \in Nat
    BY <1>1, SumNat
  <1>5. /\ Total(w) = SumFunctionOnSet(w, 1 .. k) /\ Total(t) = SumFunctionOnSet(t, 1 .. k)
        /\ Total(v) = SumFunctionOnSet(v, 1 .. k)
    BY TotalIsSum
  <1> QED BY <1>3, <1>4, <1>5

\* The fields of the statuses.
LEMMA Fields ==
  ASSUME NEW k \in Nat, NEW ss \in [1 .. k -> Entry]
  PROVE  /\ Field(ss, "available") \in [1 .. k -> Nat]
         /\ \A i \in 1 .. k : Field(ss, "available")[i] = ss[i].available
         /\ Field(ss, "extra") \in [1 .. k -> Nat]
         /\ \A i \in 1 .. k : Field(ss, "extra")[i] = ss[i].extra
         /\ Field(ss, "powercap") \in [1 .. k -> Nat]
  BY DEF Field, Entry

\* Act of meta_reallocate_power, where no entry is turned round.
LEMMA Acts ==
  ASSUME NEW k \in Nat, NEW x \in Plan(k), NEW a \in {"INC", "RED"}, NEW v \in [1 .. k -> Nat],
         x.both = FALSE, \A i \in 1 .. k : v[i] > 0 => x.action[i] \in {"NO", a}
  PROVE  LET y == Act(x, a, v)
         IN  /\ y \in Plan(k) /\ y.both = FALSE
             /\ y.ss = x.ss /\ y.free = x.free /\ y.freeable = x.freeable /\ y.pending = x.pending
             /\ \A i \in 1 .. k : y.action[i] = IF v[i] > 0 THEN a ELSE x.action[i]
  <1> DEFINE A == [i \in DOMAIN x.action |-> IF v[i] > 0 THEN a ELSE x.action[i]]
             V == [i \in DOMAIN x.value |-> x.value[i] + v[i]]
             b == x.both \/ \E i \in DOMAIN v : v[i] > 0 /\ x.action[i] \notin {"NO", a}
  <1>1. x.action \in [1 .. k -> {"NO", "INC", "RED"}] /\ x.value \in [1 .. k -> Nat]
    BY DEF Plan
  <1>2. A \in [1 .. k -> {"NO", "INC", "RED"}] /\ V \in [1 .. k -> Nat]
    BY <1>1
  <1>3. b = FALSE
    OBVIOUS
  <1>4. \A i \in 1 .. k : A[i] = IF v[i] > 0 THEN a ELSE x.action[i]
    BY <1>1
  <1>5. Act(x, a, v) = [x EXCEPT !.action = A, !.value = V, !.both = b]
    BY DEF Act, Plan
  <1> HIDE DEF A, V, b
  <1> QED BY <1>2, <1>3, <1>4, <1>5, Zenon DEF Plan

\* An entry that gives some of the power it has to spare.
LEMMA EntryGives ==
  ASSUME NEW s \in Entry, Consistent(s), NEW r \in Nat, r <= s.available
  PROVE  LET t == [s EXCEPT !.available = @ - r]
         IN  /\ t \in Entry /\ Consistent(t) /\ t.available = s.available - r
             /\ t.status = s.status /\ t.extra = s.extra /\ t.requested = s.requested
             /\ r > 0 => s.status = "OK"
  <1>1. s.available \in Nat /\ s.available - r \in Nat
    BY DEF Entry
  <1>2. r > 0 => s.status = "OK"
    BY <1>1 DEF Consistent
  <1> DEFINE t == [s EXCEPT !.available = @ - r]
  <1>3. /\ t \in Entry /\ t.available = s.available - r
        /\ t.status = s.status /\ t.extra = s.extra /\ t.requested = s.requested
    BY <1>1 DEF Entry
  <1> HIDE DEF t
  <1>4. Consistent(t)
    BY <1>1, <1>3 DEF Consistent
  <1> QED BY <1>2, <1>3, <1>4 DEF t

\* What taking the power p from those that have some to spare makes of x.
FreeableTaken(x, p, y, k) ==
    /\ Balanced(y, k) /\ y.free = x.free
    /\ y.freeable = x.freeable - ear_min(p, x.freeable)
    /\ y.pending = p - ear_min(p, x.freeable)
    /\ \A i \in 1 .. k : /\ y.ss[i].status = x.ss[i].status /\ y.ss[i].extra = x.ss[i].extra
                         /\ y.ss[i].requested = x.ss[i].requested
                         /\ y.action[i] = "INC" => x.action[i] = "INC"

\* That is what reduce_freeable_power does.
LEMMA FreeableReduced ==
  ASSUME NEW k \in Nat, NEW x, Balanced(x, k), NEW p \in Nat, NEW y, y = reduce_freeable_power(x, p)
  PROVE  FreeableTaken(x, p, y, k)
  <1> DEFINE w == Field(x.ss, "available")
             red == TakeInOrder(w, p)
             z == Act(x, "RED", red)
             S == [i \in DOMAIN x.ss |-> [x.ss[i] EXCEPT !.available = @ - red[i]]]
             f == z.freeable - Total(red)
             q == p - Total(red)
  <1>1. /\ x \in Plan(k) /\ x.both = FALSE /\ x.ss \in [1 .. k -> Entry]
        /\ x.freeable = Total(w)
        /\ \A i \in 1 .. k : /\ Consistent(x.ss[i])
                             /\ x.action[i] = "INC" => x.ss[i].status # "OK"
                             /\ x.action[i] = "RED" => x.ss[i].status = "OK"
    BY DEF Balanced, Plan
  <1>2. w \in [1 .. k -> Nat] /\ \A i \in 1 .. k : w[i] = x.ss[i].available
    BY <1>1, Fields, Zenon
  <1> HIDE DEF w
  <1>3. /\ red \in [1 .. k -> Nat] /\ \A i \in 1 .. k : red[i] <= w[i]
        /\ Total(w) \in Nat /\ Total(red) = ear_min(p, Total(w))
    BY <1>2, InOrder, Zenon
  <1> HIDE DEF red
  <1>4. \A i \in 1 .. k : red[i] > 0 => x.ss[i].status = "OK"
    <2> TAKE i \in 1 .. k
    <2>1. /\ x.ss[i] \in Entry /\ Consistent(x.ss[i]) /\ red[i] \in Nat
          /\ red[i] <= x.ss[i].available
      BY <1>1, <1>2, <1>3
    <2> QED BY <2>1, EntryGives, Zenon
  <1>5. \A i \in 1 .. k : red[i] > 0 => x.action[i] \in {"NO", "RED"}
    BY <1>1, <1>4 DEF Plan
  <1>6. /\ z \in Plan(k) /\ z.both = FALSE /\ z.ss = x.ss /\ z.free = x.free /\ z.freeable = x.freeable
        /\ \A i \in 1 .. k : z.action[i] = IF red[i] > 0 THEN "RED" ELSE x.action[i]
    BY <1>1, <1>3, <1>5, Acts, Zenon
  <1> HIDE DEF z
  <1>7. /\ S \in [1 .. k -> Entry]
        /\ \A i \in 1 .. k : /\ S[i].status = x.ss[i].status /\ S[i].extra = x.ss[i].extra
                             /\ S[i].requested = x.ss[i].requested
                             /\ S[i].available = w[i] - red[i] /\ Consistent(S[i])
    <2>1. ASSUME NEW i \in 1 .. k
          PROVE  /\ S[i] \in Entry /\ S[i].status = x.ss[i].status /\ S[i].extra = x.ss[i].extra
                 /\ S[i].requested = x.ss[i].requested
                 /\ S[i].available = w[i] - red[i] /\ Consistent(S[i])
      <3>1. /\ x.ss[i] \in Entry /\ Consistent(x.ss[i]) /\ red[i] \in Nat
            /\ red[i] <= x.ss[i].available
        BY <1>1, <1>2, <1>3
      <3>2. S[i] = [x.ss[i] EXCEPT !.available = @ - red[i]]
        BY <1>1
      <3> HIDE DEF S
      <3> QED BY <1>2, <3>1, <3>2, EntryGives
    <2>2. S = [i \in 1 .. k |-> S[i]]
      BY <1>1
    <2> HIDE DEF S
    <2> QED BY <2>1, <2>2
  <1> HIDE DEF S
  <1>8. y = [z EXCEPT !.ss = S, !.freeable = f, !.pending = q]
    BY DEF reduce_freeable_power, z, S, w, red
  <1>9. Total(red) <= p /\ Total(red) <= Total(w) /\ Total(red) \in Nat
    BY <1>3 DEF ear_min
  <1>10. /\ y \in Plan(k) /\ y.both = FALSE /\ y.ss = S /\ y.free = x.free
         /\ y.freeable = x.freeable - Total(red) /\ y.pending = p - Total(red) /\ y.action = z.action
    <2>1. f \in Nat /\ q \in Nat /\ f = x.freeable - Total(red)
      BY <1>1, <1>3, <1>6, <1>9
    <2> HIDE DEF f, q
    <2>2. /\ y \in Plan(k) /\ y.both = z.both /\ y.ss = S /\ y.free = z.free
          /\ y.freeable = f /\ y.pending = q /\ y.action = z.action
      BY <1>6, <1>7, <1>8, <2>1, Zenon DEF Plan
    <2> QED BY <1>6, <2>1, <2>2 DEF q
  <1>11. Total(Field(S, "available")) = Total(w) - Total(red)
    <2>1. /\ Field(S, "available") \in [1 .. k -> Nat]
          /\ \A i \in 1 .. k : Field(S, "available")[i] = w[i] - red[i]
      BY <1>7, Fields
    <2> QED BY <1>2, <1>3, <2>1, LeftOver, Zenon
  <1>12. \A i \in 1 .. k : /\ Consistent(S[i])
                           /\ y.action[i] = "INC" => x.action[i] = "INC" /\ S[i].status # "OK"
                           /\ y.action[i] = "RED" => S[i].status = "OK"
    <2> TAKE i \in 1 .. k
    <2>1. Consistent(S[i])
      BY <1>7
    <2>2. /\ y.action[i] = "INC" => x.action[i] = "INC" /\ S[i].status # "OK"
          /\ y.action[i] = "RED" => S[i].status = "OK"
      BY <1>1, <1>4, <1>6, <1>7, <1>10
    <2> QED BY <2>1, <2>2
  <1>13. Balanced(y, k)
    BY <1>1, <1>10, <1>11, <1>12 DEF Balanced
  <1> QED BY <1>1, <1>3, <1>7, <1>10, <1>12, <1>13 DEF FreeableTaken

\* An entry that is given some of the power it asks for.
LEMMA EntryTakes ==
  ASSUME NEW s \in Entry, Consistent(s), NEW r \in Nat, r <= s.requested
  PROVE  LET t == [s EXCEPT !.requested = @ - r]
         IN  /\ t \in Entry /\ Consistent(t) /\ t.requested = s.requested - r
             /\ t.status = s.status /\ t.extra = s.extra /\ t.available = s.available
  <1>1. s.requested \in Nat /\ s.requested - r \in Nat
    BY DEF Entry
  <1> DEFINE t == [s EXCEPT !.requested = @ - r]
  <1>2. /\ t \in Entry /\ t.requested = s.requested - r
        /\ t.status = s.status /\ t.extra = s.extra /\ t.available = s.available
    BY <1>1 DEF Entry
  <1> HIDE DEF t
  <1>3. Consistent(t)
    BY <1>2 DEF Consistent
  <1> QED BY <1>2, <1>3 DEF t

\* The entries assign_extra_power serves.
Served(s, h) == s.status = "GREEDY" /\ (s.extra > 0) = h

\* What they ask for.
LEMMA Wants ==
  ASSUME NEW k \in Nat, NEW ss \in [1 .. k -> Entry], NEW h \in BOOLEAN
  PROVE  /\ Greedy(ss, h) \in [1 .. k -> Nat]
         /\ \A i \in 1 .. k : Greedy(ss, h)[i] = IF Served(ss[i], h) THEN ss[i].requested ELSE 0
  <1>1. \A i \in 1 .. k : ss[i].requested \in Nat
    BY DEF Entry
  <1>2. Greedy(ss, h) = [i \in 1 .. k |-> IF Served(ss[i], h) THEN ss[i].requested ELSE 0]
    BY Zenon DEF Greedy, Served
  <1> QED BY <1>1, <1>2

\* What giving the power p to those makes of x.
ExtraGiven(x, p, h, y, k) ==
    LET G == Total(Greedy(x.ss, h))
    IN  /\ Balanced(y, k)
        /\ y.free = x.free /\ y.freeable = x.freeable /\ y.pending = x.pending
        /\ G \in Nat /\ Total(Greedy(y.ss, h)) = G - ear_min(p, G)
        /\ \A i \in 1 .. k :
              /\ y.ss[i].status = x.ss[i].status /\ y.ss[i].extra = x.ss[i].extra
              /\ ~Served(x.ss[i], h) => y.ss[i].requested = x.ss[i].requested
              /\ y.action[i] = "INC" => x.action[i] = "INC" \/ (p > 0 /\ Served(x.ss[i], h))

\* That is what assign_extra_power does.
LEMMA ExtraAssigned ==
  ASSUME NEW k \in Nat, NEW x, Balanced(x, k), NEW p \in Nat, NEW h \in BOOLEAN,
         NEW y, y = assign_extra_power(x, p, h)
  PROVE  ExtraGiven(x, p, h, y, k)
  <1> DEFINE w == Greedy(x.ss, h)
             give == TakeInOrder(w, p)
             z == Act(x, "INC", give)
             S == [i \in DOMAIN x.ss |-> [x.ss[i] EXCEPT !.requested = @ - give[i]]]
  <1>1. /\ x \in Plan(k) /\ x.both = FALSE /\ x.ss \in [1 .. k -> Entry]
        /\ x.freeable = Total(Field(x.ss, "available"))
        /\ \A i \in 1 .. k : /\ Consistent(x.ss[i])
                             /\ x.action[i] = "INC" => x.ss[i].status # "OK"
                             /\ x.action[i] = "RED" => x.ss[i].status = "OK"
    BY DEF Balanced, Plan
  <1>2. /\ w \in [1 .. k -> Nat]
        /\ \A i \in 1 .. k : w[i] = IF Served(x.ss[i], h) THEN x.ss[i].requested ELSE 0
    BY <1>1, Wants
  <1> HIDE DEF w
  <1>3. /\ give \in [1 .. k -> Nat] /\ \A i \in 1 .. k : give[i] <= w[i]
        /\ Total(w) \in Nat /\ Total(give) = ear_min(p, Total(w))
    BY <1>2, InOrder
  <1>4. p = 0 => \A i \in 1 .. k : give[i] = 0
    <2>1. SUFFICES ASSUME p = 0, NEW i \in 1 .. k PROVE give[i] = 0
      OBVIOUS
    <2>2. IsFiniteSet(1 .. k)
      BY FS_Interval, 1 \in Int, k \in Int
    <2> HIDE DEF give
    <2>3. Total(give) = SumFunctionOnSet(give, 1 .. k)
      BY <1>3, TotalIsSum
    <2>4. give[i] <= SumFunctionOnSet(give, 1 .. k)
      BY <1>3, <2>2, SumNat
    <2> QED BY <1>3, <2>1, <2>3, <2>4 DEF ear_min
  <1> HIDE DEF give
  <1>5. \A i \in 1 .. k : /\ give[i] > 0 => p > 0 /\ Served(x.ss[i], h)
                          /\ give[i] <= x.ss[i].requested
    <2> TAKE i \in 1 .. k
    <2>1. x.ss[i].requested \in Nat
      BY <1>1, Zenon DEF Entry
    <2> QED BY <1>2, <1>3, <1>4, <2>1
  <1>6. \A i \in 1 .. k : give[i] > 0 => x.action[i] \in {"NO", "INC"}
    BY <1>1, <1>5 DEF Plan, Served
  <1>7. /\ z \in Plan(k) /\ z.both = FALSE /\ z.ss = x.ss /\ z.free = x.free
        /\ z.freeable = x.freeable /\ z.pending = x.pending
        /\ \A i \in 1 .. k : z.action[i] = IF give[i] > 0 THEN "INC" ELSE x.action[i]
    BY <1>1, <1>3, <1>6, Acts, Zenon
  <1> HIDE DEF z
  <1>8. /\ S \in [1 .. k -> Entry]
        /\ \A i \in 1 .. k : /\ S[i].status = x.ss[i].status /\ S[i].extra = x.ss[i].extra
                             /\ S[i].requested = x.ss[i].requested - give[i]
                             /\ S[i].available = x.ss[i].available /\ Consistent(S[i])
    <2>1. ASSUME NEW i \in 1 .. k
          PROVE  /\ S[i] \in Entry /\ S[i].status = x.ss[i].status /\ S[i].extra = x.ss[i].extra
                 /\ S[i].requested = x.ss[i].requested - give[i]
                 /\ S[i].available = x.ss[i].available /\ Consistent(S[i])
      <3>1. /\ x.ss[i] \in Entry /\ Consistent(x.ss[i]) /\ give[i] \in Nat
            /\ give[i] <= x.ss[i].requested
        BY <1>1, <1>3, <1>5
      <3>2. S[i] = [x.ss[i] EXCEPT !.requested = @ - give[i]]
        BY <1>1
      <3> HIDE DEF S
      <3> QED BY <3>1, <3>2, EntryTakes
    <2>2. S = [i \in 1 .. k |-> S[i]]
      BY <1>1
    <2> HIDE DEF S
    <2> QED BY <2>1, <2>2
  <1> HIDE DEF S
  <1>9. y = [z EXCEPT !.ss = S]
    BY DEF assign_extra_power, z, S, w, give
  <1>10. /\ y \in Plan(k) /\ y.both = FALSE /\ y.ss = S /\ y.free = x.free
         /\ y.freeable = x.freeable /\ y.pending = x.pending /\ y.action = z.action
    <2>1. /\ y \in Plan(k) /\ y.both = z.both /\ y.ss = S /\ y.free = z.free
          /\ y.freeable = z.freeable /\ y.pending = z.pending /\ y.action = z.action
      BY <1>7, <1>8, <1>9, Zenon DEF Plan
    <2> QED BY <1>7, <2>1
  <1>11. Total(Field(S, "available")) = x.freeable
    <2> DEFINE u == Field(S, "available")
               v == Field(x.ss, "available")
    <2>1. u \in [1 .. k -> Nat] /\ \A i \in 1 .. k : u[i] = S[i].available
      BY <1>8, Fields, Zenon
    <2>2. v \in [1 .. k -> Nat] /\ \A i \in 1 .. k : v[i] = x.ss[i].available
      BY <1>1, Fields, Zenon
    <2> HIDE DEF u, v
    <2>3. u = v
      BY <1>8, <2>1, <2>2
    <2> QED BY <1>1, <2>3 DEF u, v
  <1>12. \A i \in 1 .. k :
            /\ y.action[i] = "INC" => x.action[i] = "INC" \/ (p > 0 /\ Served(x.ss[i], h))
            /\ y.action[i] = "INC" => S[i].status # "OK"
            /\ y.action[i] = "RED" => S[i].status = "OK"
    BY <1>1, <1>5, <1>7, <1>8, <1>10 DEF Served
  <1>13. Balanced(y, k)
    BY <1>8, <1>10, <1>11, <1>12 DEF Balanced
  <1>14. Total(Greedy(S, h)) = Total(w) - Total(give)
    <2>1. \A i \in 1 .. k : Served(S[i], h) = Served(x.ss[i], h)
      BY <1>8 DEF Served
    <2>2. /\ Greedy(S, h) \in [1 .. k -> Nat]
          /\ \A i \in 1 .. k : Greedy(S, h)[i] = IF Served(S[i], h) THEN S[i].requested ELSE 0
      BY <1>8, Wants
    <2>3. \A i \in 1 .. k : Greedy(S, h)[i] = w[i] - give[i]
      <3> TAKE i \in 1 .. k
      <3>1. CASE Served(x.ss[i], h)
        BY <1>2, <1>8, <2>1, <2>2, <3>1, Zenon
      <3>2. CASE ~Served(x.ss[i], h)
        BY <1>2, <1>3, <2>1, <2>2, <3>2
      <3> QED BY <3>1, <3>2
    <2> QED BY <1>2, <1>3, <2>2, <2>3, LeftOver, Zenon
  <1>15. \A i \in 1 .. k : ~Served(x.ss[i], h) => S[i].requested = x.ss[i].requested
    <2> TAKE i \in 1 .. k
    <2>1. x.ss[i].requested \in Nat
      BY <1>1 DEF Entry
    <2> QED BY <1>3, <1>5, <1>8, <2>1
  <1> QED BY <1>3, <1>8, <1>10, <1>12, <1>13, <1>14, <1>15 DEF w, ExtraGiven

\* Requests that add up to nothing are none.
LEMMA NoneLeft ==
  ASSUME NEW k \in Nat, NEW ss \in [1 .. k -> Entry], NEW h \in BOOLEAN, Total(Greedy(ss, h)) = 0
  PROVE  \A i \in 1 .. k : Served(ss[i], h) => ss[i].requested = 0
  <1> DEFINE w == Greedy(ss, h)
  <1>1. /\ w \in [1 .. k -> Nat]
        /\ \A i \in 1 .. k : w[i] = IF Served(ss[i], h) THEN ss[i].requested ELSE 0
    BY Wants
  <1>2. IsFiniteSet(1 .. k)
    BY FS_Interval, 1 \in Int, k \in Int
  <1> HIDE DEF w
  <1>3. Total(w) = SumFunctionOnSet(w, 1 .. k)
    BY <1>1, TotalIsSum
  <1>4. \A i \in 1 .. k : w[i] \in Nat /\ w[i] <= SumFunctionOnSet(w, 1 .. k)
    BY <1>1, <1>2, SumNat, Zenon
  <1>5. \A i \in 1 .. k : w[i] = 0
    BY <1>3, <1>4 DEF w
  <1> QED BY <1>1, <1>5

\* What serving those makes of x: all of them are, or there is nothing left.
GreedyDone(x, h, z, k) ==
    /\ Balanced(z, k)
    /\ \A i \in 1 .. k :
          /\ z.ss[i].status = x.ss[i].status /\ z.ss[i].extra = x.ss[i].extra
          /\ ~Served(x.ss[i], h) => z.ss[i].requested = x.ss[i].requested
          /\ z.action[i] = "INC" => \/ x.action[i] = "INC"
                                    \/ (x.free > 0 \/ x.freeable > 0) /\ Served(x.ss[i], h)
    /\ \/ \A i \in 1 .. k : Served(z.ss[i], h) => z.ss[i].requested = 0
       \/ z.free = 0 /\ z.freeable = 0

\* That is what ServeGreedy does.
LEMMA GreedyServed ==
  ASSUME NEW k \in Nat, NEW x, Balanced(x, k), NEW h \in BOOLEAN, NEW z, z = ServeGreedy(x, h)
  PROVE  GreedyDone(x, h, z, k)
  <1> DEFINE wanted == Total(Greedy(x.ss, h))
             a == assign_extra_power(x, x.free, h)
             f == ear_max(a.free - wanted, 0)
             y == [a EXCEPT !.free = f]
             left == Total(Greedy(y.ss, h))
             lent == ear_min(y.freeable, left)
             r == reduce_freeable_power(y, lent)
             b == assign_extra_power(r, lent, h)
  <1>1. x \in Plan(k) /\ x.free \in Nat /\ x.freeable \in Nat /\ x.ss \in [1 .. k -> Entry]
    BY DEF Balanced, Plan
  <1>2. /\ Balanced(a, k)
        /\ a.free = x.free /\ a.freeable = x.freeable
        /\ wanted \in Nat /\ Total(Greedy(a.ss, h)) = wanted - ear_min(x.free, wanted)
        /\ \A i \in 1 .. k :
              /\ a.ss[i].status = x.ss[i].status /\ a.ss[i].extra = x.ss[i].extra
              /\ ~Served(x.ss[i], h) => a.ss[i].requested = x.ss[i].requested
              /\ a.action[i] = "INC" => x.action[i] = "INC" \/ (x.free > 0 /\ Served(x.ss[i], h))
    <2>1. ExtraGiven(x, x.free, h, a, k)
      BY <1>1, ExtraAssigned
    <2> HIDE DEF a
    <2> QED BY <2>1 DEF ExtraGiven
  <1> HIDE DEF a, wanted
  <1>3. f \in Nat
    BY <1>1, <1>2 DEF ear_max
  <1>4. /\ Balanced(y, k) /\ y.free = f /\ y.ss = a.ss /\ y.action = a.action
        /\ y.freeable = x.freeable
    <2>1. a \in Plan(k) /\ f \in Nat /\ y = [a EXCEPT !.free = f]
      BY <1>2, <1>3 DEF Balanced
    <2> HIDE DEF f, y
    <2>2. /\ y \in Plan(k) /\ y.free = f /\ y.ss = a.ss /\ y.action = a.action
          /\ y.freeable = a.freeable /\ y.both = a.both
      BY <2>1, Zenon DEF Plan
    <2> QED BY <1>2, <2>2 DEF Balanced
  <1> HIDE DEF y
  <1>5. left = wanted - ear_min(x.free, wanted) /\ left \in Nat
    BY <1>1, <1>2, <1>4 DEF ear_min
  <1> HIDE DEF left
  <1>6. lent \in Nat /\ (lent > 0 => x.freeable > 0)
    BY <1>1, <1>4, <1>5 DEF ear_min
  <1>7. (f = 0 \/ left = 0)
    BY <1>1, <1>2, <1>5 DEF ear_min, ear_max
  <1> HIDE DEF f, lent
  <1>8. /\ Balanced(r, k) /\ r.free = f
        /\ r.freeable = x.freeable - ear_min(lent, x.freeable)
        /\ \A i \in 1 .. k : /\ r.ss[i].status = y.ss[i].status /\ r.ss[i].extra = y.ss[i].extra
                             /\ r.ss[i].requested = y.ss[i].requested
                             /\ r.action[i] = "INC" => y.action[i] = "INC"
    <2>1. FreeableTaken(y, lent, r, k)
      BY <1>4, <1>6, FreeableReduced
    <2> HIDE DEF r
    <2> QED BY <1>4, <2>1 DEF FreeableTaken
  <1> HIDE DEF r
  <1>9. /\ Balanced(b, k) /\ b.free = f /\ b.freeable = r.freeable
        /\ Total(Greedy(r.ss, h)) \in Nat
        /\ Total(Greedy(b.ss, h)) = Total(Greedy(r.ss, h)) - ear_min(lent, Total(Greedy(r.ss, h)))
        /\ \A i \in 1 .. k :
              /\ b.ss[i].status = r.ss[i].status /\ b.ss[i].extra = r.ss[i].extra
              /\ ~Served(r.ss[i], h) => b.ss[i].requested = r.ss[i].requested
              /\ b.action[i] = "INC" => r.action[i] = "INC" \/ (lent > 0 /\ Served(r.ss[i], h))
    <2>1. ExtraGiven(r, lent, h, b, k)
      BY <1>6, <1>8, ExtraAssigned
    <2> HIDE DEF b
    <2> QED BY <1>8, <2>1 DEF ExtraGiven
  <1> HIDE DEF b
  <1>10. Total(Greedy(r.ss, h)) = left
    <2>1. y.ss \in [1 .. k -> Entry] /\ r.ss \in [1 .. k -> Entry]
      BY <1>4, <1>8 DEF Balanced, Plan
    <2>2. \A i \in 1 .. k : Served(r.ss[i], h) = Served(y.ss[i], h)
      BY <1>8 DEF Served
    <2>3. /\ Greedy(r.ss, h) \in [1 .. k -> Nat] /\ Greedy(y.ss, h) \in [1 .. k -> Nat]
          /\ \A i \in 1 .. k : Greedy(r.ss, h)[i] = Greedy(y.ss, h)[i]
      <3> DEFINE u == Greedy(r.ss, h)
                 v == Greedy(y.ss, h)
      <3>1. /\ u \in [1 .. k -> Nat]
            /\ \A i \in 1 .. k : u[i] = IF Served(r.ss[i], h) THEN r.ss[i].requested ELSE 0
        BY <2>1, Wants
      <3>2. /\ v \in [1 .. k -> Nat]
            /\ \A i \in 1 .. k : v[i] = IF Served(y.ss[i], h) THEN y.ss[i].requested ELSE 0
        BY <2>1, Wants
      <3> HIDE DEF u, v
      <3>3. \A i \in 1 .. k : u[i] = v[i]
        BY <1>8, <2>2, <3>1, <3>2, Zenon
      <3> QED BY <3>1, <3>2, <3>3 DEF u, v
    <2>4. Greedy(r.ss, h) = Greedy(y.ss, h)
      BY <2>3
    <2> QED BY <2>4 DEF left
  <1>11. z = IF wanted = 0 THEN x ELSE IF lent = 0 THEN y ELSE b
    BY DEF ServeGreedy, wanted, a, f, y, left, lent, r, b
  <1>12. CASE wanted = 0
    <2>1. \A i \in 1 .. k : Served(x.ss[i], h) => x.ss[i].requested = 0
      BY <1>1, <1>12, NoneLeft DEF wanted
    <2> QED BY <1>11, <1>12, <2>1 DEF GreedyDone
  <1>13. CASE wanted # 0 /\ lent = 0
    <2>1. left = 0 \/ y.freeable = 0
      BY <1>1, <1>4, <1>5, <1>13 DEF ear_min, lent
    <2>2. left = 0 => \A i \in 1 .. k : Served(y.ss[i], h) => y.ss[i].requested = 0
      <3>1. y.ss \in [1 .. k -> Entry]
        BY <1>4 DEF Balanced, Plan
      <3> QED BY <3>1, NoneLeft DEF left
    <2>3. \/ \A i \in 1 .. k : Served(y.ss[i], h) => y.ss[i].requested = 0
          \/ y.free = 0 /\ y.freeable = 0
      BY <1>4, <1>7, <2>1, <2>2
    <2> QED BY <1>2, <1>4, <1>11, <1>13, <2>3 DEF GreedyDone
  <1>14. CASE wanted # 0 /\ lent # 0
    <2>1. left # 0
      BY <1>1, <1>4, <1>5, <1>14 DEF ear_min, lent
    <2>2. Total(Greedy(b.ss, h)) = 0 \/ b.freeable = 0
      BY <1>1, <1>4, <1>5, <1>8, <1>9, <1>10 DEF ear_min, lent
    <2>3. Total(Greedy(b.ss, h)) = 0 => \A i \in 1 .. k : Served(b.ss[i], h) => b.ss[i].requested = 0
      <3>1. b.ss \in [1 .. k -> Entry]
        BY <1>9 DEF Balanced, Plan
      <3> QED BY <3>1, NoneLeft
    <2>4. \/ \A i \in 1 .. k : Served(b.ss[i], h) => b.ss[i].requested = 0
          \/ b.free = 0 /\ b.freeable = 0
      BY <1>7, <1>9, <2>1, <2>2, <2>3
    <2>5. \A i \in 1 .. k : (Served(r.ss[i], h) <=> Served(x.ss[i], h))
      BY <1>2, <1>4, <1>8 DEF Served
    <2>6. \A i \in 1 .. k :
            /\ b.ss[i].status = x.ss[i].status /\ b.ss[i].extra = x.ss[i].extra
            /\ ~Served(x.ss[i], h) => b.ss[i].requested = x.ss[i].requested
            /\ b.action[i] = "INC" => \/ x.action[i] = "INC"
                                      \/ (x.free > 0 \/ x.freeable > 0) /\ Served(x.ss[i], h)
      BY <1>2, <1>4, <1>6, <1>8, <1>9, <2>5
    <2> QED BY <1>9, <1>11, <1>14, <2>4, <2>6 DEF GreedyDone
  <1> QED BY <1>12, <1>13, <1>14

\* What meta_reallocate_power decides: nobody is both reduced and increased, and
\* those that hold extra power get more only when the others want nothing.
Settled(e, k) ==
    /\ e \in Plan(k) /\ e.both = FALSE
    /\ \A i, j \in 1 .. k :
          /\ e.ss[i].status = "GREEDY" /\ e.ss[i].extra > 0 /\ e.action[i] = "INC"
          /\ e.ss[j].status = "GREEDY" /\ e.ss[j].extra = 0
          => e.ss[j].requested = 0

\* With nothing decided but what ASK_DEF needs.
AskedOnly(x, k) == Balanced(x, k) /\ \A i \in 1 .. k : x.action[i] = "INC" => x.ss[i].status = "ASK_DEF"

\* assign_ask_def, the first step.
LEMMA AskDefAssigned ==
  ASSUME NEW k \in Nat, NEW ss \in [1 .. k -> Entry], \A i \in 1 .. k : Consistent(ss[i]),
         NEW x, x = assign_ask_def(meta_aggregate_data(ss))
  PROVE  AskedOnly(x, k) /\ Total(AskDef(ss)) \in Nat /\ x.pending = 0
  <1> DEFINE n == meta_aggregate_data(ss)
             v == AskDef(ss)
             free == ear_max(DefaultPower - Total(Field(ss, "powercap")), 0)
             freeable == Total(Field(ss, "available"))
  <1>1. IsFiniteSet(1 .. k)
    BY FS_Interval, 1 \in Int, k \in Int
  <1>2. \A w \in [1 .. k -> Nat] : Total(w) \in Nat
    BY <1>1, SumNat, TotalIsSum
  <1>3. v \in [1 .. k -> Nat] /\ \A i \in 1 .. k : v[i] > 0 => ss[i].status = "ASK_DEF"
    BY DEF AskDef, Entry
  <1>4. freeable \in Nat /\ free \in Nat
    <2>1. Total(Field(ss, "powercap")) \in Nat /\ freeable \in Nat
      BY <1>2, Fields, Zenon
    <2> QED BY <2>1, MetaAssumption DEF ear_max
  <1>5. n = [ss |-> ss, action |-> [i \in 1 .. k |-> "NO"], value |-> [i \in 1 .. k |-> 0],
             free |-> free, freeable |-> freeable, pending |-> 0, both |-> FALSE]
    BY DEF meta_aggregate_data, NoOptions
  <1> HIDE DEF n, v, free, freeable
  <1>6. /\ n \in Plan(k) /\ n.both = FALSE /\ n.ss = ss /\ n.freeable = freeable
        /\ n.pending = 0 /\ \A i \in 1 .. k : n.action[i] = "NO"
    BY <1>4, <1>5 DEF Plan
  <1>7. x = Act(n, "INC", v)
    BY <1>6 DEF assign_ask_def, n, v
  <1>8. /\ x \in Plan(k) /\ x.both = FALSE /\ x.ss = ss /\ x.freeable = freeable /\ x.pending = 0
        /\ \A i \in 1 .. k : x.action[i] = IF v[i] > 0 THEN "INC" ELSE "NO"
    <2>1. \A i \in 1 .. k : v[i] > 0 => n.action[i] \in {"NO", "INC"}
      BY <1>6
    <2>2. n \in Plan(k) /\ n.both = FALSE /\ v \in [1 .. k -> Nat]
      BY <1>3, <1>6
    <2> DEFINE z == Act(n, "INC", v)
    <2>3. /\ z \in Plan(k) /\ z.both = FALSE
          /\ z.ss = n.ss /\ z.freeable = n.freeable /\ z.pending = n.pending
          /\ \A i \in 1 .. k : z.action[i] = IF v[i] > 0 THEN "INC" ELSE n.action[i]
      BY <2>1, <2>2, Acts, Zenon
    <2> QED BY <1>6, <1>7, <2>3
  <1>9. Balanced(x, k)
    BY <1>3, <1>8 DEF Balanced, freeable
  <1> QED BY <1>2, <1>3, <1>8, <1>9 DEF AskedOnly, v

\* reduce_extra_power, when that was not enough.
LEMMA ExtraReduced ==
  ASSUME NEW k \in Nat, NEW x, AskedOnly(x, k), NEW e, e = reduce_extra_power(x)
  PROVE  Settled(e, k)
  <1> DEFINE w == Field(x.ss, "extra")
             red == TakeInOrder(w, x.pending)
             z == Act(x, "RED", red)
  <1>1. /\ x \in Plan(k) /\ x.both = FALSE /\ x.ss \in [1 .. k -> Entry] /\ x.pending \in Nat
        /\ \A i \in 1 .. k : Consistent(x.ss[i]) /\ (x.action[i] = "INC" => x.ss[i].status = "ASK_DEF")
    BY DEF AskedOnly, Balanced, Plan
  <1>2. w \in [1 .. k -> Nat] /\ \A i \in 1 .. k : w[i] = x.ss[i].extra
    BY <1>1, Fields
  <1> HIDE DEF w
  <1>3. /\ red \in [1 .. k -> Nat] /\ \A i \in 1 .. k : red[i] <= w[i]
        /\ Total(w) \in Nat /\ Total(red) = ear_min(x.pending, Total(w))
    BY <1>1, <1>2, InOrder, Zenon
  <1> HIDE DEF red
  <1>4. \A i \in 1 .. k : red[i] > 0 => x.action[i] \in {"NO", "RED"}
    <2> TAKE i \in 1 .. k
    <2>1. red[i] > 0 => x.ss[i].status # "ASK_DEF"
      BY <1>1, <1>2, <1>3 DEF Consistent
    <2>2. x.action[i] \in {"NO", "INC", "RED"}
      BY <1>1 DEF Plan
    <2> QED BY <1>1, <2>1, <2>2
  <1>5. /\ z \in Plan(k) /\ z.both = FALSE /\ z.ss = x.ss /\ z.pending = x.pending
        /\ \A i \in 1 .. k : z.action[i] = IF red[i] > 0 THEN "RED" ELSE x.action[i]
    BY <1>1, <1>3, <1>4, Acts, Zenon
  <1> HIDE DEF z
  <1> DEFINE q == z.pending - Total(red)
  <1>6. q \in Nat
    BY <1>1, <1>3, <1>5 DEF ear_min
  <1>7. e = [z EXCEPT !.pending = q]
    BY DEF reduce_extra_power, z, red, w
  <1> HIDE DEF q
  <1>8. e \in Plan(k) /\ e.both = FALSE /\ e.ss = x.ss /\ e.action = z.action
    BY <1>5, <1>6, <1>7 DEF Plan
  <1>9. \A i \in 1 .. k : e.action[i] = "INC" => e.ss[i].status = "ASK_DEF"
    BY <1>1, <1>5, <1>8
  <1> QED BY <1>8, <1>9 DEF Settled

\* The two rounds for the greedy, when it was enough.
LEMMA BothServed ==
  ASSUME NEW k \in Nat, NEW x, AskedOnly(x, k),
         NEW e, e = ServeGreedy(ServeGreedy(x, FALSE), TRUE)
  PROVE  Settled(e, k)
  <1> DEFINE y == ServeGreedy(x, FALSE)
  <1>1. GreedyDone(x, FALSE, y, k)
    BY GreedyServed, Zenon DEF AskedOnly
  <1>2. e = ServeGreedy(y, TRUE) /\ Balanced(y, k)
    BY <1>1, Zenon DEF GreedyDone
  <1> HIDE DEF y
  <1>3. GreedyDone(y, TRUE, e, k)
    BY <1>2, GreedyServed, Zenon
  <1>4. /\ x.ss \in [1 .. k -> Entry] /\ e \in Plan(k) /\ e.both = FALSE
        /\ y.free \in Nat /\ y.freeable \in Nat
    BY <1>2, <1>3, Zenon DEF AskedOnly, GreedyDone, Balanced, Plan
  <1>5. SUFFICES ASSUME NEW i \in 1 .. k, NEW j \in 1 .. k,
                        e.ss[i].status = "GREEDY", e.ss[i].extra > 0, e.action[i] = "INC",
                        e.ss[j].status = "GREEDY", e.ss[j].extra = 0
                 PROVE  e.ss[j].requested = 0
    BY <1>4, Zenon DEF Settled
  <1>6. /\ \A n \in 1 .. k : /\ y.ss[n].status = x.ss[n].status /\ y.ss[n].extra = x.ss[n].extra
                             /\ y.action[n] = "INC" => x.action[n] = "INC" \/ Served(x.ss[n], FALSE)
        /\ \/ \A n \in 1 .. k : Served(y.ss[n], FALSE) => y.ss[n].requested = 0
           \/ y.free = 0 /\ y.freeable = 0
    BY <1>1, Zenon DEF GreedyDone
  <1>7. \A n \in 1 .. k :
           /\ e.ss[n].status = y.ss[n].status /\ e.ss[n].extra = y.ss[n].extra
           /\ ~Served(y.ss[n], TRUE) => e.ss[n].requested = y.ss[n].requested
           /\ e.action[n] = "INC" => y.action[n] = "INC" \/ y.free > 0 \/ y.freeable > 0
    BY <1>3, Zenon DEF GreedyDone
  <1>8. x.ss[i].status = "GREEDY" /\ x.ss[i].extra > 0
    BY <1>5, <1>6, <1>7, Zenon
  <1>9. ~Served(x.ss[i], FALSE) /\ x.action[i] # "INC"
    BY <1>8 DEF Served, AskedOnly
  <1>10. y.free > 0 \/ y.freeable > 0
    BY <1>5, <1>6, <1>7, <1>9, Zenon
  <1>11. Served(y.ss[j], FALSE) /\ ~Served(y.ss[j], TRUE)
    <2>1. y.ss[j].status = "GREEDY" /\ y.ss[j].extra = 0
      BY <1>5, <1>7, Zenon
    <2>2. (y.ss[j].extra > 0) = FALSE
      BY <2>1
    <2> QED BY <2>1, <2>2 DEF Served
  <1>12. y.ss[j].requested = 0
    <2>1. ~(y.free = 0 /\ y.freeable = 0)
      BY <1>4, <1>10
    <2> QED BY Zenon, <1>6, <1>11, <2>1
  <1> QED BY <1>7, <1>11, <1>12, Zenon

\* The whole of meta_reallocate_power.
LEMMA MetaSettles ==
  ASSUME NEW k \in Nat, NEW ss \in [1 .. k -> Entry], \A i \in 1 .. k : Consistent(ss[i])
  PROVE  Settled(meta_reallocate_power(ss), k)
  <1> DEFINE x == assign_ask_def(meta_aggregate_data(ss))
             wanted == Total(AskDef(ss))
             g == [x EXCEPT !.free = x.free - wanted]
             r == reduce_freeable_power(x, wanted - x.free)
             y == IF x.free >= wanted THEN g ELSE r
             a == reduce_extra_power(y)
             b == ServeGreedy(ServeGreedy(y, FALSE), TRUE)
  <1>1. AskedOnly(x, k) /\ wanted \in Nat /\ x.pending = 0
    BY AskDefAssigned
  <1>2. meta_reallocate_power(ss) = IF y.pending > 0 THEN a ELSE b
    BY DEF meta_reallocate_power
  <1> HIDE DEF x, wanted
  <1>3. Balanced(x, k) /\ x \in Plan(k) /\ x.free \in Nat
    BY <1>1 DEF AskedOnly, Balanced, Plan
  <1>4. CASE x.free >= wanted
    <2>1. x.free - wanted \in Nat
      BY <1>1, <1>3, <1>4
    <2> DEFINE f == x.free - wanted
    <2>2. g = [x EXCEPT !.free = f] /\ f \in Nat
      BY <2>1
    <2> HIDE DEF f, g
    <2>3. /\ g \in Plan(k) /\ g.ss = x.ss /\ g.action = x.action /\ g.both = x.both
          /\ g.freeable = x.freeable
      BY <1>3, <2>2, Zenon DEF Plan
    <2>4. AskedOnly(g, k)
      BY <1>1, <2>3 DEF AskedOnly, Balanced
    <2>5. y = g
      BY <1>4
    <2> QED BY <1>2, <2>4, <2>5, ExtraReduced, BothServed, Zenon
  <1>5. CASE ~(x.free >= wanted)
    <2>1. wanted - x.free \in Nat
      BY <1>1, <1>3, <1>5
    <2>2. FreeableTaken(x, wanted - x.free, r, k)
      BY <1>3, <2>1, FreeableReduced
    <2> HIDE DEF r
    <2>3. AskedOnly(r, k)
      BY <1>1, <2>2 DEF AskedOnly, FreeableTaken
    <2>4. y = r
      BY <1>5
    <2> QED BY <1>2, <2>3, <2>4, ExtraReduced, BothServed, Zenon
  <1> QED BY <1>4, <1>5

\* The meta-EARGM has heard of k EARGMs and decided nothing.
Heard(x, k) ==
    /\ x \in [ss : [1 .. k -> Entry], action : [1 .. 0 -> {"NO", "INC", "RED"}],
              value : [1 .. 0 -> Nat], free : Nat, freeable : Nat, pending : Nat, both : BOOLEAN]
    /\ x.both = FALSE /\ \A i \in 1 .. k : Consistent(x.ss[i])

\* The inductive invariant: what is published is consistent whatever the caps have
\* become since, so that what the meta-EARGM heard is, in whatever order.
Shared == [status : Statuses, requested : Nat, available : Nat, powercap : Nat, extra : Nat]
Collected(k) == IF sending THEN Settled(m, k) /\ pos \in 1 .. k + 1
                ELSE Heard(m, k) /\ (IF pos = 0 THEN k = 0 ELSE k < pos)
MetaInv ==
    /\ caps \in [1 .. Subs -> Uint]
    /\ published \in [1 .. Subs -> Shared] /\ \A e \in 1 .. Subs : Consistent(published[e])
    /\ pos \in 0 .. Subs + 1 /\ sending \in BOOLEAN
    /\ \E k \in 0 .. Subs : Collected(k)

\* What an EARGM publishes.
LEMMA WrittenStatus ==
  ASSUME NEW c \in Nat, NEW d0 \in Nat, NEW f \in Nat, NEW r \in Nat
  PROVE  /\ write_shared_data(c, d0, f, r) \in Shared
         /\ Consistent(write_shared_data(c, d0, f, r))
  BY DEF write_shared_data, Shared, Statuses, Consistent, ear_min, ear_max

\* Before an EARGM publishes anything.
LEMMA NothingPublished == Unpublished \in Shared /\ Consistent(Unpublished)
  BY DEF Unpublished, Shared, Statuses, Consistent

\* Nothing heard yet.
LEMMA NothingHeard == Heard(meta_aggregate_data(<<>>), 0)
  <1> DEFINE free == ear_max(DefaultPower - Total(Field(<<>>, "powercap")), 0)
             freeable == Total(Field(<<>>, "available"))
  <1>1. Field(<<>>, "powercap") \in [1 .. 0 -> Nat] /\ Field(<<>>, "available") \in [1 .. 0 -> Nat]
    BY DEF Field
  <1>2. IsFiniteSet(1 .. 0)
    BY FS_Interval, 1 \in Int, 0 \in Int
  <1>3. \A w \in [1 .. 0 -> Nat] : Total(w) \in Nat
    BY <1>2, SumNat, TotalIsSum
  <1>4. Total(Field(<<>>, "powercap")) \in Nat /\ freeable \in Nat
    BY <1>1, <1>3
  <1>5. free \in Nat
    BY <1>4, MetaAssumption DEF ear_max
  <1>6. meta_aggregate_data(<<>>) =
            [ss |-> <<>>, action |-> [i \in 1 .. 0 |-> "NO"], value |-> [i \in 1 .. 0 |-> 0],
             free |-> free, freeable |-> freeable, pending |-> 0, both |-> FALSE]
    BY DEF meta_aggregate_data, NoOptions
  <1> HIDE DEF free, freeable
  <1> DEFINE no == [i \in 1 .. 0 |-> "NO"]
             zero == [i \in 1 .. 0 |-> 0]
             none == <<>>
  <1>7. none \in [1 .. 0 -> Entry] /\ no \in [1 .. 0 -> {"NO", "INC", "RED"}] /\ zero \in [1 .. 0 -> Nat]
    OBVIOUS
  <1> HIDE DEF no, zero, none
  <1>8. meta_aggregate_data(<<>>) = [ss |-> none, action |-> no, value |-> zero, free |-> free,
                                     freeable |-> freeable, pending |-> 0, both |-> FALSE]
    BY <1>6 DEF no, zero, none
  <1> DEFINE x == meta_aggregate_data(<<>>)
  <1>9. /\ x = [ss |-> none, action |-> no, value |-> zero, free |-> free,
                 freeable |-> freeable, pending |-> 0, both |-> FALSE]
         /\ freeable \in Nat
    BY <1>4, <1>8
  <1> HIDE DEF x
  <1>10. x \in [ss : [1 .. 0 -> Entry], action : [1 .. 0 -> {"NO", "INC", "RED"}],
               value : [1 .. 0 -> Nat], free : Nat, freeable : Nat, pending : Nat, both : BOOLEAN]
    BY <1>5, <1>7, <1>9
  <1>11. x.both = FALSE
    BY <1>9
  <1>12. \A i \in 1 .. 0 : Consistent(x.ss[i])
    OBVIOUS
  <1>13. Heard(x, 0)
    BY <1>10, <1>11, <1>12 DEF Heard
  <1> QED BY <1>13 DEF x

\* The invariant holds at the start.
LEMMA MetaStarts == MetaInit => MetaInv
  <1> SUFFICES ASSUME MetaInit PROVE MetaInv
    OBVIOUS
  <1>1. caps \in [1 .. Subs -> Uint]
    BY MetaAssumption DEF MetaInit
  <1>2. published \in [1 .. Subs -> Shared] /\ \A e \in 1 .. Subs : Consistent(published[e])
    BY NothingPublished DEF MetaInit
  <1>3. 0 \in 0 .. Subs /\ pos \in 0 .. Subs + 1
    BY MetaAssumption DEF MetaInit
  <1>4. sending \in BOOLEAN
    BY Zenon DEF MetaInit
  <1>5. Heard(m, 0) /\ pos = 0 /\ sending = FALSE
    BY NothingHeard DEF MetaInit
  <1>6. Collected(0)
    BY <1>5 DEF Collected
  <1> QED BY <1>1, <1>2, <1>3, <1>6, <1>4 DEF MetaInv

\* A status is received: it is one of those that are consistent.
LEMMA StatusHeard ==
  ASSUME NEW k \in Nat, Heard(m, k), NEW s \in Entry, Consistent(s),
         NEW x, x = [m EXCEPT !.ss = Append(@, s)]
  PROVE  Heard(x, k + 1)
  <1> DEFINE t == Append(m.ss, s)
  <1>1. m.ss \in [1 .. k -> Entry] /\ \A i \in 1 .. k : Consistent(m.ss[i])
    BY DEF Heard
  <1>2. m.ss \in Seq(Entry) /\ Len(m.ss) = k
    BY <1>1
  <1>3. t \in Seq(Entry) /\ Len(t) = k + 1
    BY <1>2
  <1>4. \A i \in 1 .. k + 1 : t[i] = IF i = k + 1 THEN s ELSE m.ss[i]
    BY <1>2
  <1>5. t \in [1 .. k + 1 -> Entry]
    <2> HIDE DEF t
    <2>1. DOMAIN t = 1 .. k + 1 /\ \A i \in 1 .. k + 1 : t[i] \in Entry
      BY <1>3
    <2>2. t = [i \in 1 .. k + 1 |-> t[i]]
      BY <1>3, <2>1
    <2> QED BY <2>1, <2>2
  <1>6. \A i \in 1 .. k + 1 : Consistent(t[i])
    BY <1>1, <1>4
  <1>7. x = [m EXCEPT !.ss = t]
    OBVIOUS
  <1> HIDE DEF t
  <1>8. x.ss = t /\ x.both = FALSE
    BY <1>7 DEF Heard
  <1>9. x \in [ss : [1 .. k + 1 -> Entry], action : [1 .. 0 -> {"NO", "INC", "RED"}],
               value : [1 .. 0 -> Nat], free : Nat, freeable : Nat, pending : Nat, both : BOOLEAN]
    BY <1>5, <1>7, Zenon DEF Heard
  <1> QED BY <1>6, <1>8, <1>9, Zenon DEF Heard

\* Every step keeps the invariant.
LEMMA MetaSteps == MetaInv /\ [MetaNext]_meta => MetaInv'
  <1> SUFFICES ASSUME MetaInv, [MetaNext]_meta PROVE MetaInv'
    OBVIOUS
  <1>1. PICK k \in 0 .. Subs : Collected(k)
    BY DEF MetaInv
  <1>2. /\ caps \in [1 .. Subs -> Uint] /\ published \in [1 .. Subs -> Shared]
        /\ \A e \in 1 .. Subs : Consistent(published[e])
        /\ pos \in 0 .. Subs + 1 /\ sending \in BOOLEAN /\ k \in Nat
    BY MetaAssumption DEF MetaInv
  <1>3. Subs \in Nat /\ Subs > 0 /\ Def \in Uint /\ Uint \subseteq Nat
    BY MetaAssumption, UintFacts
  <1>4. ASSUME pos' = pos, m' = m, sending' = sending PROVE Collected(k)'
    BY <1>1, <1>4 DEF Collected, Settled, Heard, Plan
  <1>5. CASE UNCHANGED meta
    BY <1>1, <1>2, <1>4, <1>5 DEF MetaInv, meta
  <1>6. ASSUME NEW e \in 1 .. Subs, write_shared(e) PROVE MetaInv'
    <2>1. PICK wish \in Wishes, free \in Spare : published' =
              [published EXCEPT ![e] = write_shared_data(caps[e], Def,
                            ear_min((caps[e] - MinPower[e]) % UintSize, free), wish)]
      BY <1>6, Zenon DEF write_shared
    <2> DEFINE f == ear_min((caps[e] - MinPower[e]) % UintSize, free)
               w == write_shared_data(caps[e], Def, f, wish)
    <2>2. caps[e] \in Nat /\ Def \in Nat /\ MinPower[e] \in 0 .. Def
      BY <1>2, <1>3, MetaAssumption, Zenon
    <2>3. wish \in Nat /\ free \in Nat
      BY MetaAssumption
    <2>4. caps[e] - MinPower[e] \in Int
      BY <2>2
    <2>5. (caps[e] - MinPower[e]) % UintSize \in Nat
      BY <2>4, <1>3, ModIsUint, Zenon
    <2>6. f \in Nat
      BY <2>5, <2>3 DEF ear_min
    <2> HIDE DEF f
    <2>7. w \in Shared /\ Consistent(w)
      BY <2>2, <2>6, <2>3, WrittenStatus
    <2>8. published' = [published EXCEPT ![e] = w]
      BY <2>1 DEF f
    <2> HIDE DEF w
    <2>9. published' \in [1 .. Subs -> Shared] /\ \A n \in 1 .. Subs : Consistent(published'[n])
      BY <1>2, <2>7, <2>8
    <2>10. caps' = caps /\ pos' = pos /\ m' = m /\ sending' = sending
      BY <1>6 DEF write_shared
    <2> QED BY <1>2, <1>4, <2>9, <2>10 DEF MetaInv
  <1>7. ASSUME NEW e \in 1 .. Subs, Restart(e) PROVE MetaInv'
    <2>1. /\ published' = [published EXCEPT ![e] = Unpublished] /\ caps' = [caps EXCEPT ![e] = Def]
          /\ pos' = pos /\ m' = m /\ sending' = sending
      BY <1>7 DEF Restart
    <2>2. published' \in [1 .. Subs -> Shared] /\ \A n \in 1 .. Subs : Consistent(published'[n])
      BY <1>2, <2>1, NothingPublished
    <2>3. caps' \in [1 .. Subs -> Uint]
      BY <1>2, <1>3, <2>1
    <2> QED BY <1>2, <1>4, <2>1, <2>2, <2>3 DEF MetaInv
  <1>8. CASE WakeUp
    <2>1. pos = 0 /\ pos' = 1 /\ m' = m /\ sending' = sending /\ caps' = caps /\ published' = published
      BY <1>8 DEF WakeUp
    <2>2. sending = FALSE /\ Heard(m, k) /\ k = 0
      BY <1>1, <1>2, <2>1 DEF Collected
    <2>3. Collected(k)'
      BY <2>1, <2>2 DEF Collected, Heard
    <2> QED BY <1>2, <1>3, <2>1, <2>3 DEF MetaInv
  <1>9. CASE eargm_status
    <2>1. /\ pos \in 1 .. Subs /\ sending = FALSE /\ pos' = pos + 1 /\ sending' = FALSE
          /\ caps' = caps /\ published' = published
      BY <1>2, <1>9 DEF eargm_status
    <2>2. Heard(m, k) /\ k < pos
      BY <1>1, <2>1 DEF Collected
    <2>3. CASE m' = m
      <3>1. Collected(k)'
        BY <1>2, <2>1, <2>2, <2>3 DEF Collected, Heard
      <3>2. pos' \in 0 .. Subs + 1
        BY <1>3, <2>1
      <3> QED BY <1>2, <2>1, <3>1, <3>2, Zenon DEF MetaInv
    <2>4. CASE m' = [m EXCEPT !.ss = Append(@, Received(pos))]
      <3>1. published[pos] \in Shared /\ Consistent(published[pos])
        BY <1>2, <2>1
      <3>2. Received(pos) \in Entry /\ Consistent(Received(pos))
        BY <2>1, <3>1 DEF Received, Entry, Shared, Consistent
      <3>3. Heard(m', k + 1)
        BY <1>2, <2>2, <2>4, <3>2, StatusHeard
      <3>4. k + 1 \in 0 .. Subs /\ k + 1 < pos' /\ pos' \in 0 .. Subs + 1 /\ pos' # 0
        BY <1>2, <1>3, <2>1, <2>2
      <3>5. Collected(k + 1)'
        BY <2>1, <3>3, <3>4 DEF Collected, Heard
      <3> QED BY <1>2, <2>1, <3>4, <3>5, Zenon DEF MetaInv
    <2> QED BY <1>9, <2>3, <2>4 DEF eargm_status
  <1>10. CASE MetaDecide
    <2>1. /\ pos = Subs + 1 /\ sending = FALSE /\ caps' = caps /\ published' = published
          /\ IF m.ss = <<>> THEN pos' = 0 /\ m' = m /\ sending' = FALSE
             ELSE m' = meta_reallocate_power(m.ss) /\ sending' = TRUE /\ pos' = 1
      BY <1>2, <1>10 DEF MetaDecide
    <2>2. Heard(m, k) /\ m.ss \in [1 .. k -> Entry] /\ \A i \in 1 .. k : Consistent(m.ss[i])
      BY <1>1, <1>3, <2>1 DEF Collected, Heard
    <2>3. CASE m.ss = <<>>
      <3>1. k = 0
        BY <1>2, <2>2, <2>3
      <3>2. Collected(k)'
        BY <2>1, <2>2, <2>3, <3>1 DEF Collected, Heard
      <3>3. pos' \in 0 .. Subs + 1
        BY <1>3, <2>1, <2>3
      <3>4. sending' \in BOOLEAN
        BY Zenon, <2>1, <2>3
      <3> QED BY <1>2, <2>1, <3>2, <3>3, <3>4 DEF MetaInv
    <2>4. CASE m.ss # <<>>
      <3>1. Settled(m', k)
        BY <1>2, <2>1, <2>2, <2>4, MetaSettles
      <3>2. 1 \in 1 .. k + 1 /\ 1 \in 0 .. Subs + 1
        BY <1>2, <1>3
      <3>3. Collected(k)'
        BY <2>1, <2>4, <3>1, <3>2 DEF Collected, Settled, Plan
      <3> QED BY <1>2, <1>3, <2>1, <2>4, <3>2, <3>3 DEF MetaInv
    <2> QED BY <2>3, <2>4
  <1>11. CASE eargm_send_table_commands
    <2>1. /\ pos \in DOMAIN m.ss /\ sending = TRUE /\ pos' = pos + 1 /\ sending' = TRUE /\ m' = m
          /\ published' = published
      BY <1>2, <1>11 DEF eargm_send_table_commands
    <2>2. Settled(m, k)
      BY <1>1, <2>1 DEF Collected
    <2>3. /\ m.ss \in [1 .. k -> Entry] /\ m.value \in [1 .. k -> Nat] /\ pos \in 1 .. k
      BY <2>1, <2>2 DEF Settled, Plan
    <2> DEFINE e == m.ss[pos].id
               v == m.value[pos]
    <2>4. e \in 1 .. Subs /\ v \in Nat /\ caps[e] \in Uint
      BY <1>2, <2>3, Zenon DEF Entry
    <2>5. \/ cluster_powercap_inc_pc(e, v) \/ cluster_powercap_red_pc(e, v) \/ caps' = caps
      BY <1>11 DEF eargm_send_table_commands
    <2> HIDE DEF e, v
    <2>6. caps[e] \in Nat
      BY <1>3, <2>4, Zenon
    <2>7. caps[e] + v \in Int
      BY <2>4, <2>6
    <2>8. (caps[e] + v) % UintSize \in Uint
      BY <2>7, ModIsUint
    <2>9. (IF v > caps[e] THEN caps[e] ELSE caps[e] - v) \in Uint
      BY <2>4, UintSizeAssumption DEF Uint
    <2>10. caps' \in [1 .. Subs -> Uint]
      BY <1>2, <2>4, <2>5, <2>8, <2>9 DEF cluster_powercap_inc_pc, cluster_powercap_red_pc
    <2>11. pos' \in 1 .. k + 1 /\ pos' \in 0 .. Subs + 1
      BY <1>2, <1>3, <2>1, <2>3
    <2>12. Collected(k)'
      BY <2>1, <2>2, <2>11 DEF Collected, Settled, Plan
    <2> QED BY <1>2, <2>1, <2>10, <2>11, <2>12 DEF MetaInv
  <1>12. CASE Sleep
    <2>1. /\ pos' = 0 /\ sending' = FALSE /\ m' = meta_aggregate_data(<<>>)
          /\ caps' = caps /\ published' = published
      BY <1>12 DEF Sleep
    <2>2. Heard(m', 0)
      BY <2>1, NothingHeard
    <2>3. Collected(0)'
      BY <2>1, <2>2 DEF Collected, Heard
    <2>4. 0 \in 0 .. Subs /\ pos' \in 0 .. Subs + 1
      BY <1>3, <2>1
    <2>5. sending' \in BOOLEAN
      BY Zenon, <2>1
    <2> QED BY <1>2, <2>1, <2>3, <2>4, <2>5 DEF MetaInv
  <1> QED BY <1>5, <1>6, <1>7, <1>8, <1>9, <1>10, <1>11, <1>12 DEF MetaNext

\* The invariant holds throughout.
LEMMA MetaAlways == MetaSpec => []MetaInv
  BY MetaStarts, MetaSteps, PTL DEF MetaSpec

\* What the invariant says of the decisions.
LEMMA MetaGives == MetaInv => MetaTypeOK /\ OneDirection /\ NoExtraFirst
  <1> SUFFICES ASSUME MetaInv PROVE MetaTypeOK /\ OneDirection /\ NoExtraFirst
    OBVIOUS
  <1>1. PICK k \in 0 .. Subs : Collected(k)
    BY DEF MetaInv
  <1>2. k \in Nat /\ sending \in BOOLEAN
    BY MetaAssumption DEF MetaInv
  <1>3. CASE sending
    <2>1. /\ Settled(m, k) /\ m \in Plan(k) /\ m.ss \in [1 .. k -> Entry]
          /\ m.value \in [1 .. k -> Nat] /\ m.free \in Nat /\ m.freeable \in Nat /\ m.pending \in Nat
      BY <1>1, <1>3 DEF Collected, Settled, Plan
    <2>2. \A i \in 1 .. k : Reported(i, "available") \in Nat
      BY <2>1, Zenon DEF Reported, Field, Entry
    <2>3. MetaTypeOK
      BY <2>1, <2>2, Zenon DEF MetaTypeOK, MetaInv
    <2>4. OneDirection /\ NoExtraFirst
      BY <2>1 DEF Settled, OneDirection, NoExtraFirst
    <2> QED BY <2>3, <2>4
  <1>4. CASE ~sending
    <2>1. /\ m.value \in [1 .. 0 -> Nat] /\ m.free \in Nat /\ m.freeable \in Nat /\ m.pending \in Nat
          /\ m.both = FALSE
      BY <1>1, <1>4 DEF Collected, Heard
    <2>2. MetaTypeOK
      BY <2>1 DEF MetaTypeOK, MetaInv
    <2> QED BY <1>4, <2>1, <2>2 DEF OneDirection, NoExtraFirst, Decided
  <1> QED BY <1>3, <1>4

\* No unsigned subtraction of meta_reallocate_power wraps.
THEOREM MetaTypes == MetaSpec => []MetaTypeOK
  BY MetaAlways, MetaGives, PTL

\* No EARGM is both reduced and increased in a period.
THEOREM NeverBothWays == MetaSpec => []OneDirection
  BY MetaAlways, MetaGives, PTL

\* An EARGM that holds extra power gets more only when the greedy ones without
\* any got all they asked for.
THEOREM WithoutExtraFirst == MetaSpec => []NoExtraFirst
  BY MetaAlways, MetaGives, PTL
=============================================================================
