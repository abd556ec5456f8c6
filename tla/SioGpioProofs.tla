---------------------------- MODULE SioGpioProofs ----------------------------
(***************************************************************************)
(* Proofs about the pins of super I/O chips: whatever runs were made and   *)
(* killed before, gpio leaves the pins it names as asked and loopback's    *)
(* status tells what is jumpered.                                          *)
(***************************************************************************)
EXTENDS SioGpio, SequenceTheorems, WellFoundedInduction, TLAPS

-----------------------------------------------------------------------------
(* Programs: sequences of library calls, put together from pieces. *)

\* What a program consists of, and the bits of the chip.
Item == {Enter, Exit, GiveUp} \cup {Select(d) : d \in Byte}
          \cup {PutBit(r, b, on) : r \in Nat, b \in Nat, on \in BOOLEAN}
          \cup {Expect(g, high) : g \in Nat, high \in BOOLEAN}
Spot == Byte \X (0..255) \X (0..7)

\* The l-th call selects the device for the m-th.
Selects(s, l, m) ==
  /\ l \in 1..(m - 1)
  /\ s[l].call = "select"
  /\ \A i \in (l + 1)..(m - 1) : s[i].call # "select"

\* The m-th call of s sets bit t to on.
Act(s, m, t, on) ==
  /\ m \in 1..Len(s)
  /\ s[m].call = "change"
  /\ s[m].reg = t[2]
  /\ s[m].clear = {t[3]}
  /\ s[m].set = IF on THEN {t[3]} ELSE {}
  /\ \/ s[m].reg < 48 /\ t[1] = {}
     \/ s[m].reg \in Nat /\ s[m].reg >= 48 /\ \E l \in 1..(m - 1) : Selects(s, l, m) /\ s[l].dev = t[1]

LEMMA Joined ==
  ASSUME NEW s \in Seq(Item), NEW u \in Seq(Item)
  PROVE  /\ s \o u \in Seq(Item)
         /\ Len(s) \in Nat /\ Len(u) \in Nat /\ Len(s \o u) = Len(s) + Len(u)
         /\ \A i \in 1..Len(s) : (s \o u)[i] = s[i]
         /\ \A i \in 1..Len(u) : (s \o u)[Len(s) + i] = u[i]
  <1>1. /\ s \o u \in Seq(Item)
        /\ Len(s \o u) = Len(s) + Len(u)
        /\ \A i \in 1..Len(s) + Len(u) :
             (s \o u)[i] = IF i <= Len(s) THEN s[i] ELSE u[i - Len(s)]
    BY ConcatProperties
  <1>2. Len(s) \in Nat /\ Len(u) \in Nat
    OBVIOUS
  <1>3. \A i \in 1..Len(s) : (s \o u)[i] = s[i]
    BY <1>1, <1>2
  <1>4. ASSUME NEW i \in 1..Len(u)
        PROVE  (s \o u)[Len(s) + i] = u[i]
    <2>1. Len(s) + i \in 1..Len(s) + Len(u) /\ ~(Len(s) + i <= Len(s)) /\ Len(s) + i - Len(s) = i
      BY <1>2
    <2>2. QED
      BY <1>1, <2>1
  <1>5. QED
    BY <1>1, <1>2, <1>3, <1>4

\* A piece does in a program what it does alone.
LEMMA ActLeft ==
  ASSUME NEW s \in Seq(Item), NEW u \in Seq(Item), NEW m, NEW t, NEW on, Act(s, m, t, on)
  PROVE  Act(s \o u, m, t, on)
  <1>1. /\ m \in 1..Len(s) /\ Len(s) \in Nat /\ m \in 1..Len(s \o u)
        /\ \A i \in 1..m : (s \o u)[i] = s[i]
    BY Joined DEF Act
  <1>2. ASSUME NEW l \in 1..(m - 1), Selects(s, l, m)
        PROVE  Selects(s \o u, l, m) /\ (s \o u)[l].dev = s[l].dev
    <2>1. \A i \in (l + 1)..(m - 1) : (s \o u)[i] = s[i]
      BY <1>1
    <2>2. (s \o u)[l] = s[l]
      BY <1>1
    <2>3. QED
      BY <1>2, <2>1, <2>2 DEF Selects
  <1>3. (s \o u)[m] = s[m]
    BY <1>1
  <1>4. QED
    BY <1>1, <1>2, <1>3 DEF Act

LEMMA ActRight ==
  ASSUME NEW s \in Seq(Item), NEW u \in Seq(Item), NEW m, NEW t, NEW on, Act(u, m, t, on)
  PROVE  Act(s \o u, Len(s) + m, t, on)
  <1>1. /\ m \in 1..Len(u) /\ Len(s) \in Nat /\ Len(u) \in Nat
        /\ Len(s) + m \in 1..Len(s \o u)
        /\ \A i \in 1..Len(u) : (s \o u)[Len(s) + i] = u[i]
    BY Joined DEF Act
  <1>2. ASSUME NEW l \in 1..(m - 1), Selects(u, l, m)
        PROVE  /\ Len(s) + l \in 1..((Len(s) + m) - 1)
               /\ Selects(s \o u, Len(s) + l, Len(s) + m)
               /\ (s \o u)[Len(s) + l].dev = u[l].dev
    <2>1. Len(s) + l \in 1..((Len(s) + m) - 1) /\ l \in 1..Len(u)
      BY <1>1
    <2>2. ASSUME NEW i \in ((Len(s) + l) + 1)..((Len(s) + m) - 1)
          PROVE  (s \o u)[i].call # "select"
      <3>1. i - Len(s) \in (l + 1)..(m - 1) /\ i - Len(s) \in 1..Len(u) /\ Len(s) + (i - Len(s)) = i
        BY <1>1, <2>1
      <3>2. (s \o u)[i] = u[i - Len(s)]
        BY <1>1, <3>1
      <3>3. QED
        BY <1>2, <3>1, <3>2 DEF Selects
    <2>3. (s \o u)[Len(s) + l] = u[l]
      BY <1>1, <2>1
    <2>4. QED
      BY <1>2, <2>1, <2>2, <2>3 DEF Selects
  <1>3. (s \o u)[Len(s) + m] = u[m]
    BY <1>1
  <1>4. \/ u[m].reg < 48 /\ t[1] = {}
        \/ /\ u[m].reg \in Nat /\ u[m].reg >= 48
           /\ \E k \in 1..((Len(s) + m) - 1) :
                Selects(s \o u, k, Len(s) + m) /\ (s \o u)[k].dev = t[1]
    <2>1. CASE u[m].reg < 48 /\ t[1] = {}
      BY <2>1
    <2>2. ASSUME u[m].reg \in Nat, u[m].reg >= 48,
                 NEW l \in 1..(m - 1), Selects(u, l, m), u[l].dev = t[1]
          PROVE  \E k \in 1..((Len(s) + m) - 1) :
                   Selects(s \o u, k, Len(s) + m) /\ (s \o u)[k].dev = t[1]
      BY <1>2, <2>2
    <2>3. QED
      BY <2>1, <2>2 DEF Act
  <1>5. QED
    BY <1>1, <1>3, <1>4 DEF Act

\* What CellAt makes of it.
LEMMA ActCell ==
  ASSUME NEW s \in Seq(Item), NEW m, NEW t \in Spot, NEW on \in BOOLEAN, Act(s, m, t, on)
  PROVE  CellAt(s, m) = <<t[1], t[2]>>
  <1>1. CASE s[m].reg < 48 /\ t[1] = {}
    BY <1>1 DEF Act, CellAt, CellOf
  <1>2. ASSUME s[m].reg \in Nat, s[m].reg >= 48,
               NEW l \in 1..(m - 1), Selects(s, l, m), s[l].dev = t[1]
        PROVE  CellAt(s, m) = <<t[1], t[2]>>
    <2>1. m \in Nat /\ l \in Nat
      BY DEF Act
    <2>2. l \in SelectBefore(s, m) /\ \A i \in SelectBefore(s, m) : i <= l
      BY <1>2, <2>1 DEF SelectBefore, Selects
    <2>3. \A k \in SelectBefore(s, m) : (\A i \in SelectBefore(s, m) : i <= k) => k = l
      BY <2>1, <2>2 DEF SelectBefore
    <2>4. (CHOOSE k \in SelectBefore(s, m) : \A i \in SelectBefore(s, m) : i <= k) = l
      BY <2>2, <2>3
    <2>5. DevAt(s, m) = t[1]
      BY <1>2, <2>4 DEF DevAt
    <2>6. QED
      BY <1>2, <2>5 DEF Act, CellAt, CellOf
  <1>3. QED
    BY <1>1, <1>2 DEF Act

\* Before a pin's level is set, its group is enabled and it is made an output.
Led(c, s, m, t) == \A g \in Pin[c] : t = DataBits[c][g] =>
  \E k, l \in 1..(m - 1) : Act(s, k, GroupBits[c][g], TRUE) /\ Act(s, l, InBits[c][g], FALSE)

\* Every change in s is one of those wished for.
Wished(c, s, wish) ==
  /\ s \in Seq(Item)
  /\ \A m \in 1..Len(s) : s[m].call = "change" =>
       \E w \in wish : Act(s, m, w[1], w[2]) /\ Led(c, s, m, w[1])

\* No level is tested.
Free(s) == \A m \in 1..Len(s) : s[m].call # "expect"

Shape(c, s, wish) == Wished(c, s, wish) /\ Free(s)

LEMMA LedLeft ==
  ASSUME NEW c, NEW s \in Seq(Item), NEW u \in Seq(Item), NEW m \in Nat, NEW t, Led(c, s, m, t)
  PROVE  Led(c, s \o u, m, t)
  BY ActLeft DEF Led

LEMMA LedRight ==
  ASSUME NEW c, NEW s \in Seq(Item), NEW u \in Seq(Item), NEW m \in Nat, NEW t, Led(c, u, m, t)
  PROVE  Led(c, s \o u, Len(s) + m, t)
  <1>1. Len(s) \in Nat
    OBVIOUS
  <1>2. SUFFICES ASSUME NEW g \in Pin[c], t = DataBits[c][g]
                 PROVE  \E k, l \in 1..((Len(s) + m) - 1) :
                          /\ Act(s \o u, k, GroupBits[c][g], TRUE)
                          /\ Act(s \o u, l, InBits[c][g], FALSE)
    BY DEF Led
  <1>3. PICK k \in 1..(m - 1), l \in 1..(m - 1) :
          Act(u, k, GroupBits[c][g], TRUE) /\ Act(u, l, InBits[c][g], FALSE)
    BY <1>2 DEF Led
  <1>4. Len(s) + k \in 1..((Len(s) + m) - 1) /\ Len(s) + l \in 1..((Len(s) + m) - 1)
    BY <1>1
  <1>5. Act(s \o u, Len(s) + k, GroupBits[c][g], TRUE) /\ Act(s \o u, Len(s) + l, InBits[c][g], FALSE)
    BY <1>3, ActRight
  <1>6. QED
    BY <1>4, <1>5

LEMMA WishedJoined ==
  ASSUME NEW c, NEW s, NEW u, NEW wish, Wished(c, s, wish), Wished(c, u, wish)
  PROVE  Wished(c, s \o u, wish)
  <1>1. s \in Seq(Item) /\ u \in Seq(Item)
    BY DEF Wished
  <1>2. s \o u \in Seq(Item) /\ Len(s) \in Nat /\ Len(u) \in Nat /\ Len(s \o u) = Len(s) + Len(u)
    BY <1>1, Joined
  <1>3. SUFFICES ASSUME NEW m \in 1..Len(s \o u), (s \o u)[m].call = "change"
                 PROVE  \E w \in wish : Act(s \o u, m, w[1], w[2]) /\ Led(c, s \o u, m, w[1])
    BY <1>2 DEF Wished
  <1>4. CASE m <= Len(s)
    <2>1. m \in 1..Len(s) /\ m \in Nat
      BY <1>2, <1>4
    <2>2. s[m].call = "change"
      BY <1>1, <1>3, <2>1, Joined
    <2>3. PICK w \in wish : Act(s, m, w[1], w[2]) /\ Led(c, s, m, w[1])
      BY <2>1, <2>2 DEF Wished
    <2>4. QED
      BY <1>1, <2>1, <2>3, ActLeft, LedLeft
  <1>5. CASE m > Len(s)
    <2>1. PICK j \in 1..Len(u) : m = Len(s) + j
      <3>1. m - Len(s) \in 1..Len(u) /\ m = Len(s) + (m - Len(s))
        BY <1>2, <1>5
      <3>2. QED
        BY <3>1
    <2>2. j \in Nat /\ u[j].call = "change"
      BY <1>1, <1>3, <2>1, Joined
    <2>3. PICK w \in wish : Act(u, j, w[1], w[2]) /\ Led(c, u, j, w[1])
      BY <2>1, <2>2 DEF Wished
    <2>4. QED
      BY <1>1, <2>1, <2>2, <2>3, ActRight, LedRight
  <1>6. QED
    BY <1>2, <1>4, <1>5

LEMMA FreeJoined ==
  ASSUME NEW s \in Seq(Item), NEW u \in Seq(Item), Free(s), Free(u)
  PROVE  Free(s \o u)
  <1>1. /\ Len(s) \in Nat /\ Len(u) \in Nat /\ Len(s \o u) = Len(s) + Len(u)
        /\ \A i \in 1..Len(s) : (s \o u)[i] = s[i]
        /\ \A i \in 1..Len(u) : (s \o u)[Len(s) + i] = u[i]
    BY Joined
  <1>2. ASSUME NEW m \in 1..Len(s \o u)
        PROVE  (s \o u)[m].call # "expect"
    <2>1. CASE m <= Len(s)
      BY <1>1, <2>1 DEF Free
    <2>2. CASE m > Len(s)
      <3>1. m - Len(s) \in 1..Len(u) /\ Len(s) + (m - Len(s)) = m
        BY <1>1, <2>2
      <3>2. QED
        BY <1>1, <3>1 DEF Free
    <2>3. QED
      BY <1>1, <2>1, <2>2
  <1>3. QED
    BY <1>2 DEF Free

LEMMA ShapeJoined ==
  ASSUME NEW c, NEW s, NEW u, NEW wish, Shape(c, s, wish), Shape(c, u, wish)
  PROVE  Shape(c, s \o u, wish)
  <1>1. s \in Seq(Item) /\ u \in Seq(Item)
    BY DEF Shape, Wished
  <1>2. QED
    BY <1>1, WishedJoined, FreeJoined DEF Shape

\* A call that is in a piece is in the program.
Has(s, t, on) == \E m \in 1..Len(s) : Act(s, m, t, on)

LEMMA HasJoined ==
  ASSUME NEW s \in Seq(Item), NEW u \in Seq(Item), NEW t, NEW on, Has(s, t, on) \/ Has(u, t, on)
  PROVE  Has(s \o u, t, on)
  <1>1. CASE Has(s, t, on)
    <2>1. PICK m \in 1..Len(s) : Act(s, m, t, on)
      BY <1>1 DEF Has
    <2>2. Act(s \o u, m, t, on)
      BY <2>1, ActLeft
    <2>3. QED
      BY <2>2 DEF Has, Act
  <1>2. CASE Has(u, t, on)
    <2>1. PICK m \in 1..Len(u) : Act(u, m, t, on)
      BY <1>2 DEF Has
    <2>2. Act(s \o u, Len(s) + m, t, on)
      BY <2>1, ActRight
    <2>3. QED
      BY <2>2 DEF Has, Act
  <1>3. QED
    BY <1>1, <1>2

\* The bit a call sets is one, and so is its level.
LEMMA ActUnique ==
  ASSUME NEW s \in Seq(Item), NEW m, NEW t \in Spot, NEW u \in Spot,
         NEW on \in BOOLEAN, NEW up \in BOOLEAN, Act(s, m, t, on), Act(s, m, u, up)
  PROVE  t = u /\ on = up
  <1>1. t[3] = u[3] /\ on = up
    <2>1. t[3] = u[3]
      <3>1. {t[3]} = {u[3]}
        BY DEF Act
      <3>2. QED
        BY <3>1
    <2>2. on <=> s[m].set # {}
      BY DEF Act
    <2>3. up <=> s[m].set # {}
      BY DEF Act
    <2>4. QED
      BY <2>1, <2>2, <2>3, Zenon
  <1>2. <<t[1], t[2]>> = <<u[1], u[2]>>
    BY ActCell
  <1>3. QED
    BY <1>1, <1>2 DEF Spot

-----------------------------------------------------------------------------
(* The pieces. *)

\* A wish for a bit that is not the level of a pin.
Plain(c, wish, t, on) == <<t, on>> \in wish /\ t \in Spot /\ \A g \in Pin[c] : t # DataBits[c][g]

LEMMA ItemFacts ==
  /\ Enter \in Item /\ Exit \in Item /\ GiveUp \in Item
  /\ \A d \in Byte : Select(d) \in Item
  /\ \A r \in Nat, b \in Nat, on \in BOOLEAN : PutBit(r, b, on) \in Item
  /\ \A g \in Nat, high \in BOOLEAN : Expect(g, high) \in Item
  BY DEF Item

LEMMA Quiet ==
  ASSUME NEW c, NEW wish, NEW x \in Item, x.call # "change"
  PROVE  /\ Shape(c, <<>>, wish)
         /\ Wished(c, <<x>>, wish)
         /\ x.call # "expect" => Shape(c, <<x>>, wish)
  BY DEF Shape, Wished, Free

LEMMA OnePut ==
  ASSUME NEW c, NEW wish, NEW r \in 0..47, NEW b \in 0..7, NEW on \in BOOLEAN,
         Plain(c, wish, <<{}, r, b>>, on)
  PROVE  Shape(c, <<PutBit(r, b, on)>>, wish)
  <1> DEFINE s == <<PutBit(r, b, on)>>
  <1>1. s \in Seq(Item) /\ Len(s) = 1 /\ s[1] = PutBit(r, b, on)
    BY ItemFacts
  <1>2. Act(s, 1, <<{}, r, b>>, on)
    BY <1>1 DEF Act, PutBit, Change
  <1>3. Led(c, s, 1, <<{}, r, b>>)
    BY DEF Led, Plain
  <1> HIDE DEF s
  <1>4. \E w \in wish : Act(s, 1, w[1], w[2]) /\ Led(c, s, 1, w[1])
    <2> DEFINE w == <<<<{}, r, b>>, on>>
    <2>1. w \in wish /\ w[1] = <<{}, r, b>> /\ w[2] = on
      BY DEF Plain
    <2> HIDE DEF w
    <2>2. QED
      BY <1>2, <1>3, <2>1
  <1>5. Shape(c, s, wish)
    <2>1. s[1].call # "expect"
      BY <1>2 DEF Act
    <2>2. QED
      BY <1>1, <1>4, <2>1 DEF Shape, Wished, Free
  <1>6. QED
    BY <1>5 DEF s

LEMMA SelectPut ==
  ASSUME NEW c, NEW wish, NEW d \in Byte, NEW r \in 48..255, NEW b \in 0..7, NEW on \in BOOLEAN,
         Plain(c, wish, <<d, r, b>>, on)
  PROVE  Shape(c, <<Select(d), PutBit(r, b, on)>>, wish)
  <1> DEFINE s == <<Select(d), PutBit(r, b, on)>>
  <1>1. s \in Seq(Item) /\ Len(s) = 2 /\ s[1] = Select(d) /\ s[2] = PutBit(r, b, on)
    BY ItemFacts
  <1>2. Selects(s, 1, 2) /\ s[1].dev = d
    BY <1>1 DEF Selects, Select
  <1> HIDE DEF s
  <1>3. Act(s, 2, <<d, r, b>>, on)
    BY <1>1, <1>2 DEF Act, PutBit, Change
  <1>4. Led(c, s, 2, <<d, r, b>>)
    BY DEF Led, Plain
  <1>5. s[1].call = "select" /\ s[2].call = "change"
    BY <1>1, <1>3 DEF Select, Act
  <1>6. Wished(c, s, wish)
    BY <1>1, <1>3, <1>4, <1>5 DEF Wished, Plain
  <1>7. Free(s)
    BY <1>1, <1>5 DEF Free
  <1>8. QED
    BY <1>6, <1>7 DEF Shape, s

-----------------------------------------------------------------------------
(* The tables. *)

\* A nonempty set of numbers has a least one.
LEMMA Least ==
  ASSUME NEW S, S \subseteq Nat, S # {}
  PROVE  \E k \in S : \A m \in S : k <= m
  <1>1. IsWellFoundedOn(OpToRel(<, Nat), Nat)
    BY NatLessThanWellFounded
  <1>2. PICK k \in S : \A m \in S : <<m, k>> \notin OpToRel(<, Nat)
    <2> DEFINE R == OpToRel(<, Nat)
    <2> HIDE DEF R
    <2>1. IsWellFoundedOn(R, Nat)
      BY <1>1 DEF R
    <2>2. \E k \in S : \A m \in S : ~(<<m, k>> \in R)
      BY <2>1, WFMin
    <2>3. QED
      BY <2>2 DEF R
  <1>3. \A m \in S : ~(m < k)
    BY <1>2 DEF OpToRel
  <1>4. QED
    BY <1>3

\* What is found is in a row that names x, the first one.
LEMMA FindRow ==
  ASSUME NEW rows, NEW n \in Nat, DOMAIN rows = 1..n, NEW x, Find(rows, x) # -1
  PROVE  \E k \in 1..n : /\ x \in rows[k][1]
                         /\ \A m \in 1..(k - 1) : x \notin rows[m][1]
                         /\ Find(rows, x) = rows[k][2]
  <1> DEFINE S == {k \in 1..n : x \in rows[k][1]}
             First(k) == x \in rows[k][1] /\ \A m \in 1..(k - 1) : x \notin rows[m][1]
  <1>1. S # {} /\ S \subseteq Nat
    BY DEF Find
  <1>2. PICK k \in S : \A m \in S : k <= m
    <2> HIDE DEF S
    <2>1. QED
      BY <1>1, Least
  <1>3. k \in 1..n /\ First(k)
    BY <1>2
  <1>4. \E i \in DOMAIN rows : First(i)
    BY <1>3
  <1>5. LET i == CHOOSE i \in DOMAIN rows : First(i) IN i \in 1..n /\ First(i)
    BY <1>4
  <1>6. Find(rows, x) = rows[CHOOSE i \in DOMAIN rows : First(i)][2]
    BY <1>1 DEF Find
  <1>7. QED
    BY <1>5, <1>6

Dirs == {224, 228, 232, 240, 244}

LEMMA Nct6Dirs ==
  ASSUME NEW x, Find(Nct6Index, x) # -1
  PROVE  Find(Nct6Index, x) \in Dirs
  <1>1. DOMAIN Nct6Index = 1..11
    BY DEF Nct6Index
  <1>2. \A k \in 1..11 : Nct6Index[k][2] \in Dirs
    BY DEF Nct6Index, Dirs
  <1>3. PICK k \in 1..11 : Find(Nct6Index, x) = Nct6Index[k][2]
    BY <1>1, FindRow
  <1>4. QED
    BY <1>2, <1>3

LEMMA Nct5Dirs ==
  ASSUME NEW x, Find(Nct5Index, x) # -1
  PROVE  /\ Find(Nct5Index, x) \in Dirs \ {232}
         /\ Find(Nct5Index, x) = 228 => x \in 80..87
  <1>1. DOMAIN Nct5Index = 1..6
    BY DEF Nct5Index
  <1>2. \A k \in 1..6 : /\ Nct5Index[k][2] \in Dirs \ {232}
                        /\ Nct5Index[k][2] = 228 => Nct5Index[k][1] = 80..87
    BY DEF Nct5Index, Dirs
  <1>3. PICK k \in 1..6 : x \in Nct5Index[k][1] /\ Find(Nct5Index, x) = Nct5Index[k][2]
    BY <1>1, FindRow
  <1>4. QED
    BY <1>2, <1>3

\* Pins whose registers are at 228 are in device 7.
LEMMA Nct5Eighty ==
  ASSUME NEW g \in 80..87
  PROVE  Ldn("NCT5533D", g) = 7
  <1> DEFINE rows == << <<{0}, 8>>, <<2..5, 9>>, <<{7, 8}, 7>> >>
  <1>1. DOMAIN rows = 1..3 /\ g \div 10 = 8
    OBVIOUS
  <1>2. /\ rows[1] = <<{0}, 8>> /\ rows[2] = <<2..5, 9>> /\ rows[3] = <<{7, 8}, 7>>
    OBVIOUS
  <1>3. Ldn("NCT5533D", g) = Find(rows, g \div 10)
    BY DEF Ldn
  <1> HIDE DEF rows
  <1>4. Find(rows, 8) # -1
    <2>1. \A k \in 1..3 : rows[k][2] # -1
      BY <1>2
    <2>2. \E k \in 1..3 : 8 \in rows[k][1]
      BY <1>2
    <2>3. \E k \in DOMAIN rows : 8 \in rows[k][1] /\ \A m \in 1..(k - 1) : 8 \notin rows[m][1]
      <3>1. 8 \in rows[3][1] /\ \A m \in 1..(3 - 1) : 8 \notin rows[m][1]
        BY <1>2
      <3>2. QED
        BY <1>1, <3>1
    <2>4. (CHOOSE k \in DOMAIN rows : 8 \in rows[k][1] /\ \A m \in 1..(k - 1) : 8 \notin rows[m][1]) \in 1..3
      BY <1>1, <2>3
    <2>5. QED
      BY <1>1, <2>1, <2>2, <2>4 DEF Find
  <1>5. ASSUME NEW x, x = 8
        PROVE  Find(rows, x) = 7
    <2>1. DOMAIN rows = 1..3 /\ Find(rows, x) # -1
      BY <1>1, <1>4, <1>5
    <2>2. PICK n \in Nat : n = 3
      OBVIOUS
    <2>3. PICK k \in 1..n : /\ x \in rows[k][1]
                            /\ \A m \in 1..(k - 1) : x \notin rows[m][1]
                            /\ Find(rows, x) = rows[k][2]
      <3>1. DOMAIN rows = 1..n
        BY <2>1, <2>2
      <3>2. QED
        BY <2>1, <3>1, FindRow
    <2>4. 8 \notin rows[1][1] /\ 8 \notin rows[2][1] /\ rows[3][2] = 7
      BY <1>2
    <2>5. k = 3
      BY <1>5, <2>2, <2>3, <2>4
    <2>6. QED
      BY <2>3, <2>4, <2>5
  <1>6. Find(rows, g \div 10) = 7
    BY <1>1, <1>5
  <1>7. QED
    BY <1>3, <1>6, Zenon

\* The numbers of a pin that all tables have.
LEMMA Numbers ==
  ASSUME NEW c, Supported(c), NEW g \in Nat, Known(c, g)
  PROVE  /\ EnOffset(c, g) \in 0..7
         /\ DirIndex(c, g) \in Dirs
         /\ c = "NCT5533D" => DirIndex(c, g) # 232
         /\ c = "NCT5533D" /\ DirIndex(c, g) = 228 => Ldn(c, g) = 7
  <1>1. EnOffset(c, g) # -1 /\ DirIndex(c, g) # -1
    BY DEF Known
  <1>2. EnOffset(c, g) \in 0..7
    BY <1>1 DEF EnOffset, Supported
  <1>3. CASE c \in {"NCT6776F", "NCT6779D"}
    <2>1. DirIndex(c, g) = Find(Nct6Index, g)
      BY <1>3 DEF DirIndex
    <2>2. QED
      BY <1>1, <1>2, <1>3, <2>1, Nct6Dirs
  <1>4. CASE c = "NCT5533D"
    <2>1. DirIndex(c, g) = Find(Nct5Index, g)
      BY <1>4 DEF DirIndex
    <2>2. QED
      BY <1>1, <1>2, <1>4, <2>1, Nct5Dirs, Nct5Eighty
  <1>5. QED
    BY <1>3, <1>4 DEF Supported

-----------------------------------------------------------------------------
(* What a run wishes for. *)

\* The registers of the pins.
Faces(c) == {<<InBits[c][g][1], InBits[c][g][2]>> : g \in Pin[c]}
              \cup {<<DataBits[c][g][1], DataBits[c][g][2]>> : g \in Pin[c]}

\* Bits that have one level in all runs: groups are enabled, and pins have
\* their pin function.
Common(c) == {w \in Spot \X BOOLEAN :
  /\ <<w[1][1], w[1][2]>> \notin Faces(c)
  /\ w[2] <=> w[1][2] \in {28, 42, 43, 48}}

\* The pins outs are driven to level high, and the pins ins are inputs.
Wish(c, outs, ins, high) == Common(c)
  \cup {<<InBits[c][g], FALSE>> : g \in outs}
  \cup {<<InBits[c][g], TRUE>> : g \in ins}
  \cup {<<DataBits[c][g], high>> : g \in outs}

LEMMA PinBits ==
  ASSUME NEW c \in Chip, Supported(c), NEW g \in Pin[c]
  PROVE  /\ g \in Nat /\ g % 10 \in 0..7
         /\ Known(c, g) /\ EnOffset(c, g) \in 0..7 /\ DirIndex(c, g) \in Dirs
         /\ GroupBits[c][g] = <<Bits(EnLdn(c, g)), 48, EnOffset(c, g)>>
         /\ InBits[c][g] = <<Bits(Ldn(c, g)), DirIndex(c, g), g % 10>>
         /\ DataBits[c][g] = <<Bits(Ldn(c, g)), DirIndex(c, g) + 1, g % 10>>
         /\ GroupBits[c][g] \in Spot /\ InBits[c][g] \in Spot /\ DataBits[c][g] \in Spot
  <1>1. g \in Nat /\ g % 10 \in 0..7 /\ Known(c, g)
    <2>1. /\ Pin[c] \subseteq 0..109
          /\ \A h \in Pin[c] : DirIndex(c, h) # -1 /\ h % 10 < 8 /\ (Supported(c) => Known(c, h))
      BY GpioAssumption, Zenon
    <2>2. \A n \in 0..109 : n \in Nat
      OBVIOUS
    <2>3. g \in Nat
      BY <2>1, <2>2, Zenon
    <2>4. g % 10 \in Nat
      BY <2>3
    <2>5. g % 10 < 8 /\ Known(c, g)
      BY <2>1, Zenon
    <2>6. QED
      BY <2>3, <2>4, <2>5
  <1>2. EnOffset(c, g) \in 0..7 /\ DirIndex(c, g) \in Dirs
    BY <1>1, Numbers
  <1>3. /\ GroupBits[c][g] = <<Bits(EnLdn(c, g)), 48, EnOffset(c, g)>>
        /\ InBits[c][g] = <<Bits(Ldn(c, g)), DirIndex(c, g), g % 10>>
        /\ DataBits[c][g] = <<Bits(Ldn(c, g)), DirIndex(c, g) + 1, g % 10>>
    BY DEF GroupBits, InBits, DataBits
  <1>4. Bits(EnLdn(c, g)) \in Byte /\ Bits(Ldn(c, g)) \in Byte
    BY DEF Bits, Byte
  <1>5. DirIndex(c, g) \in 0..255 /\ DirIndex(c, g) + 1 \in 0..255
    BY <1>2 DEF Dirs
  <1>6. QED
    BY <1>1, <1>2, <1>3, <1>4, <1>5 DEF Spot

\* Directions and levels are in registers of their own, none of which enables
\* groups, and two pins share no bit.
LEMMA Apart ==
  ASSUME NEW c \in Chip, Supported(c), NEW g \in Pin[c], NEW h \in Pin[c]
  PROVE  /\ InBits[c][g][2] \in Dirs
         /\ DataBits[c][g][2] \in {225, 229, 233, 241, 245}
         /\ InBits[c][g][2] # DataBits[c][h][2]
         /\ InBits[c][g] # DataBits[c][h]
         /\ DataBits[c][g] = DataBits[c][h] => g = h
         /\ InBits[c][g] = InBits[c][h] => g = h
         /\ <<DataBits[c][g][1], DataBits[c][g][2]>> = <<DataBits[c][h][1], DataBits[c][h][2]>> =>
              GroupBits[c][g] = GroupBits[c][h]
  <1>1. /\ DirIndex(c, g) \in Dirs /\ DirIndex(c, h) \in Dirs
        /\ InBits[c][g] = <<Bits(Ldn(c, g)), DirIndex(c, g), g % 10>>
        /\ DataBits[c][g] = <<Bits(Ldn(c, g)), DirIndex(c, g) + 1, g % 10>>
        /\ InBits[c][h] = <<Bits(Ldn(c, h)), DirIndex(c, h), h % 10>>
        /\ DataBits[c][h] = <<Bits(Ldn(c, h)), DirIndex(c, h) + 1, h % 10>>
    BY PinBits
  <1>2. /\ g # h => InBits[c][g] # InBits[c][h]
        /\ Bits(Ldn(c, g)) = Bits(Ldn(c, h)) /\ DirIndex(c, g) = DirIndex(c, h) =>
             GroupBits[c][g] = GroupBits[c][h]
    <2>1. \A a, b \in Pin[c] :
            /\ a # b => InBits[c][a] # InBits[c][b]
            /\ Bits(Ldn(c, a)) = Bits(Ldn(c, b)) /\ DirIndex(c, a) = DirIndex(c, b) =>
                 GroupBits[c][a] = GroupBits[c][b]
      BY GpioAssumption, Zenon
    <2>2. QED
      BY <2>1
  <1>3. /\ InBits[c][g][2] \in Dirs /\ InBits[c][h][2] \in Dirs
        /\ DataBits[c][g][2] \in {225, 229, 233, 241, 245}
        /\ DataBits[c][h][2] \in {225, 229, 233, 241, 245}
    BY <1>1 DEF Dirs
  <1>4. InBits[c][g][2] # DataBits[c][h][2]
    BY <1>3 DEF Dirs
  <1>5. DirIndex(c, g) + 1 = DirIndex(c, h) + 1 => DirIndex(c, g) = DirIndex(c, h)
    BY <1>1 DEF Dirs
  <1>6. DataBits[c][g] = DataBits[c][h] => g = h
    BY <1>1, <1>2, <1>5
  <1>7. <<DataBits[c][g][1], DataBits[c][g][2]>> = <<DataBits[c][h][1], DataBits[c][h][2]>> =>
          GroupBits[c][g] = GroupBits[c][h]
    BY <1>1, <1>2, <1>5
  <1>8. QED
    BY <1>2, <1>3, <1>4, <1>6, <1>7

LEMMA Fields == \A a, b : <<a, b>>[1] = a /\ <<a, b>>[2] = b
  OBVIOUS

\* A run wishes for one level of a bit, and for levels and directions only
\* those of its pins.
LEMMA WishFacts ==
  ASSUME NEW c \in Chip, Supported(c), NEW outs \in SUBSET Pin[c], NEW ins \in SUBSET Pin[c],
         outs \cap ins = {}, NEW high \in BOOLEAN, NEW w \in Wish(c, outs, ins, high)
  PROVE  /\ w[1] \in Spot /\ w[2] \in BOOLEAN
         /\ \A v \in Wish(c, outs, ins, high) : v[1] = w[1] => v[2] = w[2]
         /\ \A g \in Pin[c] :
              /\ <<w[1][1], w[1][2]>> = <<DataBits[c][g][1], DataBits[c][g][2]>> =>
                   \E h \in outs : w[1] = DataBits[c][h]
              /\ w[1] = InBits[c][g] => g \in outs \cup ins
  <1> DEFINE Out(v)  == v[2] = FALSE /\ \E g \in outs : v[1] = InBits[c][g]
             In(v)   == v[2] = TRUE /\ \E g \in ins : v[1] = InBits[c][g]
             Data(v) == v[2] = high /\ \E g \in outs : v[1] = DataBits[c][g]
  <1>1. \A v \in Wish(c, outs, ins, high) : v \in Common(c) \/ Out(v) \/ In(v) \/ Data(v)
    <2>1. SUFFICES ASSUME NEW v \in Wish(c, outs, ins, high), v \notin Common(c)
                   PROVE  Out(v) \/ In(v) \/ Data(v)
      OBVIOUS
    <2>2. CASE v \in {<<InBits[c][g], FALSE>> : g \in outs}
      <3>1. PICK g \in outs : v = <<InBits[c][g], FALSE>>
        BY <2>2
      <3>2. v[1] = InBits[c][g] /\ v[2] = FALSE
        BY <3>1, Fields, Zenon
      <3>3. QED
        BY <3>2
    <2>3. CASE v \in {<<InBits[c][g], TRUE>> : g \in ins}
      <3>1. PICK g \in ins : v = <<InBits[c][g], TRUE>>
        BY <2>3
      <3>2. v[1] = InBits[c][g] /\ v[2] = TRUE
        BY <3>1, Fields, Zenon
      <3>3. QED
        BY <3>2
    <2>4. CASE v \in {<<DataBits[c][g], high>> : g \in outs}
      BY <2>4
    <2>5. QED
      BY <2>1, <2>2, <2>3, <2>4 DEF Wish
  <1>2. ASSUME NEW v, Out(v) \/ In(v)
        PROVE  /\ v[1] \in Spot /\ v[2] \in BOOLEAN
               /\ <<v[1][1], v[1][2]>> \in Faces(c)
               /\ \A g \in Pin[c] : /\ v[1][2] # DataBits[c][g][2]
                                    /\ v[1] = InBits[c][g] => g \in outs \cup ins
    <2>1. PICK h \in outs \cup ins : v[1] = InBits[c][h]
      BY <1>2
    <2>2. h \in Pin[c]
      OBVIOUS
    <2>3. v[2] \in BOOLEAN
      BY <1>2
    <2>4. v[1] \in Spot
      BY <2>1, <2>2, PinBits
    <2>5. <<v[1][1], v[1][2]>> \in Faces(c)
      BY <2>1, <2>2 DEF Faces
    <2>6. ASSUME NEW g \in Pin[c]
          PROVE  v[1][2] # DataBits[c][g][2] /\ (v[1] = InBits[c][g] => g \in outs \cup ins)
      BY <2>1, <2>2, Apart
    <2>7. QED
      BY <2>3, <2>4, <2>5, <2>6
  <1>3. ASSUME NEW v, Data(v)
        PROVE  /\ v[1] \in Spot /\ v[2] \in BOOLEAN
               /\ <<v[1][1], v[1][2]>> \in Faces(c)
               /\ \A g \in Pin[c] : v[1] # InBits[c][g]
    <2>1. PICK h \in outs : v[1] = DataBits[c][h]
      BY <1>3
    <2>2. h \in Pin[c]
      OBVIOUS
    <2>3. v[1] \in Spot /\ v[2] \in BOOLEAN
      BY <1>3, <2>1, <2>2, PinBits
    <2>4. <<v[1][1], v[1][2]>> \in Faces(c)
      BY <2>1, <2>2 DEF Faces
    <2>5. \A g \in Pin[c] : v[1] # InBits[c][g]
      BY <2>1, <2>2, Apart
    <2>6. QED
      BY <2>3, <2>4, <2>5
  <1>4. \A v \in Common(c) : /\ v[1] \in Spot /\ v[2] \in BOOLEAN
                             /\ <<v[1][1], v[1][2]>> \notin Faces(c)
    BY DEF Common
  <1>5. \A v \in Common(c), u \in Common(c) : v[1] = u[1] => v[2] = u[2]
    <2>1. \A v \in Common(c) : v[2] \in BOOLEAN /\ (v[2] <=> v[1][2] \in {28, 42, 43, 48})
      BY DEF Common
    <2>2. QED
      BY <2>1
  <1>6. ASSUME NEW v, NEW u, Out(v), In(u)
        PROVE  v[1] # u[1]
    <2>1. PICK g \in outs, h \in ins : v[1] = InBits[c][g] /\ u[1] = InBits[c][h]
      BY <1>6
    <2>2. g # h /\ g \in Pin[c] /\ h \in Pin[c]
      OBVIOUS
    <2>3. QED
      BY <2>1, <2>2, Apart
  <1>7. ASSUME NEW v, NEW u, Out(v) \/ In(v), Data(u)
        PROVE  v[1] # u[1]
    <2>1. PICK g \in outs \cup ins, h \in outs : v[1] = InBits[c][g] /\ u[1] = DataBits[c][h]
      BY <1>7
    <2>2. g \in Pin[c] /\ h \in Pin[c]
      OBVIOUS
    <2>3. QED
      BY <2>1, <2>2, Apart
  <1>8. \A v, u : \/ Data(v) /\ Data(u)
                  \/ In(v) /\ In(u)
                  \/ Out(v) /\ Out(u)
                  => v[2] = u[2]
    OBVIOUS
  <1> HIDE DEF Out, In, Data
  <1>9. ASSUME NEW v \in Wish(c, outs, ins, high), v[1] = w[1]
        PROVE  v[2] = w[2]
    <2>1. CASE v \in Common(c)
      <3>1. <<w[1][1], w[1][2]>> \notin Faces(c)
        BY <1>4, <1>9, <2>1
      <3>2. w \in Common(c)
        BY <1>1, <1>2, <1>3, <3>1
      <3>3. QED
        BY <1>5, <1>9, <2>1, <3>2
    <2>2. CASE v \notin Common(c)
      <3>1. Out(v) \/ In(v) \/ Data(v)
        BY <1>1, <2>2
      <3>2. <<w[1][1], w[1][2]>> \in Faces(c)
        BY <1>2, <1>3, <1>9, <3>1
      <3>3. Out(w) \/ In(w) \/ Data(w)
        BY <1>1, <1>4, <3>2
      <3>4. QED
        BY <1>6, <1>7, <1>8, <1>9, <3>1, <3>3
    <2>3. QED
      BY <2>1, <2>2
  <1>10. ASSUME NEW g \in Pin[c],
                <<w[1][1], w[1][2]>> = <<DataBits[c][g][1], DataBits[c][g][2]>>
         PROVE  \E h \in outs : w[1] = DataBits[c][h]
    <2>1. <<w[1][1], w[1][2]>> \in Faces(c)
      BY <1>10 DEF Faces
    <2>2. w[1][2] = DataBits[c][g][2]
      BY <1>10
    <2>3. Data(w)
      BY <1>1, <1>2, <1>4, <2>1, <2>2
    <2>4. QED
      BY <2>3 DEF Data
  <1>11. ASSUME NEW g \in Pin[c], w[1] = InBits[c][g]
         PROVE  g \in outs \cup ins
    <2>1. <<w[1][1], w[1][2]>> \in Faces(c)
      BY <1>11 DEF Faces
    <2>2. QED
      BY <1>1, <1>2, <1>3, <1>4, <1>11, <2>1
  <1>12. QED
    BY <1>1, <1>2, <1>3, <1>4, <1>9, <1>10, <1>11

-----------------------------------------------------------------------------
(* The programs of the tools. *)

LEMMA ShapeMore ==
  ASSUME NEW c, NEW s, NEW few, NEW more, Shape(c, s, few), few \subseteq more
  PROVE  Shape(c, s, more)
  BY DEF Shape, Wished

LEMMA CommonPlain ==
  ASSUME NEW c \in Chip, Supported(c), NEW t \in Spot, NEW on \in BOOLEAN,
         <<t[1], t[2]>> \notin Faces(c), on <=> t[2] \in {28, 42, 43, 48}
  PROVE  Plain(c, Common(c), t, on)
  <1>1. <<t, on>> \in Common(c)
    BY DEF Common
  <1>2. \A g \in Pin[c] : t # DataBits[c][g]
    BY DEF Faces
  <1>3. QED
    BY <1>1, <1>2 DEF Plain

LEMMA LowIndex ==
  ASSUME NEW c \in Chip, Supported(c), NEW dev, NEW r \in Nat, r < 224
  PROVE  <<dev, r>> \notin Faces(c)
  <1>1. \A g \in Pin[c] : InBits[c][g][2] >= 224 /\ DataBits[c][g][2] >= 224
    BY Apart DEF Dirs
  <1>2. QED
    BY <1>1 DEF Faces

\* The registers of pin functions are not those of levels.
LEMMA FunctionCells ==
  ASSUME "NCT5533D" \in Chip, NEW dev, NEW r,
         r \in {233, 235, 236, 237} \/ (dev = 8 /\ r = 228)
  PROVE  <<Bits(dev), r>> \notin Faces("NCT5533D")
  <1> DEFINE c == "NCT5533D"
  <1>1. c \in Chip /\ Supported(c)
    BY DEF Supported
  <1> HIDE DEF c
  <1>2. Bits(8) # Bits(7)
    <2>1. 3 \in Bits(8) /\ 3 \notin Bits(7)
      BY DEF Bits
    <2>2. QED
      BY <2>1
  <1>3. ASSUME NEW g \in Pin[c]
        PROVE  /\ <<Bits(dev), r>> # <<InBits[c][g][1], InBits[c][g][2]>>
               /\ <<Bits(dev), r>> # <<DataBits[c][g][1], DataBits[c][g][2]>>
    <2>1. /\ InBits[c][g] = <<Bits(Ldn(c, g)), DirIndex(c, g), g % 10>>
          /\ DataBits[c][g] = <<Bits(Ldn(c, g)), DirIndex(c, g) + 1, g % 10>>
          /\ g \in Nat /\ Known(c, g)
      BY <1>1, PinBits
    <2>2. /\ DirIndex(c, g) \in Dirs \ {232}
          /\ DirIndex(c, g) = 228 => Ldn(c, g) = 7
      BY <1>1, <2>1, Numbers DEF c
    <2>3. DirIndex(c, g) = r => dev = 8 /\ Ldn(c, g) = 7
      BY <2>2 DEF Dirs
    <2>4. DirIndex(c, g) + 1 # r
      BY <2>2 DEF Dirs
    <2>5. QED
      BY <1>2, <2>1, <2>3, <2>4
  <1>4. <<Bits(dev), r>> \notin Faces(c)
    BY <1>3 DEF Faces
  <1>5. QED
    BY <1>4 DEF c

\* The calls MultiFunc consists of.
Up(r, b)        == <<PutBit(r, b, TRUE)>>
Down(r, b)      == <<PutBit(r, b, FALSE)>>
Own(g, dev, r)  == <<Select(Bits(dev)), PutBit(r, g % 10, FALSE)>>

LEMMA FunctionPieces ==
  ASSUME "NCT5533D" \in Chip, NEW g \in Nat
  PROVE  /\ \A r \in {28, 42, 43}, b \in 0..7 : Shape("NCT5533D", Up(r, b), Common("NCT5533D"))
         /\ \A b \in 0..7 : Shape("NCT5533D", Down(44, b), Common("NCT5533D"))
         /\ g % 10 \in 0..7 => \A dev, r : r \in {233, 235, 236, 237} \/ (dev = 8 /\ r = 228) =>
              Shape("NCT5533D", Own(g, dev, r), Common("NCT5533D"))
  <1> DEFINE c == "NCT5533D"
  <1>1. c \in Chip /\ Supported(c)
    BY DEF Supported
  <1> HIDE DEF c
  <1>2. ASSUME NEW r \in {28, 42, 43, 44}, NEW b \in 0..7
        PROVE  /\ r # 44 => Shape(c, Up(r, b), Common(c))
               /\ r = 44 => Shape(c, Down(r, b), Common(c))
    <2> DEFINE t == <<{}, r, b>>
    <2>1. t \in Spot /\ t[1] = {} /\ t[2] = r /\ r \in 0..47
      BY DEF Spot, Byte
    <2>2. <<t[1], t[2]>> \notin Faces(c)
      BY <1>1, <2>1, LowIndex
    <2>3. PICK on \in BOOLEAN : on <=> r \in {28, 42, 43, 48}
      OBVIOUS
    <2> HIDE DEF t
    <2>4. Plain(c, Common(c), t, on)
      BY <1>1, <2>1, <2>2, <2>3, CommonPlain
    <2>5. Shape(c, <<PutBit(r, b, on)>>, Common(c))
      BY <2>1, <2>4, OnePut DEF t
    <2>6. /\ r # 44 => PutBit(r, b, on) = PutBit(r, b, TRUE)
          /\ r = 44 => PutBit(r, b, on) = PutBit(r, b, FALSE)
      BY <2>3 DEF PutBit
    <2>7. QED
      BY <2>5, <2>6 DEF Up, Down
  <1>3. ASSUME g % 10 \in 0..7, NEW dev, NEW r, r \in {233, 235, 236, 237} \/ (dev = 8 /\ r = 228)
        PROVE  Shape(c, Own(g, dev, r), Common(c))
    <2> DEFINE t == <<Bits(dev), r, g % 10>>
    <2>1. r \in 48..255 /\ r \in 0..255 /\ Bits(dev) \in Byte
      BY <1>3 DEF Bits, Byte
    <2>2. t \in Spot /\ t[1] = Bits(dev) /\ t[2] = r
      BY <1>3, <2>1 DEF Spot
    <2>3. <<t[1], t[2]>> \notin Faces(c)
      BY <1>1, <1>3, <2>2, FunctionCells DEF c
    <2>4. PICK on \in BOOLEAN : on <=> r \in {28, 42, 43, 48}
      OBVIOUS
    <2> HIDE DEF t
    <2>5. Plain(c, Common(c), t, on)
      BY <1>1, <2>2, <2>3, <2>4, CommonPlain
    <2>6. Shape(c, <<Select(Bits(dev)), PutBit(r, g % 10, on)>>, Common(c))
      <3>1. PICK b \in 0..7 : b = g % 10
        BY <1>3
      <3>2. Plain(c, Common(c), <<Bits(dev), r, b>>, on)
        BY <2>5, <3>1 DEF t
      <3>3. Shape(c, <<Select(Bits(dev)), PutBit(r, b, on)>>, Common(c))
        BY <2>1, <3>2, SelectPut
      <3>4. QED
        BY <3>1, <3>3
    <2>7. PutBit(r, g % 10, on) = PutBit(r, g % 10, FALSE)
      BY <1>3, <2>4 DEF PutBit
    <2>8. QED
      BY <2>6, <2>7 DEF Own
  <1>4. QED
    BY <1>2, <1>3 DEF c

LEMMA FunctionShape ==
  ASSUME "NCT5533D" \in Chip, NEW g \in Nat
  PROVE  Shape("NCT5533D", MultiFunc(g), Common("NCT5533D"))
  <1>1. CASE g = 0
    <2>1. /\ g \in Nat /\ g # 4 /\ g \notin {20, 21} /\ g \notin {22, 23} /\ g # 26
          /\ g \notin {54, 56, 57} /\ g \notin {74, 75} /\ g \notin 80..87
      BY <1>1
    <2>2. MultiFunc(g) = Up(28, 0) \o Own(g, 8, 228)
      BY <1>1, <2>1, Zenon DEF MultiFunc, Up, Down, Own
    <2>3. g % 10 \in 0..7
      BY <1>1
    <2>4. /\ Shape("NCT5533D", Up(28, 0), Common("NCT5533D"))
          /\ Shape("NCT5533D", Own(g, 8, 228), Common("NCT5533D"))
      BY <2>3, FunctionPieces
    <2>5. QED
      BY <2>2, <2>4, ShapeJoined
  <1>2. CASE g = 4
    <2>1. /\ g \in Nat /\ g # 0 /\ g \notin {20, 21} /\ g \notin {22, 23} /\ g # 26
          /\ g \notin {54, 56, 57} /\ g \notin {74, 75} /\ g \notin 80..87
      BY <1>2
    <2>2. MultiFunc(g) = Up(28, 5)
      BY <1>2, <2>1, Zenon DEF MultiFunc, Up, Down, Own
    <2>3. QED
      BY <2>2, FunctionPieces
  <1>3. CASE g \in {20, 21}
    <2>1. /\ g \in Nat /\ g # 0 /\ g # 4 /\ g \notin {22, 23} /\ g # 26
          /\ g \notin {54, 56, 57} /\ g \notin {74, 75} /\ g \notin 80..87
      BY <1>3
    <2>2. MultiFunc(g) = Up(42, 0) \o Own(g, 9, 233)
      BY <1>3, <2>1, Zenon DEF MultiFunc, Up, Down, Own
    <2>3. g % 10 \in 0..7
      BY <1>3
    <2>4. /\ Shape("NCT5533D", Up(42, 0), Common("NCT5533D"))
          /\ Shape("NCT5533D", Own(g, 9, 233), Common("NCT5533D"))
      BY <2>3, FunctionPieces
    <2>5. QED
      BY <2>2, <2>4, ShapeJoined
  <1>4. CASE g \in {22, 23}
    <2>1. /\ g \in Nat /\ g # 0 /\ g # 4 /\ g \notin {20, 21} /\ g # 26
          /\ g \notin {54, 56, 57} /\ g \notin {74, 75} /\ g \notin 80..87
      BY <1>4
    <2>2. MultiFunc(g) = Up(42, 1) \o Own(g, 9, 233)
      BY <1>4, <2>1, Zenon DEF MultiFunc, Up, Down, Own
    <2>3. g % 10 \in 0..7
      BY <1>4
    <2>4. /\ Shape("NCT5533D", Up(42, 1), Common("NCT5533D"))
          /\ Shape("NCT5533D", Own(g, 9, 233), Common("NCT5533D"))
      BY <2>3, FunctionPieces
    <2>5. QED
      BY <2>2, <2>4, ShapeJoined
  <1>5. CASE g = 26
    <2>1. /\ g \in Nat /\ g # 0 /\ g # 4 /\ g \notin {20, 21} /\ g \notin {22, 23}
          /\ g \notin {54, 56, 57} /\ g \notin {74, 75} /\ g \notin 80..87
      BY <1>5
    <2>2. MultiFunc(g) = Down(44, 0)
      BY <1>5, <2>1, Zenon DEF MultiFunc, Up, Down, Own
    <2>3. QED
      BY <2>2, FunctionPieces
  <1>6. CASE g \in {54, 56, 57}
    <2>1. /\ g \in Nat /\ g # 0 /\ g # 4 /\ g \notin {20, 21} /\ g \notin {22, 23}
          /\ g # 26 /\ g \notin {74, 75} /\ g \notin 80..87
      BY <1>6
    <2>2. MultiFunc(g) = Own(g, 9, 235)
      BY <1>6, <2>1, Zenon DEF MultiFunc, Up, Down, Own
    <2>3. g % 10 \in 0..7
      BY <1>6
    <2>4. QED
      BY <2>2, <2>3, FunctionPieces
  <1>7. CASE g \in {74, 75}
    <2>1. /\ g \in Nat /\ g # 0 /\ g # 4 /\ g \notin {20, 21} /\ g \notin {22, 23}
          /\ g # 26 /\ g \notin {54, 56, 57} /\ g \notin 80..87
      BY <1>7
    <2>2. MultiFunc(g) = Up(43, (g % 10) + 1) \o Own(g, 7, 236)
      BY <1>7, <2>1, Zenon DEF MultiFunc, Up, Down, Own
    <2>3. g % 10 \in 0..7 /\ (g % 10) + 1 \in 0..7
      BY <1>7
    <2>4. /\ Shape("NCT5533D", Up(43, (g % 10) + 1), Common("NCT5533D"))
          /\ Shape("NCT5533D", Own(g, 7, 236), Common("NCT5533D"))
      BY <2>3, FunctionPieces
    <2>5. QED
      BY <2>2, <2>4, ShapeJoined
  <1>8. CASE g \in 80..87
    <2>1. /\ g \in Nat /\ g # 0 /\ g # 4 /\ g \notin {20, 21} /\ g \notin {22, 23}
          /\ g # 26 /\ g \notin {54, 56, 57} /\ g \notin {74, 75}
      BY <1>8
    <2>2. MultiFunc(g) = Own(g, 7, 237)
      BY <1>8, <2>1, Zenon DEF MultiFunc, Up, Down, Own
    <2>3. g % 10 \in 0..7
      BY <1>8
    <2>4. QED
      BY <2>2, <2>3, FunctionPieces
  <1>9. CASE /\ g # 0 /\ g # 4 /\ g \notin {20, 21} /\ g \notin {22, 23} /\ g # 26
             /\ g \notin {54, 56, 57} /\ g \notin {74, 75} /\ g \notin 80..87
    <2>1. MultiFunc(g) = <<>>
      BY <1>9, Zenon DEF MultiFunc
    <2>2. QED
      BY <2>1, Quiet, ItemFacts DEF Enter
  <1>10. QED
    BY <1>1, <1>2, <1>3, <1>4, <1>5, <1>6, <1>7, <1>8, <1>9

LEMMA ActHere ==
  ASSUME NEW s, NEW m \in 1..Len(s), NEW r \in 48..255, NEW b,
         s[m].call = "change", s[m].reg = r, s[m].clear = {b},
         NEW l \in 1..(m - 1), Selects(s, l, m)
  PROVE  /\ s[m].set = {b} => Act(s, m, <<s[l].dev, r, b>>, TRUE)
         /\ s[m].set = {} => Act(s, m, <<s[l].dev, r, b>>, FALSE)
  BY DEF Act

\* What Reach begins with for a number that is not incorrect.
Opening(e, k, d) == <<Select(e), PutBit(48, k, TRUE), Select(d)>>
Opens(s, e, k, d, rest) ==
  /\ s \in Seq(Item)
  /\ rest \in Seq(Item)
  /\ Len(s) = 3 + Len(rest)
  /\ s[1] = Select(e)
  /\ s[2].call = "change" /\ s[2].reg = 48 /\ s[2].clear = {k} /\ s[2].set = {k}
  /\ s[3] = Select(d)
  /\ \A i \in 1..Len(rest) : s[3 + i] = rest[i]

LEMMA Opened ==
  ASSUME NEW e \in Byte, NEW k \in 0..7, NEW d \in Byte, NEW rest \in Seq(Item)
  PROVE  Opens(Opening(e, k, d) \o rest, e, k, d, rest)
  <1> DEFINE x == PutBit(48, k, TRUE)
             u == <<Select(e), x, Select(d)>>
  <1>1. Select(e) \in Item /\ x \in Item /\ Select(d) \in Item
    <2>1. 48 \in Nat /\ k \in Nat /\ TRUE \in BOOLEAN
      OBVIOUS
    <2>2. x \in Item
      BY <2>1, ItemFacts, Zenon
    <2>3. QED
      BY <2>2, ItemFacts
  <1>2. x.call = "change" /\ x.reg = 48 /\ x.clear = {k} /\ x.set = {k}
    BY DEF PutBit, Change
  <1>3. Opening(e, k, d) = u
    BY DEF Opening
  <1> HIDE DEF x
  <1>4. u \in Seq(Item) /\ Len(u) = 3 /\ u[1] = Select(e) /\ u[2] = x /\ u[3] = Select(d)
    BY <1>1
  <1> HIDE DEF u
  <1>5. /\ u \o rest \in Seq(Item) /\ Len(u \o rest) = Len(u) + Len(rest)
        /\ \A i \in 1..Len(u) : (u \o rest)[i] = u[i]
        /\ \A i \in 1..Len(rest) : (u \o rest)[Len(u) + i] = rest[i]
    BY <1>4, Joined
  <1>6. (u \o rest)[1] = Select(e) /\ (u \o rest)[2] = x /\ (u \o rest)[3] = Select(d)
    BY <1>4, <1>5
  <1>7. Opens(u \o rest, e, k, d, rest)
    BY <1>2, <1>4, <1>5, <1>6 DEF Opens
  <1>8. QED
    BY <1>3, <1>7

LEMMA Reached ==
  ASSUME NEW c, NEW g, EnLdn(c, g) # -1, EnOffset(c, g) # -1, NEW calls
  PROVE  Reach(c, g, calls) = Opening(Bits(EnLdn(c, g)), EnOffset(c, g), Bits(Ldn(c, g)))
                                \o (IF DirIndex(c, g) = -1 THEN <<GiveUp>> ELSE calls)
  BY Zenon DEF Reach, Opening

LEMMA EnableAct ==
  ASSUME NEW e \in Byte, NEW k \in 0..7, NEW d \in Byte,
         NEW s, NEW rest, Opens(s, e, k, d, rest)
  PROVE  /\ Act(s, 2, <<e, 48, k>>, TRUE)
         /\ s[1].call = "select" /\ s[3].call = "select"
         /\ s[3].dev = d /\ Selects(s, 3, 4)
         /\ s[4].call # "select" => Selects(s, 3, 5)
  <1>1. s[1].call = "select" /\ s[1].dev = e /\ s[3].call = "select" /\ s[3].dev = d
    BY DEF Select, Opens
  <1>2. /\ s[2].call = "change" /\ s[2].reg = 48 /\ s[2].clear = {k} /\ s[2].set = {k}
        /\ Len(s) \in Nat /\ Len(s) >= 3
    BY DEF Opens
  <1>3. Selects(s, 1, 2) /\ Selects(s, 3, 4)
    BY <1>1, <1>2 DEF Selects
  <1>4. Act(s, 2, <<e, 48, k>>, TRUE)
    <2>1. 2 \in 1..Len(s) /\ 48 \in 48..255 /\ 1 \in 1..(2 - 1)
      BY <1>2
    <2>2. QED
      BY <1>1, <1>2, <1>3, <2>1, ActHere
  <1>5. s[4].call # "select" => Selects(s, 3, 5)
    BY <1>1 DEF Selects
  <1>6. QED
    BY <1>1, <1>3, <1>4, <1>5

LEMMA EnableWish ==
  ASSUME NEW c \in Chip, Supported(c), NEW g \in Pin[c]
  PROVE  <<GroupBits[c][g], TRUE>> \in Common(c)
  <1>1. /\ GroupBits[c][g] \in Spot
        /\ GroupBits[c][g] = <<Bits(EnLdn(c, g)), 48, EnOffset(c, g)>>
    BY PinBits
  <1>2. <<GroupBits[c][g][1], GroupBits[c][g][2]>> \notin Faces(c)
    BY <1>1, LowIndex
  <1>3. GroupBits[c][g][2] = 48
    BY <1>1
  <1>4. Plain(c, Common(c), GroupBits[c][g], TRUE)
    BY <1>1, <1>2, <1>3, CommonPlain
  <1>5. QED
    BY <1>4 DEF Plain

\* sio_gpio_config and sio_gpio_set_then_read enable the pin's group, make it
\* an output and set its level.
LEMMA OutPiece ==
  ASSUME NEW c \in Chip, Supported(c), NEW outs \in SUBSET Pin[c], NEW ins,
         NEW high \in BOOLEAN, NEW g \in outs
  PROVE  LET s == Reach(c, g, DirOut(DirIndex(c, g), g % 10, high))
         IN /\ Shape(c, s, Wish(c, outs, ins, high))
            /\ Has(s, GroupBits[c][g], TRUE) /\ Has(s, InBits[c][g], FALSE)
            /\ Has(s, DataBits[c][g], high)
  <1> DEFINE e == Bits(EnLdn(c, g))
             k == EnOffset(c, g)
             d == Bits(Ldn(c, g))
             r == DirIndex(c, g)
             b == g % 10
             x == PutBit(r, b, FALSE)
             y == PutBit(r + 1, b, high)
             calls == DirOut(r, b, high)
             s == Reach(c, g, calls)
             W == Wish(c, outs, ins, high)
  <1>1. /\ g \in Pin[c] /\ b \in 0..7 /\ k \in 0..7 /\ e \in Byte /\ d \in Byte
        /\ GroupBits[c][g] = <<e, 48, k>>
        /\ InBits[c][g] = <<d, r, b>>
        /\ DataBits[c][g] = <<d, r + 1, b>>
        /\ EnLdn(c, g) # -1 /\ r # -1
    <2>1. g \in Pin[c] /\ e \in Byte /\ d \in Byte
      BY DEF Bits, Byte
    <2>2. Known(c, g)
      BY <2>1, PinBits
    <2>3. QED
      BY <2>1, <2>2, PinBits DEF Known
  <1>2. r \in 48..255 /\ r + 1 \in 48..255 /\ r \in Nat /\ b \in Nat
    <2>1. r \in Dirs
      BY <1>1, PinBits
    <2>2. QED
      BY <1>1, <2>1 DEF Dirs
  <1>3. /\ calls \in Seq(Item) /\ Len(calls) = 2
        /\ calls[1] = x /\ calls[2] = y
    <2>1. x \in Item
      BY <1>2, ItemFacts, Zenon
    <2>2. y \in Item
      BY <1>2, ItemFacts
    <2> HIDE DEF r, b
    <2>3. calls = <<x, y>>
      BY DEF DirOut
    <2> HIDE DEF calls, x, y
    <2>4. QED
      BY <2>1, <2>2, <2>3
  <1>4. /\ Opens(s, e, k, d, calls) /\ s \in Seq(Item) /\ Len(s) = 5
        /\ s[2].call = "change" /\ s[4] = x /\ s[5] = y
    <2>1. s = Opening(e, k, d) \o calls
      <3>1. EnLdn(c, g) # -1 /\ EnOffset(c, g) # -1 /\ DirIndex(c, g) # -1
        BY <1>1
      <3>2. QED
        BY <3>1, Reached, Zenon
    <2> HIDE DEF calls, x, y, s, e, k, d
    <2>2. Opens(s, e, k, d, calls)
      BY <1>1, <1>3, <2>1, Opened
    <2>3. s[3 + 1] = calls[1] /\ s[3 + 2] = calls[2]
      BY <1>3, <2>2 DEF Opens
    <2>4. QED
      BY <1>3, <2>2, <2>3 DEF Opens
  <1> HIDE DEF e, k, d, r, b, s, calls, x, y
  <1>5. /\ s[4].call = "change" /\ s[4].reg = r /\ s[4].clear = {b} /\ s[4].set = {}
        /\ s[5].call = "change" /\ s[5].reg = r + 1 /\ s[5].clear = {b}
        /\ s[5].set = IF high THEN {b} ELSE {}
    BY <1>4 DEF PutBit, Change, x, y
  <1>6. /\ Act(s, 2, <<e, 48, k>>, TRUE)
        /\ s[1].call = "select" /\ s[3].call = "select"
        /\ s[3].dev = d /\ Selects(s, 3, 4) /\ Selects(s, 3, 5)
    <2>1. /\ Act(s, 2, <<e, 48, k>>, TRUE)
          /\ s[1].call = "select" /\ s[3].call = "select"
          /\ s[3].dev = d /\ Selects(s, 3, 4)
          /\ s[4].call # "select" => Selects(s, 3, 5)
      BY <1>1, <1>4, EnableAct
    <2>2. QED
      BY <1>5, <2>1
  <1>7. Act(s, 4, <<d, r, b>>, FALSE)
    <2>1. 4 \in 1..Len(s) /\ 3 \in 1..(4 - 1)
      BY <1>4
    <2>2. QED
      BY <1>2, <1>5, <1>6, <2>1, ActHere
  <1>8. Act(s, 5, <<d, r + 1, b>>, high)
    BY <1>2, <1>4, <1>5, <1>6 DEF Act
  <1>9. Led(c, s, 2, GroupBits[c][g]) /\ Led(c, s, 4, InBits[c][g])
    <2>1. \A h \in Pin[c] : GroupBits[c][g] # DataBits[c][h] /\ InBits[c][g] # DataBits[c][h]
      BY <1>1, Apart
    <2>2. QED
      BY <2>1 DEF Led
  <1>10. Led(c, s, 5, DataBits[c][g])
    <2>1. \A h \in Pin[c] : DataBits[c][g] = DataBits[c][h] => h = g
      BY <1>1, Apart
    <2>2. 2 \in 1..(5 - 1) /\ 4 \in 1..(5 - 1)
      OBVIOUS
    <2>3. QED
      BY <1>1, <1>6, <1>7, <2>1, <2>2 DEF Led
  <1>11. /\ <<GroupBits[c][g], TRUE>> \in W /\ <<InBits[c][g], FALSE>> \in W
         /\ <<DataBits[c][g], high>> \in W
    <2>1. <<InBits[c][g], FALSE>> \in W
      BY Zenon DEF Wish
    <2>2. <<DataBits[c][g], high>> \in W
      BY DEF Wish
    <2>3. <<GroupBits[c][g], TRUE>> \in Common(c)
      BY <1>1, EnableWish
    <2>4. QED
      BY <2>1, <2>2, <2>3 DEF Wish
  <1>free. Free(s)
    <2>1. \A m \in 1..Len(s) : m \in {1, 2, 3, 4, 5}
      BY <1>4
    <2>2. QED
      BY <1>4, <1>5, <1>6, <2>1 DEF Free
  <1>12. Shape(c, s, W)
    <2>1. ASSUME NEW m \in 1..Len(s), s[m].call = "change"
          PROVE  \E w \in W : Act(s, m, w[1], w[2]) /\ Led(c, s, m, w[1])
      <3>1. m = 2 \/ m = 4 \/ m = 5
        BY <1>4, <1>6, <2>1
      <3>2. CASE m = 2
        <4>1. Act(s, m, GroupBits[c][g], TRUE) /\ Led(c, s, m, GroupBits[c][g])
          BY <1>1, <1>6, <1>9, <3>2
        <4>2. QED
          BY <1>11, <4>1, Fields, Zenon
      <3>3. CASE m = 4
        <4>1. Act(s, m, InBits[c][g], FALSE) /\ Led(c, s, m, InBits[c][g])
          BY <1>1, <1>7, <1>9, <3>3
        <4>2. QED
          BY <1>11, <4>1, Fields, Zenon
      <3>4. CASE m = 5
        <4>1. Act(s, m, DataBits[c][g], high) /\ Led(c, s, m, DataBits[c][g])
          BY <1>1, <1>8, <1>10, <3>4
        <4>2. QED
          BY <1>11, <4>1, Fields, Zenon
      <3>5. QED
        BY <3>1, <3>2, <3>3, <3>4
    <2>2. QED
      BY <1>4, <1>free, <2>1 DEF Shape, Wished
  <1>13. Has(s, GroupBits[c][g], TRUE) /\ Has(s, InBits[c][g], FALSE) /\ Has(s, DataBits[c][g], high)
    <2>1. 2 \in 1..Len(s) /\ 4 \in 1..Len(s) /\ 5 \in 1..Len(s)
      BY <1>4
    <2>2. QED
      BY <1>1, <1>6, <1>7, <1>8, <2>1 DEF Has
  <1>14. QED
    BY <1>12, <1>13 DEF s, calls, r, b

\* sio_gpio_set_then_read makes the other pin an input.
LEMMA InPiece ==
  ASSUME NEW c \in Chip, Supported(c), NEW outs, NEW ins \in SUBSET Pin[c],
         NEW high, NEW g \in ins
  PROVE  LET s == Reach(c, g, DirIn(DirIndex(c, g), g % 10))
         IN /\ Shape(c, s, Wish(c, outs, ins, high))
            /\ Has(s, InBits[c][g], TRUE)
  <1> DEFINE e == Bits(EnLdn(c, g))
             k == EnOffset(c, g)
             d == Bits(Ldn(c, g))
             r == DirIndex(c, g)
             b == g % 10
             x == PutBit(r, b, TRUE)
             calls == DirIn(r, b)
             s == Reach(c, g, calls)
             W == Wish(c, outs, ins, high)
  <1>1. /\ g \in Pin[c] /\ b \in 0..7 /\ k \in 0..7 /\ e \in Byte /\ d \in Byte
        /\ GroupBits[c][g] = <<e, 48, k>>
        /\ InBits[c][g] = <<d, r, b>>
        /\ EnLdn(c, g) # -1 /\ r # -1
    <2>1. g \in Pin[c] /\ e \in Byte /\ d \in Byte
      BY DEF Bits, Byte
    <2>2. Known(c, g)
      BY <2>1, PinBits
    <2>3. QED
      BY <2>1, <2>2, PinBits DEF Known
  <1>2. r \in 48..255 /\ r \in Nat /\ b \in Nat
    <2>1. r \in Dirs
      BY <1>1, PinBits
    <2>2. QED
      BY <1>1, <2>1 DEF Dirs
  <1>3. calls \in Seq(Item) /\ Len(calls) = 1 /\ calls[1] = x
    <2>1. x \in Item
      BY <1>2, ItemFacts, Zenon
    <2> HIDE DEF r, b
    <2>2. calls = <<x>>
      BY DEF DirIn
    <2> HIDE DEF calls, x
    <2>3. QED
      BY <2>1, <2>2
  <1>4. /\ Opens(s, e, k, d, calls) /\ s \in Seq(Item) /\ Len(s) = 4
        /\ s[2].call = "change" /\ s[4] = x
    <2>1. s = Opening(e, k, d) \o calls
      <3>1. EnLdn(c, g) # -1 /\ EnOffset(c, g) # -1 /\ DirIndex(c, g) # -1
        BY <1>1
      <3>2. QED
        BY <3>1, Reached, Zenon
    <2> HIDE DEF calls, x, s, e, k, d
    <2>2. Opens(s, e, k, d, calls)
      BY <1>1, <1>3, <2>1, Opened
    <2>3. s[3 + 1] = calls[1]
      BY <1>3, <2>2 DEF Opens
    <2>4. QED
      BY <1>3, <2>2, <2>3 DEF Opens
  <1> HIDE DEF e, k, d, r, b, s, calls, x
  <1>5. s[4].call = "change" /\ s[4].reg = r /\ s[4].clear = {b} /\ s[4].set = {b}
    BY <1>4 DEF PutBit, Change, x
  <1>6. /\ Act(s, 2, <<e, 48, k>>, TRUE)
        /\ s[1].call = "select" /\ s[3].call = "select"
        /\ s[3].dev = d /\ Selects(s, 3, 4)
        /\ s[4].call # "select" => Selects(s, 3, 5)
    BY <1>1, <1>4, EnableAct
  <1>7. Act(s, 4, <<d, r, b>>, TRUE)
    <2>1. 4 \in 1..Len(s) /\ 3 \in 1..(4 - 1)
      BY <1>4
    <2>2. QED
      BY <1>2, <1>5, <1>6, <2>1, ActHere
  <1>8. Led(c, s, 2, GroupBits[c][g]) /\ Led(c, s, 4, InBits[c][g])
    <2>1. \A h \in Pin[c] : GroupBits[c][g] # DataBits[c][h] /\ InBits[c][g] # DataBits[c][h]
      BY <1>1, Apart
    <2>2. QED
      BY <2>1 DEF Led
  <1>9. <<GroupBits[c][g], TRUE>> \in W /\ <<InBits[c][g], TRUE>> \in W
    <2>1. <<InBits[c][g], TRUE>> \in W
      BY Zenon DEF Wish
    <2>2. <<GroupBits[c][g], TRUE>> \in Common(c)
      BY <1>1, EnableWish
    <2>3. QED
      BY <2>1, <2>2 DEF Wish
  <1>free. Free(s)
    <2>1. \A m \in 1..Len(s) : m \in {1, 2, 3, 4}
      BY <1>4
    <2>2. QED
      BY <1>4, <1>5, <1>6, <2>1 DEF Free
  <1>10. Shape(c, s, W)
    <2>1. ASSUME NEW m \in 1..Len(s), s[m].call = "change"
          PROVE  \E w \in W : Act(s, m, w[1], w[2]) /\ Led(c, s, m, w[1])
      <3>1. m = 2 \/ m = 4
        BY <1>4, <1>6, <2>1
      <3>2. CASE m = 2
        <4>1. Act(s, m, GroupBits[c][g], TRUE) /\ Led(c, s, m, GroupBits[c][g])
          BY <1>1, <1>6, <1>8, <3>2
        <4>2. QED
          BY <1>9, <4>1, Fields, Zenon
      <3>3. CASE m = 4
        <4>1. Act(s, m, InBits[c][g], TRUE) /\ Led(c, s, m, InBits[c][g])
          BY <1>1, <1>7, <1>8, <3>3
        <4>2. QED
          BY <1>9, <4>1, Fields, Zenon
      <3>4. QED
        BY <3>1, <3>2, <3>3
    <2>2. QED
      BY <1>4, <1>free, <2>1 DEF Shape, Wished
  <1>11. Has(s, InBits[c][g], TRUE)
    <2>1. 4 \in 1..Len(s)
      BY <1>4
    <2>2. QED
      BY <1>1, <1>7, <2>1 DEF Has
  <1>12. QED
    BY <1>10, <1>11 DEF s, calls, r, b

\* A number that is incorrect makes the tool give up; it may have enabled a
\* group by then.
LEMMA Rejected ==
  ASSUME NEW c \in Chip, Supported(c), NEW g \in Nat, ~Known(c, g), NEW calls
  PROVE  /\ Shape(c, Reach(c, g, calls), Common(c))
         /\ \E m \in 1..Len(Reach(c, g, calls)) : Reach(c, g, calls)[m] = GiveUp
  <1> DEFINE s == Reach(c, g, calls)
  <1>1. CASE EnLdn(c, g) = -1 \/ EnOffset(c, g) = -1
    <2>1. s = <<GiveUp>>
      BY <1>1, Zenon DEF Reach
    <2>2. GiveUp \in Item /\ GiveUp.call # "change" /\ GiveUp.call # "expect"
      BY ItemFacts DEF GiveUp
    <2>3. Shape(c, <<GiveUp>>, Common(c))
      BY <2>2, Quiet
    <2>4. 1 \in 1..Len(<<GiveUp>>) /\ <<GiveUp>>[1] = GiveUp
      OBVIOUS
    <2>5. QED
      BY <2>1, <2>3, <2>4
  <1>2. CASE EnLdn(c, g) # -1 /\ EnOffset(c, g) # -1
    <2> DEFINE e == Bits(EnLdn(c, g))
               k == EnOffset(c, g)
               d == Bits(Ldn(c, g))
               t == <<e, 48, k>>
    <2>1. DirIndex(c, g) = -1
      BY <1>2 DEF Known
    <2>2. s = Opening(e, k, d) \o <<GiveUp>>
      BY <1>2, <2>1, Reached, Zenon
    <2>3. e \in Byte /\ d \in Byte /\ k \in 0..7
      <3>1. k \in 0..7
        BY <1>2 DEF EnOffset, Supported
      <3>2. QED
        BY <3>1 DEF Bits, Byte
    <2>4. <<GiveUp>> \in Seq(Item) /\ Len(<<GiveUp>>) = 1 /\ <<GiveUp>>[1] = GiveUp
      BY ItemFacts
    <2>5. GiveUp.call # "change"
      BY DEF GiveUp
    <2> DEFINE u == <<GiveUp>>
    <2> HIDE DEF e, k, d, s, u
    <2>6. Opens(s, e, k, d, u)
      BY <2>2, <2>3, <2>4, Opened DEF u
    <2>7. s \in Seq(Item) /\ Len(s) = 4 /\ s[4] = GiveUp
      <3>1. Len(u) = 1 /\ u[1] = GiveUp
        BY <2>4 DEF u
      <3>2. s[3 + 1] = u[1]
        BY <2>6, <3>1 DEF Opens
      <3>3. QED
        BY <2>6, <3>1, <3>2 DEF Opens
    <2>8. /\ Act(s, 2, <<e, 48, k>>, TRUE)
          /\ s[1].call = "select" /\ s[3].call = "select"
          /\ s[3].dev = d /\ Selects(s, 3, 4)
          /\ s[4].call # "select" => Selects(s, 3, 5)
      BY <2>3, <2>6, EnableAct
    <2>9. t \in Spot /\ t[1] = e /\ t[2] = 48
      BY <2>3 DEF Spot
    <2> HIDE DEF t
    <2>10. Plain(c, Common(c), t, TRUE)
      <3>1. <<t[1], t[2]>> \notin Faces(c)
        BY <2>9, LowIndex
      <3>2. QED
        BY <2>9, <3>1, CommonPlain
    <2>11. ASSUME NEW m \in 1..Len(s), s[m].call = "change"
           PROVE  \E w \in Common(c) : Act(s, m, w[1], w[2]) /\ Led(c, s, m, w[1])
      <3>1. m = 2
        BY <2>5, <2>7, <2>8, <2>11
      <3>2. Act(s, m, t, TRUE) /\ Led(c, s, m, t)
        BY <2>8, <2>10, <3>1 DEF Led, Plain, t
      <3>3. <<t, TRUE>> \in Common(c)
        BY <2>10 DEF Plain
      <3>4. QED
        BY <3>2, <3>3, Fields, Zenon
    <2>12. Shape(c, s, Common(c))
      <3>1. Free(s)
        <4>1. GiveUp.call # "expect"
          BY DEF GiveUp
        <4>2. s[2].call # "expect"
          BY <2>8 DEF Act
        <4>3. \A m \in 1..Len(s) : m \in {1, 2, 3, 4}
          BY <2>7
        <4>4. QED
          BY <2>7, <2>8, <4>1, <4>2, <4>3 DEF Free
      <3>2. QED
        BY <2>7, <2>11, <3>1 DEF Shape, Wished
    <2>13. \E m \in 1..Len(s) : s[m] = GiveUp
      BY <2>7
    <2>14. QED
      BY <2>12, <2>13 DEF s
  <1>3. QED
    BY <1>1, <1>2

LEMMA Longer ==
  ASSUME NEW s \in Seq(Item), NEW x \in Item
  PROVE  Len(s \o <<x>>) >= 1 /\ (s \o <<x>>)[Len(s \o <<x>>)] = x
  <1> DEFINE u == <<x>>
  <1>1. u \in Seq(Item) /\ Len(u) = 1 /\ u[1] = x
    OBVIOUS
  <1> HIDE DEF u
  <1>2. /\ Len(s) \in Nat /\ Len(s \o u) = Len(s) + Len(u)
        /\ \A i \in 1..Len(u) : (s \o u)[Len(s) + i] = u[i]
    BY <1>1, Joined
  <1>3. QED
    BY <1>1, <1>2 DEF u

\* The tool gives up.
Stops(s) == \E m \in 1..Len(s) : s[m] = GiveUp

LEMMA StopsJoined ==
  ASSUME NEW s \in Seq(Item), NEW u \in Seq(Item), Stops(s) \/ Stops(u)
  PROVE  Stops(s \o u)
  <1>1. /\ Len(s) \in Nat /\ Len(u) \in Nat /\ Len(s \o u) = Len(s) + Len(u)
        /\ \A i \in 1..Len(s) : (s \o u)[i] = s[i]
        /\ \A i \in 1..Len(u) : (s \o u)[Len(s) + i] = u[i]
    BY Joined
  <1>2. CASE Stops(s)
    <2>1. PICK m \in 1..Len(s) : s[m] = GiveUp
      BY <1>2 DEF Stops
    <2>2. m \in 1..Len(s \o u) /\ (s \o u)[m] = GiveUp
      BY <1>1, <2>1
    <2>3. QED
      BY <2>2 DEF Stops
  <1>3. CASE Stops(u)
    <2>1. PICK m \in 1..Len(u) : u[m] = GiveUp
      BY <1>3 DEF Stops
    <2>2. Len(s) + m \in 1..Len(s \o u) /\ (s \o u)[Len(s) + m] = GiveUp
      BY <1>1, <2>1
    <2>3. QED
      BY <2>2 DEF Stops
  <1>4. QED
    BY <1>2, <1>3

\* The calls before Reach.
LEMMA FunctionsBefore ==
  ASSUME NEW c \in Chip, Supported(c), NEW g \in Nat
  PROVE  Shape(c, IF c = "NCT5533D" THEN MultiFunc(g) ELSE <<>>, Common(c))
  <1>1. CASE c = "NCT5533D"
    BY <1>1, FunctionShape
  <1>2. CASE c # "NCT5533D"
    <2>1. Shape(c, <<>>, Common(c))
      BY Quiet, ItemFacts DEF Enter
    <2>2. QED
      BY <1>2, <2>1
  <1>3. QED
    BY <1>1, <1>2

LEMMA Frames ==
  ASSUME NEW c, NEW wish
  PROVE  Shape(c, <<>>, wish) /\ Shape(c, <<Enter>>, wish) /\ Shape(c, <<Exit>>, wish)
  <1>1. /\ Enter \in Item /\ Enter.call # "change" /\ Enter.call # "expect"
        /\ Exit \in Item /\ Exit.call # "change" /\ Exit.call # "expect"
    BY ItemFacts DEF Enter, Exit
  <1>2. QED
    BY <1>1, Quiet

LEMMA CommonWish ==
  ASSUME NEW c, NEW outs, NEW ins, NEW high, NEW s, Shape(c, s, Common(c))
  PROVE  Shape(c, s, Wish(c, outs, ins, high))
  BY ShapeMore DEF Wish

\* sio_gpio_config.
LEMMA ConfigureShape ==
  ASSUME NEW c \in Chip, Supported(c), NEW outs \in SUBSET Pin[c], NEW high \in BOOLEAN,
         NEW g \in Nat, g \in outs \/ ~Known(c, g)
  PROVE  LET s == Configure(c, g, high)
         IN /\ Shape(c, s, Wish(c, outs, {}, high))
            /\ Known(c, g) => Has(s, GroupBits[c][g], TRUE) /\ Has(s, InBits[c][g], FALSE)
            /\ ~Known(c, g) => Stops(s)
            /\ Len(s) >= 1
  <1> DEFINE W == Wish(c, outs, {}, high)
             F == IF c = "NCT5533D" THEN MultiFunc(g) ELSE <<>>
             R == Reach(c, g, DirOut(DirIndex(c, g), g % 10, high))
             s == ((<<Enter>> \o F) \o R) \o <<Exit>>
  <1>1. Configure(c, g, high) = s
    BY Zenon DEF Configure
  <1>2. Shape(c, <<Enter>>, W) /\ Shape(c, F, W) /\ Shape(c, <<Exit>>, W)
    <2>1. Shape(c, F, Common(c))
      BY FunctionsBefore
    <2> HIDE DEF F
    <2>2. QED
      BY <2>1, CommonWish, Frames
  <1>3. /\ Shape(c, R, W)
        /\ Known(c, g) => Has(R, GroupBits[c][g], TRUE) /\ Has(R, InBits[c][g], FALSE)
        /\ ~Known(c, g) => Stops(R)
    <2>1. CASE g \in outs
      <3>1. Known(c, g)
        BY <2>1, PinBits
      <3>2. QED
        BY <2>1, <3>1, OutPiece
    <2>2. CASE ~Known(c, g)
      <3>1. Shape(c, R, Common(c)) /\ Stops(R)
        BY <2>2, Rejected DEF Stops
      <3> HIDE DEF R
      <3>2. QED
        BY <2>2, <3>1, CommonWish
    <2>3. QED
      BY <2>1, <2>2
  <1> HIDE DEF F, R, W
  <1>4. /\ <<Enter>> \o F \in Seq(Item) /\ R \in Seq(Item) /\ <<Exit>> \in Seq(Item)
        /\ (<<Enter>> \o F) \o R \in Seq(Item)
    <2>1. <<Enter>> \in Seq(Item) /\ F \in Seq(Item) /\ R \in Seq(Item) /\ <<Exit>> \in Seq(Item)
      BY <1>2, <1>3 DEF Shape, Wished
    <2>2. <<Enter>> \o F \in Seq(Item)
      BY <2>1, Joined
    <2>3. QED
      BY <2>1, <2>2, Joined
  <1>5. Shape(c, s, W)
    <2>1. Shape(c, <<Enter>> \o F, W)
      BY <1>2, ShapeJoined
    <2>2. Shape(c, (<<Enter>> \o F) \o R, W)
      BY <1>3, <2>1, ShapeJoined
    <2>3. QED
      BY <1>2, <2>2, ShapeJoined
  <1>6. \A t, on : Has(R, t, on) => Has(s, t, on)
    <2>1. \A t, on : Has(R, t, on) => Has((<<Enter>> \o F) \o R, t, on)
      BY <1>4, HasJoined
    <2>2. QED
      BY <1>4, <2>1, HasJoined
  <1>7. Stops(R) => Stops(s)
    <2>1. Stops(R) => Stops((<<Enter>> \o F) \o R)
      BY <1>4, StopsJoined
    <2>2. QED
      BY <1>4, <2>1, StopsJoined
  <1>8. Len(s) >= 1
    BY <1>4, ItemFacts, Longer
  <1>9. QED
    BY <1>1, <1>3, <1>5, <1>6, <1>7, <1>8, Zenon DEF W

-----------------------------------------------------------------------------
(* The test of a level. *)

Before(s, m, t, on) == \E k \in 1..(m - 1) : Act(s, k, t, on)

\* What has been done when it is tested.
Driven(c, s, m, o, i, high) ==
  /\ Before(s, m, GroupBits[c][o], TRUE) /\ Before(s, m, InBits[c][o], FALSE)
  /\ Before(s, m, DataBits[c][o], high) /\ Before(s, m, InBits[c][i], TRUE)
GaveUp(s, m) == \E k \in 1..(m - 1) : s[k] = GiveUp

Told(c, s, o, i, high) == \A m \in 1..Len(s) : s[m].call = "expect" =>
  s[m] = Expect(i, high) /\ (GaveUp(s, m) \/ Driven(c, s, m, o, i, high))

LEMMA ToldHere ==
  ASSUME NEW c, NEW pre \in Seq(Item), NEW o, NEW i \in Nat, NEW high \in BOOLEAN, Free(pre),
         \/ Stops(pre)
         \/ /\ Has(pre, GroupBits[c][o], TRUE) /\ Has(pre, InBits[c][o], FALSE)
            /\ Has(pre, DataBits[c][o], high) /\ Has(pre, InBits[c][i], TRUE)
  PROVE  Told(c, pre \o <<Expect(i, high)>>, o, i, high)
  <1> DEFINE u == <<Expect(i, high)>>
             s == pre \o u
             n == Len(pre) + 1
  <1>1. u \in Seq(Item) /\ Len(u) = 1 /\ u[1] = Expect(i, high)
    BY ItemFacts
  <1> HIDE DEF u
  <1>2. /\ Len(pre) \in Nat /\ Len(s) = n /\ s[n] = Expect(i, high)
        /\ \A k \in 1..(n - 1) : s[k] = pre[k]
    <2>1. /\ Len(pre) \in Nat /\ Len(pre \o u) = Len(pre) + Len(u)
          /\ \A k \in 1..Len(pre) : (pre \o u)[k] = pre[k]
          /\ \A k \in 1..Len(u) : (pre \o u)[Len(pre) + k] = u[k]
      BY <1>1, Joined
    <2>2. QED
      BY <1>1, <2>1
  <1>3. ASSUME NEW m \in 1..Len(s), s[m].call = "expect"
        PROVE  m = n
    BY <1>2, <1>3 DEF Free
  <1>4. \A t, on : Has(pre, t, on) => Before(s, n, t, on)
    <2>1. SUFFICES ASSUME NEW t, NEW on, NEW k \in 1..Len(pre), Act(pre, k, t, on)
                   PROVE  Before(s, n, t, on)
      BY DEF Has
    <2>2. Act(s, k, t, on)
      BY <1>1, <2>1, ActLeft
    <2>3. k \in 1..(n - 1)
      BY <1>2
    <2>4. QED
      BY <2>2, <2>3 DEF Before
  <1>5. Stops(pre) => GaveUp(s, n)
    BY <1>2 DEF Stops, GaveUp
  <1> HIDE DEF s, n
  <1>6. s[n] = Expect(i, high) /\ (GaveUp(s, n) \/ Driven(c, s, n, o, i, high))
    BY <1>2, <1>4, <1>5, Zenon DEF Driven
  <1>7. Told(c, s, o, i, high)
    BY <1>3, <1>6 DEF Told
  <1>8. QED
    BY <1>7 DEF s, u

LEMMA ToldLeft ==
  ASSUME NEW c, NEW s \in Seq(Item), NEW u \in Seq(Item), NEW o, NEW i, NEW high,
         Told(c, s, o, i, high), Free(u)
  PROVE  Told(c, s \o u, o, i, high)
  <1> DEFINE v == s \o u
  <1>1. /\ Len(s) \in Nat /\ Len(u) \in Nat /\ Len(v) = Len(s) + Len(u)
        /\ \A k \in 1..Len(s) : v[k] = s[k]
        /\ \A k \in 1..Len(u) : v[Len(s) + k] = u[k]
    BY Joined
  <1>2. \A k, t, on : Act(s, k, t, on) => Act(v, k, t, on)
    BY ActLeft
  <1> HIDE DEF v
  <1>3. ASSUME NEW m \in 1..Len(v), v[m].call = "expect"
        PROVE  v[m] = Expect(i, high) /\ (GaveUp(v, m) \/ Driven(c, v, m, o, i, high))
    <2>1. m <= Len(s)
      <3>1. SUFFICES ASSUME m > Len(s)
                     PROVE  FALSE
        BY <1>1
      <3>2. m - Len(s) \in 1..Len(u) /\ Len(s) + (m - Len(s)) = m
        BY <1>1, <3>1
      <3>3. QED
        BY <1>1, <1>3, <3>2 DEF Free
    <2>2. m \in 1..Len(s) /\ v[m] = s[m] /\ \A k \in 1..(m - 1) : v[k] = s[k]
      BY <1>1, <2>1
    <2>3. s[m] = Expect(i, high) /\ (GaveUp(s, m) \/ Driven(c, s, m, o, i, high))
      BY <1>3, <2>2 DEF Told
    <2>4. GaveUp(s, m) => GaveUp(v, m)
      BY <2>2 DEF GaveUp
    <2>5. \A t, on : Before(s, m, t, on) => Before(v, m, t, on)
      BY <1>2, Zenon DEF Before
    <2>6. Driven(c, s, m, o, i, high) => Driven(c, v, m, o, i, high)
      BY <2>5, Zenon DEF Driven
    <2>7. QED
      BY <2>2, <2>3, <2>4, <2>6
  <1>4. QED
    BY <1>3 DEF Told, v

LEMMA ToldRight ==
  ASSUME NEW c, NEW s \in Seq(Item), NEW u \in Seq(Item), NEW o, NEW i, NEW high,
         Free(s), Told(c, u, o, i, high)
  PROVE  Told(c, s \o u, o, i, high)
  <1> DEFINE v == s \o u
  <1>1. /\ Len(s) \in Nat /\ Len(u) \in Nat /\ Len(v) = Len(s) + Len(u)
        /\ \A k \in 1..Len(s) : v[k] = s[k]
        /\ \A k \in 1..Len(u) : v[Len(s) + k] = u[k]
    BY Joined
  <1>2. \A k, t, on : Act(u, k, t, on) => Act(v, Len(s) + k, t, on)
    BY ActRight
  <1> HIDE DEF v
  <1>3. ASSUME NEW m \in 1..Len(v), v[m].call = "expect"
        PROVE  v[m] = Expect(i, high) /\ (GaveUp(v, m) \/ Driven(c, v, m, o, i, high))
    <2>1. m > Len(s)
      <3>1. SUFFICES ASSUME m <= Len(s)
                     PROVE  FALSE
        BY <1>1
      <3>2. QED
        BY <1>1, <1>3, <3>1 DEF Free
    <2>2. PICK j \in 1..Len(u) : m = Len(s) + j
      <3>1. m - Len(s) \in 1..Len(u) /\ Len(s) + (m - Len(s)) = m
        BY <1>1, <2>1
      <3>2. QED
        BY <3>1
    <2>3. v[m] = u[j] /\ \A k \in 1..(j - 1) : v[Len(s) + k] = u[k] /\ Len(s) + k \in 1..(m - 1)
      <3>1. v[m] = u[j]
        BY <1>1, <2>2
      <3>2. ASSUME NEW k \in 1..(j - 1)
            PROVE  v[Len(s) + k] = u[k] /\ Len(s) + k \in 1..(m - 1)
        <4>1. k \in 1..Len(u) /\ Len(s) + k \in 1..(m - 1)
          BY <1>1, <2>2
        <4>2. QED
          BY <1>1, <4>1
      <3>3. QED
        BY <3>1, <3>2
    <2>4. u[j] = Expect(i, high) /\ (GaveUp(u, j) \/ Driven(c, u, j, o, i, high))
      BY <1>3, <2>3 DEF Told
    <2>5. GaveUp(u, j) => GaveUp(v, m)
      BY <2>3 DEF GaveUp
    <2>6. \A t, on : Before(u, j, t, on) => Before(v, m, t, on)
      BY <1>2, <2>3, Zenon DEF Before
    <2>7. Driven(c, u, j, o, i, high) => Driven(c, v, m, o, i, high)
      BY <2>6, Zenon DEF Driven
    <2>8. QED
      BY <2>3, <2>4, <2>5, <2>7
  <1>4. QED
    BY <1>3 DEF Told, v

\* sio_gpio_set_then_read.
LEMMA SetThenReadShape ==
  ASSUME NEW c \in Chip, Supported(c), NEW o \in Pin[c], NEW i \in Pin[c], NEW high \in BOOLEAN
  PROVE  LET s == SetThenRead(c, o, i, high)
         IN /\ Wished(c, s, Wish(c, {o}, {i}, high)) /\ Told(c, s, o, i, high)
            /\ Len(s) >= 1 /\ s[Len(s)].call = "expect"
  <1> DEFINE W == Wish(c, {o}, {i}, high)
             F == IF c = "NCT5533D" THEN MultiFunc(o) \o MultiFunc(i) ELSE <<>>
             R == Reach(c, o, DirOut(DirIndex(c, o), o % 10, high))
             Q == Reach(c, i, DirIn(DirIndex(c, i), i % 10))
             pre == (F \o R) \o Q
             s == pre \o <<Expect(i, high)>>
  <1>1. SetThenRead(c, o, i, high) = s
    BY Zenon DEF SetThenRead
  <1>2. o \in Nat /\ i \in Nat
    BY PinBits
  <1>3. Shape(c, F, W)
    <2>1. CASE c = "NCT5533D"
      <3>1. Shape(c, MultiFunc(o), Common(c)) /\ Shape(c, MultiFunc(i), Common(c))
        BY <1>2, <2>1, FunctionShape
      <3>2. Shape(c, MultiFunc(o) \o MultiFunc(i), Common(c))
        BY <3>1, ShapeJoined
      <3>3. QED
        BY <2>1, <3>2, CommonWish
    <2>2. CASE c # "NCT5533D"
      BY <2>2, Frames
    <2>3. QED
      BY <2>1, <2>2
  <1>4. /\ Shape(c, R, W)
        /\ Has(R, GroupBits[c][o], TRUE) /\ Has(R, InBits[c][o], FALSE)
        /\ Has(R, DataBits[c][o], high)
    <2>1. o \in {o} /\ {o} \in SUBSET Pin[c]
      OBVIOUS
    <2>2. QED
      BY <2>1, OutPiece, Zenon
  <1>5. Shape(c, Q, W) /\ Has(Q, InBits[c][i], TRUE)
    <2>1. i \in {i} /\ {i} \in SUBSET Pin[c]
      OBVIOUS
    <2>2. QED
      BY <2>1, InPiece, Zenon
  <1> HIDE DEF F, R, Q, W
  <1>6. F \in Seq(Item) /\ R \in Seq(Item) /\ Q \in Seq(Item)
    BY <1>3, <1>4, <1>5 DEF Shape, Wished
  <1>7. Shape(c, pre, W)
    <2>1. Shape(c, F \o R, W)
      BY <1>3, <1>4, ShapeJoined
    <2>2. QED
      BY <1>5, <2>1, ShapeJoined
  <1>8. F \o R \in Seq(Item) /\ pre \in Seq(Item) /\ Free(pre)
    BY <1>6, <1>7, Joined DEF Shape, Wished
  <1>9. \A t, on : Has(R, t, on) \/ Has(Q, t, on) => Has(pre, t, on)
    <2>1. \A t, on : Has(R, t, on) => Has(F \o R, t, on)
      BY <1>6, HasJoined
    <2>2. \A t, on : Has(F \o R, t, on) \/ Has(Q, t, on) => Has(pre, t, on)
      BY <1>6, <1>8, HasJoined
    <2>3. QED
      BY <2>1, <2>2, Zenon
  <1>10. /\ Has(pre, GroupBits[c][o], TRUE) /\ Has(pre, InBits[c][o], FALSE)
         /\ Has(pre, DataBits[c][o], high) /\ Has(pre, InBits[c][i], TRUE)
    BY <1>4, <1>5, <1>9, Zenon
  <1> HIDE DEF pre
  <1>11. Told(c, s, o, i, high)
    BY <1>2, <1>8, <1>10, ToldHere, Zenon
  <1>12. Wished(c, s, W)
    <2>1. Expect(i, high) \in Item /\ Expect(i, high).call # "change"
      BY <1>2, ItemFacts DEF Expect
    <2>2. Wished(c, <<Expect(i, high)>>, W)
      BY <2>1, Quiet
    <2>3. Wished(c, pre, W)
      BY <1>7 DEF Shape
    <2>4. QED
      BY <2>2, <2>3, WishedJoined
  <1>13. Len(s) >= 1 /\ s[Len(s)].call = "expect"
    BY <1>2, <1>8, ItemFacts, Longer DEF Expect
  <1>14. QED
    BY <1>1, <1>11, <1>12, <1>13 DEF W

\* On a chip that is not supported it gives up at once.
LEMMA SetThenReadUnsupported ==
  ASSUME NEW c \in Chip, ~Supported(c), NEW o \in Nat, NEW i \in Nat, NEW high \in BOOLEAN
  PROVE  LET s == SetThenRead(c, o, i, high)
         IN /\ Wished(c, s, {}) /\ Told(c, s, o, i, high)
            /\ Len(s) >= 1 /\ s[Len(s)].call = "expect"
  <1> DEFINE u == <<GiveUp>>
             pre == (<<>> \o u) \o u
             s == pre \o <<Expect(i, high)>>
  <1>1. SetThenRead(c, o, i, high) = s
    <2>1. c # "NCT5533D" /\ EnLdn(c, o) = -1 /\ EnLdn(c, i) = -1
      BY DEF Supported, EnLdn
    <2>2. \A calls : Reach(c, o, calls) = u /\ Reach(c, i, calls) = u
      BY <2>1, Zenon DEF Reach
    <2>3. QED
      BY <2>1, <2>2, Zenon DEF SetThenRead
  <1>2. Shape(c, u, {}) /\ Stops(u) /\ u \in Seq(Item)
    <2>1. GiveUp \in Item /\ GiveUp.call # "change" /\ GiveUp.call # "expect"
      BY ItemFacts DEF GiveUp
    <2>2. Shape(c, u, {})
      BY <2>1, Quiet
    <2>3. Len(u) = 1 /\ u[1] = GiveUp
      OBVIOUS
    <2>4. QED
      BY <2>1, <2>2, <2>3 DEF Stops
  <1>3. Shape(c, <<>>, {}) /\ <<>> \in Seq(Item)
    BY Frames
  <1> HIDE DEF u
  <1>4. Shape(c, <<>> \o u, {}) /\ <<>> \o u \in Seq(Item)
    BY <1>2, <1>3, ShapeJoined DEF Shape, Wished
  <1>5. Shape(c, pre, {}) /\ pre \in Seq(Item) /\ Free(pre)
    <2>1. Shape(c, pre, {})
      BY <1>2, <1>4, ShapeJoined
    <2>2. QED
      BY <2>1 DEF Shape, Wished
  <1>6. Stops(pre)
    BY <1>2, <1>4, StopsJoined
  <1> HIDE DEF pre
  <1>7. Told(c, s, o, i, high)
    BY <1>5, <1>6, ToldHere, Zenon
  <1>8. Wished(c, s, {})
    <2>1. Expect(i, high) \in Item /\ Expect(i, high).call # "change"
      BY ItemFacts DEF Expect
    <2>2. Wished(c, <<Expect(i, high)>>, {})
      BY <2>1, Quiet
    <2>3. Wished(c, pre, {})
      BY <1>5 DEF Shape
    <2>4. QED
      BY <2>2, <2>3, WishedJoined
  <1>9. Len(s) >= 1 /\ s[Len(s)].call = "expect"
    BY <1>5, ItemFacts, Longer DEF Expect
  <1>10. QED
    BY <1>1, <1>7, <1>8, <1>9

-----------------------------------------------------------------------------
(* The parts of a run. *)

Turn(n)      == (n + 3) % 4
PairOf(x, n) == x.pairs[(n + 3) \div 4]
OutPin(x, n) == PairOf(x, n)[IF Turn(n) < 2 THEN 1 ELSE 2]
InPin(x, n)  == PairOf(x, n)[IF Turn(n) < 2 THEN 2 ELSE 1]

\* The pins a part may drive, those it makes inputs, and the level.
Outs(c, x, n) == IF x.tool = "gpio" THEN Pin[c] \cap {x.gpios[k] : k \in DOMAIN x.gpios}
                 ELSE {OutPin(x, n)}
Ins(x, n)     == IF x.tool = "gpio" THEN {} ELSE {InPin(x, n)}
High(x, n)    == IF x.tool = "gpio" THEN x.level ELSE Turn(n) % 2 = 1

WishOf(c, x, n) == IF Supported(c) THEN Wish(c, Outs(c, x, n), Ins(x, n), High(x, n)) ELSE {}

LEMMA CommandFacts ==
  ASSUME NEW c \in Chip, NEW x \in Command[c], OwnNumbers
  PROVE  /\ x.tool = "gpio" =>
              /\ x.gpios \in Seq(Nat) /\ Len(x.gpios) \in Nat /\ Len(x.gpios) >= 1
              /\ x.level \in BOOLEAN
              /\ \A k \in 1..Len(x.gpios) :
                   x.gpios[k] \in Nat /\ (x.gpios[k] \in Pin[c] \/ ~Known(c, x.gpios[k]))
         /\ x.tool # "gpio" =>
              /\ x.tool = "loopback"
              /\ Len(x.pairs) \in Nat /\ Len(x.pairs) >= 1
              /\ \A k \in 1..Len(x.pairs) :
                   /\ x.pairs[k] \in Pin[c] \X Pin[c] /\ x.pairs[k][1] # x.pairs[k][2]
                   /\ \A b \in Jumper[c] : \A w \in b : x.pairs[k][1] \in w \/ x.pairs[k][2] \in w =>
                        w = {x.pairs[k][1], x.pairs[k][2]}
         /\ Parts(x) \in Nat /\ Parts(x) >= 1
  <1>1. /\ x \in [tool : {"gpio"}, gpios : Seq(0..127) \ {<<>>}, level : BOOLEAN]
                   \cup [tool : {"loopback"}, pairs : Seq(Pin[c] \X Pin[c]) \ {<<>>}]
    BY GpioAssumption, Zenon
  <1>2. x.tool = "loopback" => \A k \in DOMAIN x.pairs :
          /\ x.pairs[k][1] # x.pairs[k][2]
          /\ \A b \in Jumper[c] : \A w \in b : x.pairs[k][1] \in w \/ x.pairs[k][2] \in w =>
               w = {x.pairs[k][1], x.pairs[k][2]}
    <2>1. \A y \in Command[c] : y.tool = "loopback" => \A k \in DOMAIN y.pairs :
            LET p == y.pairs[k] IN
            /\ p[1] # p[2]
            /\ \A b \in Jumper[c] : \A w \in b : p[1] \in w \/ p[2] \in w => w = {p[1], p[2]}
      BY GpioAssumption, Zenon
    <2>2. QED
      BY <2>1, Zenon
  <1>3. x.tool = "gpio" => \A k \in DOMAIN x.gpios :
          x.gpios[k] \in Pin[c] \/ ~Known(c, x.gpios[k])
    BY DEF OwnNumbers
  <1>4. ASSUME NEW S, S \subseteq Nat, NEW s \in Seq(S), s # <<>>
        PROVE  /\ s \in Seq(Nat) /\ Len(s) \in Nat /\ Len(s) >= 1 /\ DOMAIN s = 1..Len(s)
               /\ \A k \in 1..Len(s) : s[k] \in Nat
    <2>1. Len(s) \in Nat /\ Len(s) # 0 /\ DOMAIN s = 1..Len(s) /\ \A k \in 1..Len(s) : s[k] \in S
      BY <1>4
    <2>2. \A k \in 1..Len(s) : s[k] \in Nat
      BY <1>4, <2>1
    <2>3. s \in Seq(Nat)
      BY <2>1, <2>2
    <2>4. QED
      BY <2>1, <2>2, <2>3
  <1>5. \A s : s \in Seq(Pin[c] \X Pin[c]) /\ s # <<>> =>
          /\ Len(s) \in Nat /\ Len(s) >= 1 /\ DOMAIN s = 1..Len(s)
          /\ \A k \in 1..Len(s) : s[k] \in Pin[c] \X Pin[c]
    OBVIOUS
  <1>6. CASE x \in [tool : {"gpio"}, gpios : Seq(0..127) \ {<<>>}, level : BOOLEAN]
    <2>1. x.tool = "gpio" /\ x.gpios \in Seq(0..127) /\ x.gpios # <<>> /\ x.level \in BOOLEAN
      BY <1>6
    <2>2. /\ x.gpios \in Seq(Nat) /\ Len(x.gpios) \in Nat /\ Len(x.gpios) >= 1
          /\ DOMAIN x.gpios = 1..Len(x.gpios) /\ \A k \in 1..Len(x.gpios) : x.gpios[k] \in Nat
      <3>1. 0..127 \subseteq Nat
        OBVIOUS
      <3>2. QED
        BY <1>4, <2>1, <3>1
    <2>3. Parts(x) = Len(x.gpios)
      BY <2>1 DEF Parts
    <2>4. QED
      BY <1>3, <2>1, <2>2, <2>3
  <1>7. CASE x \in [tool : {"loopback"}, pairs : Seq(Pin[c] \X Pin[c]) \ {<<>>}]
    <2>1. x.tool = "loopback" /\ x.pairs \in Seq(Pin[c] \X Pin[c]) /\ x.pairs # <<>>
      BY <1>7
    <2>2. /\ Len(x.pairs) \in Nat /\ Len(x.pairs) >= 1 /\ DOMAIN x.pairs = 1..Len(x.pairs)
          /\ \A k \in 1..Len(x.pairs) : x.pairs[k] \in Pin[c] \X Pin[c]
      BY <1>5, <2>1
    <2>3. Parts(x) = 4 * Len(x.pairs)
      BY <2>1 DEF Parts
    <2>4. Parts(x) \in Nat /\ Parts(x) >= 1
      BY <2>2, <2>3
    <2>5. QED
      BY <1>2, <2>1, <2>2, <2>4
  <1>8. QED
    BY <1>1, <1>6, <1>7

LEMMA PairFacts ==
  ASSUME NEW c \in Chip, NEW x \in Command[c], OwnNumbers, x.tool # "gpio", NEW n \in 1..Parts(x)
  PROVE  /\ (n + 3) \div 4 \in 1..Len(x.pairs)
         /\ OutPin(x, n) \in Pin[c] /\ InPin(x, n) \in Pin[c] /\ OutPin(x, n) # InPin(x, n)
         /\ {OutPin(x, n), InPin(x, n)} = {PairOf(x, n)[1], PairOf(x, n)[2]}
  <1>1. /\ x.tool = "loopback" /\ Len(x.pairs) \in Nat
        /\ \A k \in 1..Len(x.pairs) :
             x.pairs[k] \in Pin[c] \X Pin[c] /\ x.pairs[k][1] # x.pairs[k][2]
    BY CommandFacts
  <1>2. Parts(x) = 4 * Len(x.pairs)
    BY <1>1 DEF Parts
  <1>3. (n + 3) \div 4 \in 1..Len(x.pairs)
    BY <1>1, <1>2
  <1>4. PairOf(x, n) \in Pin[c] \X Pin[c] /\ PairOf(x, n)[1] # PairOf(x, n)[2]
    BY <1>1, <1>3 DEF PairOf
  <1>5. QED
    BY <1>3, <1>4 DEF OutPin, InPin

LEMMA WishOfFacts ==
  ASSUME NEW c \in Chip, NEW x \in Command[c], OwnNumbers, NEW n \in 1..Parts(x)
  PROVE  /\ Outs(c, x, n) \in SUBSET Pin[c] /\ Ins(x, n) \in SUBSET Pin[c]
         /\ Outs(c, x, n) \cap Ins(x, n) = {} /\ High(x, n) \in BOOLEAN
  <1>1. CASE x.tool = "gpio"
    BY <1>1, CommandFacts DEF Outs, Ins, High
  <1>2. CASE x.tool # "gpio"
    <2>1. OutPin(x, n) \in Pin[c] /\ InPin(x, n) \in Pin[c] /\ OutPin(x, n) # InPin(x, n)
      BY <1>2, PairFacts
    <2>2. QED
      BY <1>2, <2>1 DEF Outs, Ins, High
  <1>3. QED
    BY <1>1, <1>2

\* The library calls of a part.
LEMMA PartShape ==
  ASSUME NEW c \in Chip, NEW x \in Command[c], OwnNumbers, NEW n \in 1..Parts(x)
  PROVE  LET s == Part(c, x, n)
         IN /\ Wished(c, s, WishOf(c, x, n)) /\ Len(s) >= 1
            /\ x.tool # "gpio" => /\ Told(c, s, OutPin(x, n), InPin(x, n), High(x, n))
                                  /\ Turn(n) = 1 => s[Len(s)].call = "expect"
  <1>1. CASE x.tool = "gpio"
    <2> DEFINE g == x.gpios[n]
               s == Configure(c, g, x.level)
    <2>1. Part(c, x, n) = s
      BY <1>1 DEF Part
    <2>2. /\ n \in 1..Len(x.gpios) /\ g \in Nat /\ x.level \in BOOLEAN
          /\ g \in Outs(c, x, n) \/ ~Known(c, g)
      <3>1. Parts(x) = Len(x.gpios)
        BY <1>1 DEF Parts
      <3>2. /\ n \in 1..Len(x.gpios) /\ x.gpios \in Seq(Nat)
            /\ g \in Nat /\ x.level \in BOOLEAN /\ (g \in Pin[c] \/ ~Known(c, g))
        BY <1>1, <3>1, CommandFacts
      <3>3. n \in DOMAIN x.gpios
        BY <3>2
      <3>4. QED
        BY <1>1, <3>2, <3>3 DEF Outs
    <2> HIDE DEF g
    <2>3. Wished(c, s, WishOf(c, x, n)) /\ Len(s) >= 1
      <3>1. CASE Supported(c)
        <4>1. /\ Shape(c, s, Wish(c, Outs(c, x, n), {}, x.level)) /\ Len(s) >= 1
          BY <2>2, <3>1, WishOfFacts, ConfigureShape
        <4>2. WishOf(c, x, n) = Wish(c, Outs(c, x, n), {}, x.level)
          BY <1>1, <3>1 DEF WishOf, Ins, High
        <4>3. QED
          BY <4>1, <4>2 DEF Shape
      <3>2. CASE ~Supported(c)
        <4>1. s = <<Enter, Exit>> /\ WishOf(c, x, n) = {}
          BY <3>2 DEF Configure, WishOf
        <4>2. Enter \in Item /\ Exit \in Item /\ Enter.call # "change" /\ Exit.call # "change"
          BY ItemFacts DEF Enter, Exit
        <4>3. Wished(c, <<Enter, Exit>>, {})
          BY <4>2 DEF Wished
        <4>4. QED
          BY <4>1, <4>3
      <3>3. QED
        BY <3>1, <3>2
    <2>4. QED
      BY <1>1, <2>1, <2>3
  <1>2. CASE x.tool # "gpio"
    <2> DEFINE o == OutPin(x, n)
               i == InPin(x, n)
               high == High(x, n)
               W == WishOf(c, x, n)
               A == IF Turn(n) = 0 THEN <<Enter>> ELSE <<>>
               S == SetThenRead(c, o, i, high)
               B == IF Turn(n) = 3 THEN <<Exit>> ELSE <<>>
    <2>1. Part(c, x, n) = (A \o S) \o B
      <3>1. high = (Turn(n) % 2 = 1)
        BY <1>2 DEF High
      <3>2. QED
        BY <1>2, <3>1, Zenon DEF Part, OutPin, InPin, PairOf, Turn
    <2>2. o \in Pin[c] /\ i \in Pin[c] /\ high \in BOOLEAN
      BY <1>2, PairFacts, WishOfFacts
    <2>3. /\ Wished(c, S, W) /\ Told(c, S, o, i, high)
          /\ Len(S) >= 1 /\ S[Len(S)].call = "expect"
      <3>1. CASE Supported(c)
        <4>1. /\ Wished(c, S, Wish(c, {o}, {i}, high)) /\ Told(c, S, o, i, high)
              /\ Len(S) >= 1 /\ S[Len(S)].call = "expect"
          BY <2>2, <3>1, SetThenReadShape
        <4>2. W = Wish(c, {o}, {i}, high)
          BY <1>2, <3>1 DEF WishOf, Outs, Ins
        <4>3. QED
          BY <4>1, <4>2
      <3>2. CASE ~Supported(c)
        <4>1. o \in Nat /\ i \in Nat
          <5>1. Pin[c] \subseteq 0..109
            BY GpioAssumption, Zenon
          <5>2. QED
            BY <2>2, <5>1
        <4>2. W = {}
          BY <3>2 DEF WishOf
        <4>3. /\ Wished(c, S, {}) /\ Told(c, S, o, i, high)
              /\ Len(S) >= 1 /\ S[Len(S)].call = "expect"
          BY <2>2, <3>2, <4>1, SetThenReadUnsupported
        <4>4. QED
          BY <4>2, <4>3
      <3>3. QED
        BY <3>1, <3>2
    <2>4. Shape(c, A, W) /\ Shape(c, B, W) /\ (Turn(n) = 1 => B = <<>>)
      BY Frames
    <2> HIDE DEF o, i, high, W, A, S, B
    <2>5. /\ A \in Seq(Item) /\ S \in Seq(Item) /\ B \in Seq(Item) /\ Free(A) /\ Free(B)
          /\ Wished(c, A, W) /\ Wished(c, B, W)
      BY <2>3, <2>4 DEF Shape, Wished
    <2>6. A \o S \in Seq(Item)
      BY <2>5, Joined
    <2>7. Wished(c, (A \o S) \o B, W)
      <3>1. Wished(c, A \o S, W)
        BY <2>3, <2>5, WishedJoined
      <3>2. QED
        BY <2>5, <3>1, WishedJoined
    <2>8. Told(c, (A \o S) \o B, o, i, high)
      <3>1. Told(c, A \o S, o, i, high)
        BY <2>3, <2>5, ToldRight
      <3>2. QED
        BY <2>5, <2>6, <3>1, ToldLeft
    <2>9. /\ Len((A \o S) \o B) >= 1
          /\ Turn(n) = 1 => ((A \o S) \o B)[Len((A \o S) \o B)].call = "expect"
      <3>1. /\ Len(A) \in Nat /\ Len(S) \in Nat /\ Len(A \o S) = Len(A) + Len(S)
            /\ \A k \in 1..Len(S) : (A \o S)[Len(A) + k] = S[k]
        BY <2>5, Joined
      <3>2. /\ Len(B) \in Nat /\ Len((A \o S) \o B) = Len(A \o S) + Len(B)
            /\ \A k \in 1..Len(A \o S) : ((A \o S) \o B)[k] = (A \o S)[k]
        BY <2>5, <2>6, Joined
      <3>3. (A \o S)[Len(A \o S)].call = "expect"
        BY <2>3, <3>1
      <3>4. Turn(n) = 1 => Len(B) = 0
        BY <2>4
      <3>5. QED
        BY <2>3, <3>1, <3>2, <3>3, <3>4
    <2>10. QED
      BY <2>1, <2>7, <2>8, <2>9 DEF o, i, high, W
  <1>3. QED
    BY <1>1, <1>2

-----------------------------------------------------------------------------
(* What a change does to the changes before it. *)

\* With the bits B of the chip 1, the change has been made.
InPlace(B, s, m) ==
  LET cell == CellAt(s, m) IN \A b \in s[m].clear : <<cell[1], cell[2], b>> \in B <=> b \in s[m].set
AllHeld(B, s, n) == \A m \in 1..n : s[m].call = "change" => InPlace(B, s, m)

LEMMA ActInPlace ==
  ASSUME NEW s \in Seq(Item), NEW m, NEW t \in Spot, NEW on \in BOOLEAN, Act(s, m, t, on), NEW B
  PROVE  InPlace(B, s, m) <=> (t \in B <=> on)
  <1>1. CellAt(s, m)[1] = t[1] /\ CellAt(s, m)[2] = t[2]
    BY ActCell
  <1>2. s[m].clear = {t[3]} /\ (t[3] \in s[m].set <=> on)
    BY DEF Act
  <1>3. t = <<t[1], t[2], t[3]>>
    BY DEF Spot
  <1>4. QED
    BY <1>1, <1>2, <1>3, Zenon DEF InPlace

LEMMA HeldBefore ==
  ASSUME NEW s \in Seq(Item), NEW n \in Int, NEW m \in 1..n, NEW t \in Spot, NEW on \in BOOLEAN,
         Act(s, m, t, on), NEW B, AllHeld(B, s, n)
  PROVE  t \in B <=> on
  <1>1. InPlace(B, s, m)
    BY DEF AllHeld, Act
  <1>2. QED
    BY <1>1, ActInPlace

\* A pin that drives when the bits B are 1.
DrivesIn(c, B, h) == GroupBits[c][h] \in B /\ InBits[c][h] \notin B

\* A level bit that changes on the way is not one this run has set: that one
\* would be driven.
LEMMA HeldKept ==
  ASSUME NEW c \in Chip, Supported(c), NEW outs \in SUBSET Pin[c], NEW ins \in SUBSET Pin[c],
         outs \cap ins = {}, NEW high \in BOOLEAN, NEW w \in Wish(c, outs, ins, high),
         NEW B, NEW B2, w[1] \in B2 <=> w[2],
         \A t : t # w[1] /\ ~(t \in B2 <=> t \in B) =>
           \E h \in Pin[c] : t = DataBits[c][h] /\ ~DrivesIn(c, B, h),
         NEW s, NEW n \in Int, n <= Len(s), Wished(c, s, Wish(c, outs, ins, high)), AllHeld(B, s, n)
  PROVE  AllHeld(B2, s, n)
  <1> DEFINE W == Wish(c, outs, ins, high)
  <1>1. SUFFICES ASSUME NEW m \in 1..n, s[m].call = "change"
                 PROVE  InPlace(B2, s, m)
    BY DEF AllHeld
  <1>2. s \in Seq(Item) /\ m \in 1..Len(s)
    BY DEF Wished
  <1>3. PICK v \in W : Act(s, m, v[1], v[2]) /\ Led(c, s, m, v[1])
    BY <1>1, <1>2 DEF Wished
  <1>4. v[1] \in Spot /\ v[2] \in BOOLEAN /\ (v[1] = w[1] => v[2] = w[2])
    <2>1. v[1] \in Spot /\ v[2] \in BOOLEAN
      BY WishFacts
    <2>2. \A u \in W : u[1] = w[1] => u[2] = w[2]
      BY WishFacts
    <2>3. QED
      BY <2>1, <2>2
  <1>5. v[1] \in B <=> v[2]
    BY <1>2, <1>3, <1>4, HeldBefore
  <1>6. v[1] \in B2 <=> v[2]
    <2>1. CASE v[1] = w[1]
      BY <1>4, <2>1
    <2>2. ASSUME v[1] # w[1], ~(v[1] \in B2 <=> v[1] \in B)
          PROVE  FALSE
      <3>1. PICK h \in Pin[c] : v[1] = DataBits[c][h] /\ ~DrivesIn(c, B, h)
        BY <2>2
      <3>2. PICK k, l \in 1..(m - 1) :
              Act(s, k, GroupBits[c][h], TRUE) /\ Act(s, l, InBits[c][h], FALSE)
        BY <1>3, <3>1 DEF Led
      <3>3. k \in 1..n /\ l \in 1..n
        BY <3>2
      <3>4. GroupBits[c][h] \in Spot /\ InBits[c][h] \in Spot
        BY PinBits
      <3>5. GroupBits[c][h] \in B <=> TRUE
        <4>1. TRUE \in BOOLEAN
          OBVIOUS
        <4>2. QED
          BY <1>2, <3>2, <3>3, <3>4, <4>1, HeldBefore, Zenon
      <3>6. InBits[c][h] \notin B
        <4>1. PICK off \in BOOLEAN : off = FALSE
          OBVIOUS
        <4>2. Act(s, l, InBits[c][h], off)
          BY <3>2, <4>1, Zenon
        <4>3. InBits[c][h] \in B <=> off
          BY <1>2, <3>3, <3>4, <4>2, HeldBefore
        <4>4. QED
          BY <4>1, <4>3, Zenon
      <3>7. QED
        BY <3>1, <3>5, <3>6 DEF DrivesIn
    <2>3. QED
      BY <1>5, <2>1, <2>2, Zenon
  <1>7. QED
    BY <1>2, <1>3, <1>4, <1>6, ActInPlace

\* A change made.
LEMMA PutEffect ==
  ASSUME OwnNumbers, PinsTypeOK, Put
  PROVE  /\ Supported(chip) /\ bits' \subseteq Spot
         /\ PartCalls = Part(chip, cmd, part)
         /\ \E w \in WishOf(chip, cmd, part) :
              /\ Act(PartCalls, callNo, w[1], w[2]) /\ Led(chip, PartCalls, callNo, w[1])
              /\ w[1] \in bits' <=> w[2]
              /\ \A t : t # w[1] /\ ~(t \in bits' <=> t \in bits) =>
                   \E h \in Pin[chip] :
                     /\ t = DataBits[chip][h] /\ ~DrivesIn(chip, bits, h)
                     /\ <<t[1], t[2]>> = <<w[1][1], w[1][2]>>
  <1> DEFINE s == PartCalls
             W == WishOf(chip, cmd, part)
             cell == CellAt(PartCalls, callNo)
             of(bs) == {<<cell[1], cell[2], b>> : b \in bs}
             loose == {DataBit(h) : h \in Floating(cell)}
             up == {DataBit(h) : h \in {h \in Floating(cell) : TRUE \in Levels(h)}}
  <1>1. /\ chip \in Chip /\ cmd \in Command[chip] /\ part \in 1..Parts(cmd)
        /\ callNo \in DOMAIN s /\ bits \subseteq Spot
    BY DEF PinsTypeOK, Spot
  <1>2. s = Part(chip, cmd, part)
    BY <1>1 DEF PartCalls, CallsOf
  <1>3. Wished(chip, s, W)
    BY <1>1, <1>2, PartShape
  <1>4. s \in Seq(Item) /\ callNo \in 1..Len(s) /\ s[callNo].call = "change"
    BY <1>1, <1>3 DEF Wished, Put, NowCall
  <1>5. PICK w \in W : Act(s, callNo, w[1], w[2]) /\ Led(chip, s, callNo, w[1])
    BY <1>3, <1>4 DEF Wished
  <1>6. Supported(chip)
    BY <1>5 DEF WishOf
  <1>7. w[1] \in Spot /\ w[2] \in BOOLEAN
    <2>1. W = Wish(chip, Outs(chip, cmd, part), Ins(cmd, part), High(cmd, part))
      BY <1>6 DEF WishOf
    <2>2. QED
      BY <1>1, <1>6, <2>1, WishOfFacts, WishFacts
  <1>8. cell = <<w[1][1], w[1][2]>>
    BY <1>4, <1>5, <1>7, ActCell
  <1>9. of(s[callNo].clear) = {w[1]} /\ of(s[callNo].set) = IF w[2] THEN {w[1]} ELSE {}
    <2>1. s[callNo].clear = {w[1][3]} /\ s[callNo].set = IF w[2] THEN {w[1][3]} ELSE {}
      BY <1>5 DEF Act
    <2>2. w[1] = <<cell[1], cell[2], w[1][3]>>
      BY <1>7, <1>8 DEF Spot
    <2> HIDE DEF cell, s
    <2>3. QED
      BY <1>7, <2>1, <2>2
  <1>10. bits' = (((bits \ loose) \cup up) \ of(s[callNo].clear)) \cup of(s[callNo].set)
    BY DEF Put, NowCall
  <1>11. \A t \in loose \cup up : t \in Spot /\ \E h \in Pin[chip] :
           /\ t = DataBits[chip][h] /\ ~DrivesIn(chip, bits, h)
           /\ <<t[1], t[2]>> = <<w[1][1], w[1][2]>>
    <2>1. SUFFICES ASSUME NEW t, NEW h \in Floating(cell), t = DataBit(h)
                   PROVE  /\ t \in Spot /\ h \in Pin[chip] /\ t = DataBits[chip][h]
                          /\ ~DrivesIn(chip, bits, h) /\ <<t[1], t[2]>> = <<w[1][1], w[1][2]>>
      <3> HIDE DEF cell
      <3>1. QED
        BY Zenon
    <2>2. h \in Pin[chip] /\ ~Drives(h) /\ <<DataBit(h)[1], DataBit(h)[2]>> = cell
      BY DEF Floating, Pins
    <2>3. DataBits[chip][h] \in Spot
      BY <1>1, <1>6, <2>2, PinBits
    <2>4. QED
      BY <1>8, <2>1, <2>2, <2>3 DEF DataBit, Drives, DrivesIn, GroupBit, InBit
  <1> HIDE DEF s, W, loose, up, of, cell
  <1>12. w[1] \in bits' <=> w[2]
    BY <1>7, <1>9, <1>10
  <1>13. bits' \subseteq Spot
    BY <1>1, <1>7, <1>9, <1>10, <1>11
  <1>14. \A t : t # w[1] /\ ~(t \in bits' <=> t \in bits) => t \in loose \cup up
    BY <1>9, <1>10
  <1>15. QED
    BY <1>2, <1>5, <1>6, <1>11, <1>12, <1>13, <1>14 DEF s, W

-----------------------------------------------------------------------------
(* gpio: what has been asked of a pin. *)

AskedIn(c, B, g, high) ==
  LET s == Configure(c, g, high)
  IN Known(c, g) /\ DrivesIn(c, B, g) /\ \A m \in DOMAIN s : s[m].call = "change" => InPlace(B, s, m)

LEMMA AskedHeld ==
  ASSUME OwnNumbers, NEW c \in Chip, Supported(c), NEW x \in Command[c], x.tool = "gpio",
         NEW k \in 1..Parts(x), NEW B
  PROVE  LET s == Part(c, x, k)
             g == x.gpios[k]
         IN /\ AskedIn(c, B, g, x.level) => Known(c, g) /\ AllHeld(B, s, Len(s))
            /\ AllHeld(B, s, Len(s)) /\ (Known(c, g) \/ ~Stops(s)) => AskedIn(c, B, g, x.level)
  <1> DEFINE s == Configure(c, x.gpios[k], x.level)
             g == x.gpios[k]
             P == Outs(c, x, k)
             W == Wish(c, P, {}, x.level)
  <1>1. Part(c, x, k) = s
    BY DEF Part
  <1>2. P \in SUBSET Pin[c] /\ g \in Nat /\ x.level \in BOOLEAN /\ (g \in P \/ ~Known(c, g))
    <2>1. Parts(x) = Len(x.gpios)
      BY DEF Parts
    <2>2. /\ x.gpios \in Seq(Nat) /\ k \in 1..Len(x.gpios) /\ g \in Nat /\ x.level \in BOOLEAN
          /\ (g \in Pin[c] \/ ~Known(c, g))
      BY <2>1, CommandFacts
    <2>3. k \in DOMAIN x.gpios
      BY <2>2
    <2>4. QED
      BY <2>2, <2>3 DEF Outs
  <1>3. /\ s \in Seq(Item) /\ DOMAIN s = 1..Len(s)
        /\ Known(c, g) => Has(s, GroupBits[c][g], TRUE) /\ Has(s, InBits[c][g], FALSE)
        /\ ~Known(c, g) => Stops(s)
    <2>1. /\ Shape(c, s, W)
          /\ Known(c, g) => Has(s, GroupBits[c][g], TRUE) /\ Has(s, InBits[c][g], FALSE)
          /\ ~Known(c, g) => Stops(s)
      <3> HIDE DEF g, P
      <3>1. QED
        BY <1>2, ConfigureShape DEF g
    <2>2. s \in Seq(Item)
      BY <2>1 DEF Shape, Wished
    <2> HIDE DEF s
    <2>3. DOMAIN s = 1..Len(s)
      BY <2>2
    <2>4. QED
      BY <2>1, <2>2, <2>3, Zenon
  <1> HIDE DEF s, g
  <1>4. AskedIn(c, B, g, x.level) <=>
          Known(c, g) /\ DrivesIn(c, B, g) /\ AllHeld(B, s, Len(s))
    BY <1>3 DEF AskedIn, AllHeld, s, g
  <1>5. ASSUME Known(c, g), AllHeld(B, s, Len(s))
        PROVE  DrivesIn(c, B, g)
    <2>1. g \in Pin[c] /\ Len(s) \in Int
      BY <1>2, <1>3, <1>5
    <2>2. GroupBits[c][g] \in Spot /\ InBits[c][g] \in Spot
      BY <2>1, PinBits
    <2>3. \A t \in Spot : \A on \in BOOLEAN : Has(s, t, on) => (t \in B <=> on)
      <3>1. SUFFICES ASSUME NEW t \in Spot, NEW on \in BOOLEAN, Has(s, t, on)
                     PROVE  t \in B <=> on
        OBVIOUS
      <3>2. PICK m \in 1..Len(s) : Act(s, m, t, on)
        BY <3>1 DEF Has
      <3>3. QED
        BY <1>3, <1>5, <2>1, <3>2, HeldBefore
    <2>4. GroupBits[c][g] \in B
      BY <1>3, <1>5, <2>2, <2>3, Zenon
    <2>5. InBits[c][g] \notin B
      <3>1. PICK off \in BOOLEAN : off = FALSE
        OBVIOUS
      <3>2. Has(s, InBits[c][g], off)
        BY <1>3, <1>5, <3>1, Zenon
      <3>3. InBits[c][g] \in B <=> off
        BY <2>2, <2>3, <3>2, Zenon
      <3>4. QED
        BY <3>1, <3>3, Zenon
    <2>6. QED
      BY <2>4, <2>5 DEF DrivesIn
  <1>6. QED
    BY <1>1, <1>3, <1>4, <1>5, Zenon DEF s, g

\* All parts of a run of gpio wish for the same.
LEMMA GpioWish ==
  ASSUME NEW c, NEW x, x.tool = "gpio", NEW k, NEW n
  PROVE  WishOf(c, x, k) = WishOf(c, x, n)
  BY DEF WishOf, Outs, Ins, High

-----------------------------------------------------------------------------
(* The invariant. *)

IInv == PinsInv /\ LoopbackTells

LEMMA CallsAre ==
  ASSUME PinsTypeOK
  PROVE  PartCalls = Part(chip, cmd, part)
  <1>1. chip \in Chip /\ cmd \in Command[chip] /\ part \in 1..Parts(cmd)
    BY DEF PinsTypeOK
  <1>2. QED
    BY <1>1 DEF PartCalls, CallsOf

\* Both forms of the invariant's parts.
LEMMA AskedState == \A g, high : AsAsked(g, high) <=> AskedIn(chip, bits, g, high)
  BY DEF AsAsked, AskedIn, Held, InPlace, Drives, DrivesIn, GroupBit, InBit

LEMMA AskedNext == \A g, high : AsAsked(g, high)' <=> AskedIn(chip', bits', g, high)
  BY DEF AsAsked, AskedIn, Held, InPlace, Drives, DrivesIn, GroupBit, InBit

LEMMA ProgressState ==
  Progress <=> /\ AllHeld(bits, PartCalls, callNo - 1)
               /\ \A m \in 1..(callNo - 1) : PartCalls[m] # GiveUp
  BY DEF Progress, Held, InPlace, AllHeld

LEMMA ProgressNext ==
  Progress' <=> /\ AllHeld(bits', PartCalls', callNo' - 1)
                /\ \A m \in 1..(callNo' - 1) : PartCalls'[m] # GiveUp
  BY DEF Progress, Held, InPlace, AllHeld

\* Which parts belong to a pair.
LEMMA PairNumbers ==
  ASSUME NEW n \in Nat, n >= 1
  PROVE  LET k == (n + 3) \div 4
         IN /\ k \in Nat /\ k >= 1 /\ Turn(n) \in 0..3 /\ n + 3 = 4 * k + Turn(n)
            /\ \A j \in Nat : j >= 1 /\ n = 4 * j - 2 => j = k /\ Turn(n) = 1
  BY DEF Turn

\* Once a call has had its effect, going on keeps the invariant.
LEMMA AdvanceKeeps ==
  ASSUME OwnNumbers, IInv, exit = "none", NowCall # GiveUp, Advance, UNCHANGED <<chip, board, cmd>>,
         bits' \subseteq Spot,
         \A n \in 1..Parts(cmd) : \A m \in Int :
           /\ m <= Len(Part(chip, cmd, n)) /\ WishOf(chip, cmd, n) = WishOf(chip, cmd, part)
           /\ AllHeld(bits, Part(chip, cmd, n), m)
           => AllHeld(bits', Part(chip, cmd, n), m),
         NowCall.call = "change" => InPlace(bits', PartCalls, callNo),
         cmd.tool # "gpio" /\ callNo = Len(PartCalls) /\ Turn(part) = 1 => Jumpered((part + 3) \div 4)
  PROVE  IInv'
  <1> DEFINE s == Part(chip, cmd, part)
  <1>1. /\ PinsTypeOK /\ Progress /\ DoneAsAsked /\ LoopbackTells
        /\ chip \in Chip /\ cmd \in Command[chip] /\ part \in 1..Parts(cmd) /\ part \in Int
        /\ board \in Jumper[chip]
    BY DEF IInv, PinsInv, PinsTypeOK
  <1>2. PartCalls = s
    BY <1>1, CallsAre
  <1>3. /\ s \in Seq(Item) /\ Len(s) \in Nat /\ callNo \in 1..Len(s) /\ callNo \in Int
    <2>1. s \in Seq(Item)
      BY <1>1, PartShape DEF Wished
    <2>2. callNo \in DOMAIN s
      BY <1>1, <1>2 DEF PinsTypeOK
    <2> HIDE DEF s
    <2>3. QED
      BY <2>1, <2>2
  <1>4. Parts(cmd) \in Nat /\ Parts(cmd) >= 1
    BY <1>1, CommandFacts
  <1> HIDE DEF s
  <1>5. \/ callNo < Len(s) /\ callNo' = callNo + 1 /\ part' = part /\ exit' = "none"
        \/ callNo = Len(s) /\ part < Parts(cmd) /\ part' = part + 1 /\ callNo' = 1 /\ exit' = "none"
        \/ callNo = Len(s) /\ part = Parts(cmd) /\ part' = part /\ callNo' = callNo /\ exit' = "0"
    BY <1>1, <1>2, <1>3, <1>4 DEF Advance
  <1>6. part' \in 1..Parts(cmd) /\ PartCalls' = Part(chip, cmd, part')
    <2>1. part' \in 1..Parts(cmd)
      BY <1>1, <1>4, <1>5
    <2>2. PartCalls' = CallsOf[chip][cmd][part']
      BY DEF PartCalls
    <2>3. QED
      BY <1>1, <2>1, <2>2 DEF CallsOf
  <1>7. PinsTypeOK'
    <2>1. callNo' \in 1..Len(PartCalls') /\ PartCalls' \in Seq(Item)
      <3>1. Part(chip, cmd, part') \in Seq(Item) /\ Len(Part(chip, cmd, part')) >= 1
        BY <1>1, <1>6, PartShape DEF Wished
      <3>2. CASE part' = part
        BY <1>3, <1>5, <1>6, <3>1, <3>2 DEF s
      <3>3. CASE part' # part
        BY <1>5, <1>6, <3>1, <3>3
      <3>4. QED
        BY <3>2, <3>3
    <2>2. callNo' \in DOMAIN PartCalls'
      BY <2>1
    <2>3. exit' \in {"none", "0", "1", "refused"}
      BY <1>5
    <2>4. part' \in 1..Parts(cmd')
      BY <1>6
    <2>5. bits' \subseteq Byte \X (0..255) \X (0..7)
      BY DEF Spot
    <2>6. QED
      BY <1>1, <2>2, <2>3, <2>4, <2>5, Zenon DEF PinsTypeOK
  \* The present part.
  <1>8. /\ AllHeld(bits', s, callNo - 1) /\ AllHeld(bits', s, callNo)
        /\ \A m \in 1..callNo : s[m] # GiveUp
    <2>1. AllHeld(bits, s, callNo - 1) /\ \A m \in 1..(callNo - 1) : s[m] # GiveUp
      BY <1>1, <1>2, ProgressState
    <2>2. AllHeld(bits', s, callNo - 1)
      <3>1. callNo - 1 \in Int /\ callNo - 1 <= Len(s)
        BY <1>3
      <3>2. QED
        BY <1>1, <2>1, <3>1 DEF s
    <2>3. s[callNo] # GiveUp /\ (s[callNo].call = "change" => InPlace(bits', s, callNo))
      BY <1>2 DEF NowCall
    <2>4. \A m \in 1..callNo : m = callNo \/ m \in 1..(callNo - 1)
      BY <1>3
    <2>5. QED
      BY <2>1, <2>2, <2>3, <2>4 DEF AllHeld
  <1>9. Progress'
    <2>1. CASE part' = part
      <3>1. PartCalls' = s
        BY <1>6, <2>1 DEF s
      <3>2. callNo' - 1 = callNo \/ callNo' = callNo
        BY <1>1, <1>3, <1>5, <2>1
      <3>3. AllHeld(bits', s, callNo' - 1) /\ \A m \in 1..(callNo' - 1) : s[m] # GiveUp
        BY <1>3, <1>8, <3>2
      <3>4. QED
        BY <3>1, <3>3, ProgressNext
    <2>2. CASE part' # part
      <3>1. callNo' - 1 = 0
        BY <1>5, <2>2
      <3>2. AllHeld(bits', PartCalls', 0) /\ \A m \in 1..0 : PartCalls'[m] # GiveUp
        BY DEF AllHeld
      <3>3. QED
        BY <3>1, <3>2, ProgressNext
    <2>3. QED
      BY <2>1, <2>2
  <1>10. DoneAsAsked'
    <2>1. SUFFICES ASSUME cmd.tool = "gpio", Supported(chip),
                          NEW k \in 1..(IF exit' = "0" THEN part' ELSE part' - 1)
                   PROVE  AskedIn(chip, bits', cmd.gpios[k], cmd.level)
      BY AskedNext DEF DoneAsAsked
    <2>2. k \in 1..Parts(cmd) /\ (k \in 1..(part - 1) \/ (k = part /\ callNo = Len(s)))
      BY <1>1, <1>3, <1>4, <1>5
    <2> DEFINE u == Part(chip, cmd, k)
    <2>3. Len(u) \in Int /\ WishOf(chip, cmd, k) = WishOf(chip, cmd, part)
      <3>1. u \in Seq(Item)
        BY <1>1, <2>2, PartShape DEF Wished
      <3> HIDE DEF u
      <3>2. Len(u) \in Int
        BY <3>1
      <3>3. QED
        BY <2>1, <3>2, GpioWish
    <2>4. CASE k \in 1..(part - 1)
      <3>1. AskedIn(chip, bits, cmd.gpios[k], cmd.level)
        BY <1>1, <2>1, <2>4, AskedState DEF DoneAsAsked
      <3>2. Known(chip, cmd.gpios[k]) /\ AllHeld(bits, u, Len(u))
        BY <1>1, <2>1, <2>2, <3>1, AskedHeld
      <3>3. AllHeld(bits', u, Len(u))
        BY <2>2, <2>3, <3>2
      <3>4. QED
        BY <1>1, <2>1, <2>2, <3>2, <3>3, AskedHeld
    <2>5. CASE k = part /\ callNo = Len(s)
      <3>1. AllHeld(bits', u, Len(u)) /\ ~Stops(u)
        BY <1>8, <2>5 DEF Stops, s
      <3>2. QED
        BY <1>1, <2>1, <2>2, <3>1, AskedHeld
    <2>6. QED
      BY <2>2, <2>4, <2>5
  <1>11. LoopbackTells'
    <2>1. \A k : Jumpered(k)' <=> Jumpered(k)
      BY DEF Jumpered
    <2>2. SUFFICES ASSUME cmd.tool = "loopback"
                   PROVE  /\ \A k \in DOMAIN cmd.pairs : part' > 4 * k - 2 => Jumpered(k)
                          /\ exit' = "0" => \A k \in DOMAIN cmd.pairs : Jumpered(k)
                          /\ exit' # "1"
      BY <2>1, Zenon DEF LoopbackTells
    <2>3. /\ DOMAIN cmd.pairs = 1..Len(cmd.pairs) /\ Len(cmd.pairs) \in Nat
          /\ Parts(cmd) = 4 * Len(cmd.pairs)
      <3>1. cmd \in [tool : {"gpio"}, gpios : Seq(0..127) \ {<<>>}, level : BOOLEAN]
                \cup [tool : {"loopback"}, pairs : Seq(Pin[chip] \X Pin[chip]) \ {<<>>}]
        BY <1>1, GpioAssumption, Zenon
      <3>2. cmd.pairs \in Seq(Pin[chip] \X Pin[chip])
        BY <2>2, <3>1
      <3>3. QED
        BY <2>2, <3>2 DEF Parts
    <2>4. \A k \in DOMAIN cmd.pairs : part > 4 * k - 2 => Jumpered(k)
      BY <1>1, <2>2 DEF LoopbackTells
    <2>5. ASSUME NEW k \in DOMAIN cmd.pairs, part' > 4 * k - 2
          PROVE  Jumpered(k)
      <3> DEFINE q == 4 * k - 2
      <3>1. k \in Nat /\ k >= 1 /\ part \in Nat /\ part >= 1 /\ q \in Int
        BY <1>1, <1>4, <2>3
      <3>2. part > 4 * k - 2 \/ (part = 4 * k - 2 /\ callNo = Len(s))
        <4> HIDE DEF q
        <4>1. part > q \/ (part = q /\ callNo = Len(s))
          BY <1>5, <2>5, <3>1 DEF q
        <4>2. QED
          BY <4>1 DEF q
      <3>3. CASE part = 4 * k - 2 /\ callNo = Len(s)
        <4>1. k = (part + 3) \div 4 /\ Turn(part) = 1
          BY <3>1, <3>3, PairNumbers, Zenon
        <4>2. QED
          BY <1>2, <2>2, <3>3, <4>1
      <3>4. QED
        BY <2>4, <2>5, <3>2, <3>3
    <2>6. ASSUME exit' = "0", NEW k \in DOMAIN cmd.pairs
          PROVE  Jumpered(k)
      BY <1>1, <1>5, <2>3, <2>4, <2>6
    <2>7. QED
      BY <1>5, <2>5, <2>6
  <1>12. QED
    BY <1>7, <1>9, <1>10, <1>11 DEF IInv, PinsInv

\* A run that starts.
Fresh ==
  /\ chip \in Chip /\ bits \subseteq Spot /\ board \in Jumper[chip] /\ cmd \in Command[chip]
  /\ part = 1 /\ callNo = 1 /\ exit = "none"

LEMMA FreshHolds ==
  ASSUME OwnNumbers, Fresh
  PROVE  IInv
  <1>1. /\ chip \in Chip /\ bits \subseteq Spot /\ board \in Jumper[chip] /\ cmd \in Command[chip]
        /\ part = 1 /\ callNo = 1 /\ exit = "none"
    BY DEF Fresh
  <1>2. part \in 1..Parts(cmd)
    BY <1>1, CommandFacts
  <1>3. callNo \in DOMAIN PartCalls
    <2> DEFINE s == Part(chip, cmd, part)
    <2>1. PartCalls = s
      BY <1>1, <1>2 DEF PartCalls, CallsOf
    <2>2. s \in Seq(Item) /\ Len(s) >= 1
      BY <1>1, <1>2, PartShape DEF Wished
    <2> HIDE DEF s
    <2>3. QED
      BY <1>1, <2>1, <2>2
  <1>4. PinsTypeOK
    BY <1>1, <1>2, <1>3, Zenon DEF PinsTypeOK, Spot
  <1>5. Progress /\ DoneAsAsked
    BY <1>1 DEF Progress, DoneAsAsked
  <1>6. LoopbackTells
    <2>1. SUFFICES ASSUME cmd.tool = "loopback", NEW k \in DOMAIN cmd.pairs
                   PROVE  ~(part > 4 * k - 2)
      BY <1>1 DEF LoopbackTells
    <2>2. DOMAIN cmd.pairs \subseteq Nat \ {0}
      <3>1. cmd \in [tool : {"gpio"}, gpios : Seq(0..127) \ {<<>>}, level : BOOLEAN]
                \cup [tool : {"loopback"}, pairs : Seq(Pin[chip] \X Pin[chip]) \ {<<>>}]
        BY <1>1, GpioAssumption, Zenon
      <3>2. cmd.pairs \in Seq(Pin[chip] \X Pin[chip])
        BY <2>1, <3>1
      <3>3. QED
        BY <3>2
    <2>3. QED
      BY <1>1, <2>2
  <1>7. QED
    BY <1>4, <1>5, <1>6 DEF IInv, PinsInv

LEMMA FreshNext ==
  ASSUME OwnNumbers
  PROVE  Fresh' => IInv'
  <1>1. Fresh => IInv
    BY FreshHolds
  <1>2. QED
    BY <1>1, PTL

LEMMA PutKeeps ==
  ASSUME OwnNumbers, IInv, Put
  PROVE  IInv'
  <1> DEFINE s == PartCalls
  <1>1. /\ PinsTypeOK /\ chip \in Chip /\ cmd \in Command[chip] /\ part \in 1..Parts(cmd)
        /\ callNo \in DOMAIN s
    BY DEF IInv, PinsInv, PinsTypeOK
  <1>2. /\ exit = "none" /\ s[callNo].call = "change" /\ Advance /\ UNCHANGED <<chip, board, cmd>>
    BY DEF Put, NowCall
  <1>3. /\ Supported(chip) /\ bits' \subseteq Spot /\ s = Part(chip, cmd, part)
    BY <1>1, PutEffect
  <1>4. PICK w \in WishOf(chip, cmd, part) :
          /\ Act(s, callNo, w[1], w[2])
          /\ w[1] \in bits' <=> w[2]
          /\ \A t : t # w[1] /\ ~(t \in bits' <=> t \in bits) =>
               \E h \in Pin[chip] : t = DataBits[chip][h] /\ ~DrivesIn(chip, bits, h)
    BY <1>1, PutEffect
  <1> HIDE DEF s
  <1> DEFINE outs == Outs(chip, cmd, part)
             ins == Ins(cmd, part)
             high == High(cmd, part)
  <1>5. /\ outs \in SUBSET Pin[chip] /\ ins \in SUBSET Pin[chip] /\ outs \cap ins = {}
        /\ high \in BOOLEAN /\ w \in Wish(chip, outs, ins, high)
        /\ WishOf(chip, cmd, part) = Wish(chip, outs, ins, high)
    BY <1>1, <1>3, WishOfFacts DEF WishOf
  <1> HIDE DEF outs, ins, high
  <1>6. ASSUME NEW n \in 1..Parts(cmd), NEW m \in Int, m <= Len(Part(chip, cmd, n)),
               WishOf(chip, cmd, n) = WishOf(chip, cmd, part), AllHeld(bits, Part(chip, cmd, n), m)
        PROVE  AllHeld(bits', Part(chip, cmd, n), m)
    <2> DEFINE u == Part(chip, cmd, n)
    <2>1. Wished(chip, u, Wish(chip, outs, ins, high))
      BY <1>1, <1>5, <1>6, PartShape
    <2> HIDE DEF u
    <2>2. m <= Len(u) /\ AllHeld(bits, u, m)
      BY <1>6 DEF u
    <2>3. AllHeld(bits', u, m)
      BY <1>1, <1>3, <1>4, <1>5, <2>1, <2>2, HeldKept
    <2>4. QED
      BY <2>3 DEF u
  <1>7. InPlace(bits', s, callNo)
    <2>1. w[1] \in Spot /\ w[2] \in BOOLEAN
      BY <1>1, <1>3, <1>5, WishFacts
    <2>2. s \in Seq(Item)
      BY <1>1, <1>3, PartShape DEF Wished
    <2>3. QED
      BY <1>4, <2>1, <2>2, ActInPlace
  <1>8. NowCall # GiveUp
    BY <1>2 DEF NowCall, GiveUp, s
  <1>9. cmd.tool # "gpio" /\ callNo = Len(s) /\ Turn(part) = 1 => Jumpered((part + 3) \div 4)
    BY <1>1, <1>2, <1>3, PartShape
  <1>10. QED
    BY <1>2, <1>3, <1>6, <1>7, <1>8, <1>9, AdvanceKeeps DEF s

LEMMA SessionKeeps ==
  ASSUME OwnNumbers, IInv, Session
  PROVE  IInv'
  <1>1. /\ PinsTypeOK /\ chip \in Chip /\ cmd \in Command[chip] /\ part \in 1..Parts(cmd)
        /\ bits \subseteq Spot
    BY DEF IInv, PinsInv, PinsTypeOK, Spot
  <1>2. /\ exit = "none" /\ PartCalls[callNo].call \in {"enter", "exit", "select"} /\ Advance
        /\ UNCHANGED <<chip, board, cmd>> /\ bits' = bits
    BY DEF Session, NowCall
  <1>3. cmd.tool # "gpio" /\ callNo = Len(PartCalls) /\ Turn(part) = 1 =>
          Jumpered((part + 3) \div 4)
    BY <1>1, <1>2, CallsAre, PartShape
  <1>4. NowCall # GiveUp /\ NowCall.call # "change"
    BY <1>2 DEF NowCall, GiveUp
  <1>5. QED
    BY <1>1, <1>2, <1>3, <1>4, AdvanceKeeps

\* What a test reads tells whether the pair is jumpered.
LEMMA TestTells ==
  ASSUME OwnNumbers, IInv, NowCall.call = "expect", cmd.tool # "gpio",
         NEW level \in Levels(NowCall.pin)
  PROVE  /\ Jumpered((part + 3) \div 4) => level = NowCall.high
         /\ ~Jumpered((part + 3) \div 4) => level = FALSE
         /\ NowCall.high = (Turn(part) % 2 = 1)
  <1> DEFINE s == PartCalls
             o == OutPin(cmd, part)
             i == InPin(cmd, part)
             high == High(cmd, part)
             k == (part + 3) \div 4
  <1>1. /\ PinsTypeOK /\ Progress /\ chip \in Chip /\ cmd \in Command[chip]
        /\ part \in 1..Parts(cmd) /\ board \in Jumper[chip]
        /\ callNo \in DOMAIN s /\ cmd.tool = "loopback"
    <2>1. cmd.tool = "loopback"
      BY CommandFacts DEF IInv, PinsInv, PinsTypeOK
    <2>2. QED
      BY <2>1 DEF IInv, PinsInv, PinsTypeOK
  <1>2. s = Part(chip, cmd, part)
    BY <1>1, CallsAre
  <1>3. Wished(chip, s, WishOf(chip, cmd, part)) /\ Told(chip, s, o, i, high)
    BY <1>1, <1>2, PartShape
  <1>4. s \in Seq(Item) /\ callNo \in 1..Len(s) /\ callNo \in Int /\ s[callNo].call = "expect"
    BY <1>1, <1>3 DEF Wished, NowCall
  <1>5. AllHeld(bits, s, callNo - 1) /\ ~GaveUp(s, callNo)
    BY <1>1, ProgressState DEF GaveUp
  <1> HIDE DEF s
  <1>6. s[callNo] = Expect(i, high) /\ Driven(chip, s, callNo, o, i, high)
    BY <1>3, <1>4, <1>5 DEF Told
  <1>7. Supported(chip)
    <2>1. PICK m \in 1..(callNo - 1) : Act(s, m, GroupBits[chip][o], TRUE)
      BY <1>6 DEF Driven, Before
    <2>2. s[m].call = "change" /\ m \in 1..Len(s)
      BY <1>4, <2>1 DEF Act
    <2>3. \E w \in WishOf(chip, cmd, part) : TRUE
      BY <1>3, <2>2 DEF Wished
    <2>4. QED
      BY <2>3 DEF WishOf
  <1>8. /\ o \in Pin[chip] /\ i \in Pin[chip] /\ o # i
        /\ k \in 1..Len(cmd.pairs) /\ {o, i} = {cmd.pairs[k][1], cmd.pairs[k][2]}
        /\ high \in BOOLEAN /\ high = (Turn(part) % 2 = 1)
    BY <1>1, PairFacts, WishOfFacts DEF PairOf, High
  <1> HIDE DEF o, i, high, k
  <1>9. /\ GroupBits[chip][o] \in Spot /\ InBits[chip][o] \in Spot
        /\ DataBits[chip][o] \in Spot /\ InBits[chip][i] \in Spot
    BY <1>1, <1>7, <1>8, PinBits
  <1>10. \A t \in Spot : \A on \in BOOLEAN : Before(s, callNo, t, on) => (t \in bits <=> on)
    <2>1. SUFFICES ASSUME NEW t \in Spot, NEW on \in BOOLEAN, Before(s, callNo, t, on)
                   PROVE  t \in bits <=> on
      OBVIOUS
    <2>2. PICK n \in Int : n = callNo - 1
      BY <1>4
    <2>3. PICK m \in 1..n : Act(s, m, t, on)
      BY <2>1, <2>2 DEF Before
    <2>4. AllHeld(bits, s, n)
      BY <1>5, <2>2
    <2>5. QED
      BY <1>4, <2>3, <2>4, HeldBefore
  <1>11. /\ GroupBits[chip][o] \in bits /\ InBits[chip][o] \notin bits
         /\ (DataBits[chip][o] \in bits <=> high) /\ InBits[chip][i] \in bits
    <2>1. GroupBits[chip][o] \in bits /\ InBits[chip][i] \in bits
      BY <1>6, <1>9, <1>10, Zenon DEF Driven
    <2>2. DataBits[chip][o] \in bits <=> high
      BY <1>6, <1>8, <1>9, <1>10 DEF Driven
    <2>3. InBits[chip][o] \notin bits
      <3>1. PICK off \in BOOLEAN : off = FALSE
        OBVIOUS
      <3>2. Before(s, callNo, InBits[chip][o], off)
        BY <1>6, <3>1, Zenon DEF Driven
      <3>3. InBits[chip][o] \in bits <=> off
        BY <1>9, <1>10, <3>2, Zenon
      <3>4. QED
        BY <3>1, <3>3, Zenon
    <2>4. QED
      BY <2>1, <2>2, <2>3
  <1>12. Drives(o) /\ ~Drives(i)
    BY <1>11 DEF Drives, GroupBit, InBit
  <1>13. \A w \in board : i \in w => w = {o, i}
    <2>1. \A b \in Jumper[chip] : \A w \in b :
            cmd.pairs[k][1] \in w \/ cmd.pairs[k][2] \in w => w = {cmd.pairs[k][1], cmd.pairs[k][2]}
      BY <1>1, <1>8, CommandFacts
    <2>2. i = cmd.pairs[k][1] \/ i = cmd.pairs[k][2]
      BY <1>8
    <2>3. QED
      BY <1>1, <1>8, <2>1, <2>2
  <1>14. Jumpered(k) <=> {o, i} \in board
    BY <1>8 DEF Jumpered
  <1>15. s[callNo].pin = i /\ s[callNo].high = high
    BY <1>6 DEF Expect
  <1>16. level \in Levels(i)
    BY <1>15 DEF NowCall, s
  <1>17. ASSUME {o, i} \in board
         PROVE  level = high
    <2>1. Wire(i) = {i, o}
      BY <1>13, <1>17 DEF Wire
    <2>2. {h \in Wire(i) : Drives(h)} = {o}
      BY <1>12, <2>1
    <2>3. Levels(i) = {(DataBit(o) \in bits)}
      BY <1>12, <2>2, Zenon DEF Levels
    <2>4. level = (DataBits[chip][o] \in bits)
      BY <1>16, <2>3 DEF DataBit
    <2>5. (DataBits[chip][o] \in bits) = high
      <3>1. \A p, q \in BOOLEAN : (p <=> q) => p = q
        OBVIOUS
      <3>2. (DataBits[chip][o] \in bits) \in BOOLEAN
        OBVIOUS
      <3>3. high \in BOOLEAN /\ (DataBits[chip][o] \in bits <=> high)
        BY <1>8, <1>11
      <3>4. QED
        BY <3>1, <3>2, <3>3, Zenon
    <2>6. QED
      BY <2>4, <2>5
  <1>18. ASSUME {o, i} \notin board
         PROVE  level = FALSE
    <2>1. Wire(i) = {i}
      BY <1>13, <1>18 DEF Wire
    <2>2. {h \in Wire(i) : Drives(h)} = {}
      BY <1>12, <2>1
    <2>3. Levels(i) = {DataBit(i) \in bits /\ Drives(i)}
      BY <2>2, Zenon DEF Levels
    <2>4. QED
      BY <1>12, <1>16, <2>3
  <1>19. QED
    BY <1>8, <1>14, <1>15, <1>17, <1>18 DEF NowCall, s, k

LEMMA CheckKeeps ==
  ASSUME OwnNumbers, IInv, Check
  PROVE  IInv'
  <1>1. /\ PinsTypeOK /\ Progress /\ DoneAsAsked /\ LoopbackTells
        /\ chip \in Chip /\ cmd \in Command[chip] /\ part \in 1..Parts(cmd) /\ bits \subseteq Spot
    BY DEF IInv, PinsInv, PinsTypeOK, Spot
  <1>2. exit = "none" /\ NowCall.call = "expect" /\ UNCHANGED <<chip, bits, board, cmd>>
    BY DEF Check
  <1>3. PICK level \in Levels(NowCall.pin) :
          IF level = NowCall.high THEN Advance ELSE exit' = "1" /\ UNCHANGED <<part, callNo>>
    BY DEF Check
  <1>4. NowCall # GiveUp /\ NowCall.call # "change"
    BY <1>2 DEF GiveUp
  <1>5. CASE level = NowCall.high
    <2>1. cmd.tool # "gpio" /\ callNo = Len(PartCalls) /\ Turn(part) = 1 => Jumpered((part + 3) \div 4)
      <3>1. SUFFICES ASSUME cmd.tool # "gpio", Turn(part) = 1, ~Jumpered((part + 3) \div 4)
                     PROVE  FALSE
        OBVIOUS
      <3>2. level = FALSE /\ NowCall.high = (Turn(part) % 2 = 1)
        BY <1>2, <3>1, TestTells
      <3>3. Turn(part) % 2 = 1
        BY <3>1
      <3>4. QED
        BY <1>5, <3>2, <3>3
    <2>2. Advance
      BY <1>3, <1>5
    <2>3. QED
      BY <1>1, <1>2, <1>4, <2>1, <2>2, AdvanceKeeps
  <1>6. CASE level # NowCall.high
    <2>1. exit' = "1" /\ UNCHANGED <<part, callNo>>
      BY <1>3, <1>6
    <2>2. PinsTypeOK' /\ Progress'
      BY <1>1, <1>2, <2>1 DEF PinsTypeOK, Progress, Held, PartCalls
    <2>3. DoneAsAsked'
      <3>1. \A g, high : AsAsked(g, high)' <=> AsAsked(g, high)
        BY <1>2, AskedState, AskedNext
      <3>2. QED
        BY <1>1, <1>2, <2>1, <3>1 DEF DoneAsAsked
    <2>4. cmd.tool # "gpio" => ~Jumpered((part + 3) \div 4)
      BY <1>2, <1>6, TestTells
    <2>5. LoopbackTells'
      <3>1. \A k : Jumpered(k)' <=> Jumpered(k)
        BY <1>2 DEF Jumpered
      <3>2. QED
        BY <1>1, <1>2, <2>1, <2>4, <3>1 DEF LoopbackTells
    <2>6. QED
      BY <2>2, <2>3, <2>5 DEF IInv, PinsInv
  <1>7. QED
    BY <1>5, <1>6

LEMMA RefuseKeeps ==
  ASSUME IInv, Refuse
  PROVE  IInv'
  <1>1. PinsTypeOK /\ Progress /\ DoneAsAsked /\ LoopbackTells
    BY DEF IInv, PinsInv
  <1>2. exit = "none" /\ exit' = "refused" /\ UNCHANGED <<chip, bits, board, cmd, part, callNo>>
    BY DEF Refuse
  <1>3. PinsTypeOK' /\ Progress'
    BY <1>1, <1>2 DEF PinsTypeOK, Progress, Held, PartCalls
  <1>4. DoneAsAsked'
    <2>1. \A g, high : AsAsked(g, high)' <=> AsAsked(g, high)
      BY <1>2, AskedState, AskedNext
    <2>2. QED
      BY <1>1, <1>2, <2>1 DEF DoneAsAsked
  <1>5. LoopbackTells'
    <2>1. \A k : Jumpered(k)' <=> Jumpered(k)
      BY <1>2 DEF Jumpered
    <2>2. QED
      BY <1>1, <1>2, <2>1 DEF LoopbackTells
  <1>6. QED
    BY <1>3, <1>4, <1>5 DEF IInv, PinsInv

\* A part drives and reads only pins its run names.
LEMMA OnlyNamed ==
  ASSUME OwnNumbers, PinsTypeOK
  PROVE  Outs(chip, cmd, part) \cup Ins(cmd, part) \subseteq Named
  <1>1. chip \in Chip /\ cmd \in Command[chip] /\ part \in 1..Parts(cmd)
    BY DEF PinsTypeOK
  <1>2. CASE cmd.tool = "gpio"
    BY <1>2 DEF Outs, Ins, Named
  <1>3. CASE cmd.tool # "gpio"
    <2> DEFINE k == (part + 3) \div 4
    <2>1. /\ k \in 1..Len(cmd.pairs)
          /\ {OutPin(cmd, part), InPin(cmd, part)} = {cmd.pairs[k][1], cmd.pairs[k][2]}
      BY <1>1, <1>3, PairFacts DEF PairOf
    <2>2. k \in DOMAIN cmd.pairs
      <3>1. cmd \in [tool : {"gpio"}, gpios : Seq(0..127) \ {<<>>}, level : BOOLEAN]
                \cup [tool : {"loopback"}, pairs : Seq(Pin[chip] \X Pin[chip]) \ {<<>>}]
        BY <1>1, GpioAssumption, Zenon
      <3>2. cmd.pairs \in Seq(Pin[chip] \X Pin[chip])
        BY <1>3, <3>1
      <3> HIDE DEF k
      <3>3. QED
        BY <2>1, <3>2
    <2> HIDE DEF k
    <2>3. {OutPin(cmd, part), InPin(cmd, part)} \subseteq Named
      BY <1>3, <2>1, <2>2 DEF Named
    <2>4. QED
      BY <1>3, <2>3 DEF Outs, Ins
  <1>4. QED
    BY <1>2, <1>3

\* Written back with the level of a pin of the run, the level of a pin of the
\* same group that does not drive cannot change: the group is enabled then.
LEMMA PutOthers ==
  ASSUME OwnNumbers, IInv, Put, NEW g \in Pins \ Named
  PROVE  /\ InBit(g) \in bits' <=> InBit(g) \in bits
         /\ InBit(g) \notin bits => (DataBit(g) \in bits' <=> DataBit(g) \in bits)
  <1> DEFINE s == PartCalls
             outs == Outs(chip, cmd, part)
             ins == Ins(cmd, part)
             high == High(cmd, part)
             in == InBits[chip][g]
             data == DataBits[chip][g]
  <1>1. /\ PinsTypeOK /\ Progress /\ chip \in Chip /\ cmd \in Command[chip]
        /\ part \in 1..Parts(cmd) /\ callNo \in DOMAIN s /\ g \in Pin[chip]
    BY DEF IInv, PinsInv, PinsTypeOK, Pins
  <1>2. Supported(chip) /\ s = Part(chip, cmd, part)
    BY <1>1, PutEffect
  <1>3. PICK w \in WishOf(chip, cmd, part) :
          /\ Led(chip, s, callNo, w[1])
          /\ \A t : t # w[1] /\ ~(t \in bits' <=> t \in bits) =>
               \E h \in Pin[chip] :
                 /\ t = DataBits[chip][h] /\ ~DrivesIn(chip, bits, h)
                 /\ <<t[1], t[2]>> = <<w[1][1], w[1][2]>>
    BY <1>1, PutEffect
  <1>4. /\ outs \in SUBSET Pin[chip] /\ ins \in SUBSET Pin[chip] /\ outs \cap ins = {}
        /\ high \in BOOLEAN /\ w \in Wish(chip, outs, ins, high) /\ g \notin outs \cup ins
    BY <1>1, <1>2, WishOfFacts, OnlyNamed DEF WishOf
  <1>5. /\ s \in Seq(Item) /\ callNo \in Int
    <2>1. s \in Seq(Item)
      BY <1>1, <1>2, PartShape DEF Wished
    <2> HIDE DEF s
    <2>2. QED
      BY <1>1, <2>1
  <1> HIDE DEF s, outs, ins, high
  <1>6. /\ <<w[1][1], w[1][2]>> = <<data[1], data[2]>> => \E h \in outs : w[1] = DataBits[chip][h]
        /\ w[1] # in
    BY <1>1, <1>2, <1>4, WishFacts
  <1>7. in \in bits' <=> in \in bits
    <2>1. ASSUME ~(in \in bits' <=> in \in bits)
          PROVE  FALSE
      <3>1. PICK h \in Pin[chip] : in = DataBits[chip][h]
        BY <1>3, <1>6, <2>1
      <3>2. QED
        BY <1>1, <1>2, <3>1, Apart
    <2>2. QED
      BY <2>1
  <1>8. ASSUME in \notin bits, ~(data \in bits' <=> data \in bits)
        PROVE  FALSE
    <2>1. w[1] # data
      <3>1. SUFFICES ASSUME w[1] = data
                     PROVE  FALSE
        OBVIOUS
      <3>2. PICK h \in outs : w[1] = DataBits[chip][h]
        BY <1>6, <3>1
      <3>3. g = h
        <4>1. h \in Pin[chip] /\ DataBits[chip][g] = DataBits[chip][h]
          BY <1>4, <3>1, <3>2
        <4>2. QED
          BY <1>1, <1>2, <4>1, Apart
      <3>4. QED
        BY <1>4, <3>3
    <2>2. PICK h \in Pin[chip] :
            /\ data = DataBits[chip][h] /\ ~DrivesIn(chip, bits, h)
            /\ <<data[1], data[2]>> = <<w[1][1], w[1][2]>>
      BY <1>3, <1>8, <2>1
    <2>3. GroupBits[chip][g] \notin bits
      <3>1. g = h
        BY <1>1, <1>2, <2>2, Apart
      <3>2. QED
        BY <1>8, <2>2, <3>1 DEF DrivesIn
    <2>4. PICK j \in outs : w[1] = DataBits[chip][j]
      BY <1>6, <2>2
    <2>5. j \in Pin[chip] /\ GroupBits[chip][g] = GroupBits[chip][j]
      BY <1>1, <1>2, <1>4, <2>2, <2>4, Apart
    <2>6. PICK n \in Int : n = callNo - 1
      BY <1>5
    <2>7. PICK k \in 1..n : Act(s, k, GroupBits[chip][j], TRUE)
      BY <1>3, <2>4, <2>5, <2>6 DEF Led
    <2>8. AllHeld(bits, s, n)
      BY <1>1, <2>6, ProgressState DEF s
    <2>9. GroupBits[chip][j] \in bits
      <3>1. TRUE \in BOOLEAN /\ GroupBits[chip][j] \in Spot
        BY <1>1, <1>2, <2>5, PinBits
      <3>2. GroupBits[chip][j] \in bits <=> TRUE
        BY <1>5, <2>7, <2>8, <3>1, HeldBefore, Zenon
      <3>3. QED
        BY <3>2
    <2>10. QED
      BY <2>3, <2>5, <2>9
  <1>9. QED
    BY <1>7, <1>8 DEF InBit, DataBit

LEMMA OthersStep ==
  ASSUME OwnNumbers, IInv, PinsNext, NEW g \in Pins \ Named
  PROVE  Face(g, bits') = Face(g, bits)
  <1>1. CASE Put
    <2>1. \A p, q \in BOOLEAN : (p <=> q) => p = q
      OBVIOUS
    <2>2. (InBit(g) \in bits') = (InBit(g) \in bits)
      <3>1. InBit(g) \in bits' <=> InBit(g) \in bits
        BY <1>1, PutOthers
      <3>2. (InBit(g) \in bits') \in BOOLEAN /\ (InBit(g) \in bits) \in BOOLEAN
        OBVIOUS
      <3>3. QED
        BY <2>1, <3>1, <3>2, Zenon
    <2>3. (InBit(g) \notin bits' /\ DataBit(g) \in bits') = (InBit(g) \notin bits /\ DataBit(g) \in bits)
      <3>1. (InBit(g) \notin bits' /\ DataBit(g) \in bits') <=> (InBit(g) \notin bits /\ DataBit(g) \in bits)
        BY <1>1, PutOthers
      <3>2. /\ (InBit(g) \notin bits' /\ DataBit(g) \in bits') \in BOOLEAN
            /\ (InBit(g) \notin bits /\ DataBit(g) \in bits) \in BOOLEAN
        OBVIOUS
      <3>3. QED
        BY <2>1, <3>1, <3>2, Zenon
    <2>4. QED
      BY <2>2, <2>3, Zenon DEF Face
  <1>2. CASE Session \/ Check \/ Refuse \/ Again
    BY <1>2 DEF Session, Check, Refuse, Again
  <1>3. QED
    BY <1>1, <1>2 DEF PinsNext

-----------------------------------------------------------------------------
(* The theorems. *)

LEMMA Inductive ==
  ASSUME OwnNumbers
  PROVE  PinsSpec => []IInv
  <1>1. PinsInit => IInv
    <2>1. SUFFICES ASSUME PinsInit
                   PROVE  Fresh
      BY FreshHolds
    <2>2. bits \in BitsOn[chip] /\ chip \in Chip
      BY <2>1 DEF PinsInit
    <2>3. \A b \in BitsOn[chip] : b \subseteq Spot
      BY <2>2, GpioAssumption, Zenon DEF Spot
    <2>4. QED
      BY <2>1, <2>2, <2>3 DEF PinsInit, Fresh
  <1>2. IInv /\ [PinsNext]_pinVars => IInv'
    <2>1. SUFFICES ASSUME IInv, [PinsNext]_pinVars
                   PROVE  IInv'
      OBVIOUS
    <2>2. CASE Put \/ Session \/ Check \/ Refuse
      BY <2>1, <2>2, PutKeeps, SessionKeeps, CheckKeeps, RefuseKeeps
    <2>3. CASE Again
      <3>1. Fresh'
        BY <2>1, <2>3 DEF IInv, PinsInv, PinsTypeOK, Again, Fresh, Spot
      <3>2. QED
        BY <3>1, FreshNext
    <2>4. CASE UNCHANGED pinVars
      <3>1. PinsInv'
        <4>1. UNCHANGED <<chip, bits, board, cmd, part, callNo, exit>>
          BY <2>4 DEF pinVars
        <4>2. \A g, high : AsAsked(g, high)' <=> AsAsked(g, high)
          BY <4>1, AskedState, AskedNext
        <4>3. QED
          BY <2>1, <4>1, <4>2 DEF IInv, PinsInv, PinsTypeOK, Progress, DoneAsAsked, Held, PartCalls
      <3>2. LoopbackTells'
        BY <2>1, <2>4 DEF IInv, LoopbackTells, Jumpered, pinVars
      <3>3. QED
        BY <3>1, <3>2 DEF IInv
    <2>5. QED
      BY <2>1, <2>2, <2>3, <2>4 DEF PinsNext
  <1>3. QED
    BY <1>1, <1>2, PTL DEF PinsSpec

\* Whatever runs were made and killed before, and on whatever chip and board,
\* each change gpio has made of a pin it names is in place when it goes on to
\* the next, and status 0 means that all of them are outputs at the level asked
\* for, with their group enabled and their pin function selected
\* (sio_gpio_config).
THEOREM PinsCorrect ==
  ASSUME OwnNumbers
  PROVE  PinsSpec => []PinsInv
  <1>1. IInv => PinsInv
    BY DEF IInv
  <1>2. QED
    BY <1>1, Inductive, PTL

\* Status 0 of loopback means that every pair of the file is jumpered, status
\* 1 that the pair it gave up on is not (sio_gpio_set_then_read): neither rests
\* on what earlier runs left in the chip.
THEOREM LoopbackTellsCorrect ==
  ASSUME OwnNumbers
  PROVE  PinsSpec => []LoopbackTells
  <1>1. IInv => LoopbackTells
    BY DEF IInv
  <1>2. QED
    BY <1>1, Inductive, PTL

\* No step changes the direction of a pin its run does not name, nor the level
\* that pin drives or would drive once its group is enabled, although levels
\* are written back a register at a time (sio_gpio_enable, sio_gpio_dir_out).
THEOREM OthersCorrect ==
  ASSUME OwnNumbers
  PROVE  PinsSpec => OthersKept
  <1>1. IInv /\ [PinsNext]_pinVars =>
          [\A g \in Pins \ Named : Face(g, bits') = Face(g, bits)]_pinVars
    BY OthersStep
  <1>2. QED
    BY <1>1, Inductive, PTL DEF PinsSpec, OthersKept

=============================================================================
