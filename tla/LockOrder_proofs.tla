--------------------------- MODULE LockOrder_proofs ---------------------------
(* Theorems about LockOrder: whatever the number of goroutines and whatever  *)
(* they do, as long as no task is retried, the locks are taken in one order *)
(* (pm.mu, q.mu, h.mu, task.mu, the mu of a worker, that of a connection),  *)
(* and so there is no deadlock.                                            *)
EXTENDS LockOrder, Naturals, SequenceTheorems, TLAPS
-----------------------------------------------------------------------------
(* The order.  The wait of a writer of h.mu for the readers that are in      *)
(* comes after its announcement; a failed write may remove the connection.  *)
Rank(m) == CASE m = "pm" -> 2 [] m = "q" -> 4 [] m = "h" -> 6
             [] m = "task" -> 8 [] m = "worker" -> 10 [] m = "conn" -> 12

Ops == ({"lock", "unlock", "visit"} \X Locks) \cup ({"announce", "write", "rlock", "runlock"} \X {"h"})
       \cup {<<"written", "conn">>}

Floor(op) == IF op[1] = "written" THEN Rank("h") ELSE Rank(op[2])
Level(op) == IF op[1] = "write" THEN Floor(op) + 1 ELSE Floor(op)

Waits(op) == op[1] \in {"lock", "visit", "announce", "rlock", "write", "written"}
Touches(op, m) == op[1] # "written" /\ op[2] = m
Closers == {"unlock", "write", "runlock"}

(* After its first i operations the next one of s on the lock m is `close`:  *)
(* there s holds m.                                                        *)
Holds(s, i, m, close) ==
  \E j \in (i + 1)..Len(s) : /\ s[j] = <<close, m>>
                             /\ \A k \in (i + 1)..(j - 1) : ~Touches(s[k], m)

CloserOf(open) == CASE open = "lock" -> "unlock" [] open = "announce" -> "write"
                    [] open = "rlock" -> "runlock"

(* What is locked is unlocked, and an operation that waits comes in the      *)
(* order after all that is held.                                           *)
Ordered(s) ==
  /\ \A i \in 1..Len(s) : s[i][1] \in {"lock", "announce", "rlock"} =>
       Holds(s, i, s[i][2], CloserOf(s[i][1]))
  /\ \A i \in 1..Len(s), n \in Locks, close \in Closers :
       Waits(s[i]) /\ Holds(s, i - 1, n, close) => Rank(n) < Level(s[i])

(* A stretch of operations that leaves no lock behind and takes only locks   *)
(* above r.                                                                *)
Fits(s, r) ==
  /\ s \in Seq(Ops) /\ Ordered(s)
  /\ \A n \in Locks, close \in Closers : ~Holds(s, 0, n, close)
  /\ \A i \in 1..Len(s) : Floor(s[i]) > r
-----------------------------------------------------------------------------
LEMMA RankType == \A m \in Locks : Rank(m) \in 2..12
BY DEF Locks, Rank

LEMMA LevelType == \A op \in Ops : Floor(op) \in 2..12 /\ Level(op) \in 2..12
BY DEF Ops, Locks, Level, Floor, Rank

LEMMA FitsEmpty == \A r \in Nat : Fits(<<>>, r)
<1>1. <<>> \in Seq(Ops) /\ Len(<<>>) = 0
  BY EmptySeq
<1>. QED  BY <1>1 DEF Fits, Ordered, Holds

(* One operation that holds nothing afterwards.                            *)
LEMMA FitsOne ==
  ASSUME NEW op \in Ops, op[1] \in {"visit", "written"}, NEW r \in Nat, Floor(op) > r
  PROVE  Fits(<<op>>, r)
<1>1. <<op>> \in Seq(Ops) /\ Len(<<op>>) = 1 /\ <<op>>[1] = op
  OBVIOUS
<1>2. \A n, close : close \in Closers => ~Holds(<<op>>, 0, n, close)
  BY <1>1 DEF Holds, Closers
<1>3. Ordered(<<op>>)
  BY <1>1, <1>2 DEF Ordered
<1>. QED  BY <1>1, <1>2, <1>3 DEF Fits

LEMMA FitsWriter ==
  ASSUME NEW r \in Nat, r < Rank("h")
  PROVE  Fits(<<<<"announce", "h">>, <<"write", "h">>>>, r)
<1>. DEFINE s == <<<<"announce", "h">>, <<"write", "h">>>>
<1>1. s \in Seq(Ops) /\ Len(s) = 2 /\ s[1] = <<"announce", "h">> /\ s[2] = <<"write", "h">>
  BY DEF Ops
<1>. HIDE DEF s
<1>2. \A n, close : ~Holds(s, 0, n, close) \/ close = "announce"
  BY <1>1 DEF Holds, Touches
<1>3. \A n, close : Holds(s, 1, n, close) => n = "h"
  BY <1>1 DEF Holds
<1>4. Holds(s, 1, "h", "write")
  BY <1>1 DEF Holds
<1>5. Ordered(s)
  <2>1. CloserOf("announce") = "write"
    BY DEF CloserOf
  <2>2. \A i \in 1..Len(s) : i = 1 \/ i = 2
    BY <1>1
  <2>3. \A i \in 1..Len(s) : s[i][1] \in {"lock", "announce", "rlock"} =>
          Holds(s, i, s[i][2], CloserOf(s[i][1]))
    BY <1>1, <1>4, <2>1, <2>2
  <2>4. \A n \in Locks, close \in Closers :
          /\ ~Holds(s, 0, n, close)
          /\ Holds(s, 1, n, close) => Rank(n) < Level(s[2])
    BY <1>1, <1>2, <1>3 DEF Closers, Level, Floor, Rank
  <2>. QED  BY <2>2, <2>3, <2>4 DEF Ordered
<1>6. \A i \in 1..Len(s) : Floor(s[i]) > r
  BY <1>1 DEF Floor, Rank
<1>7. \A n \in Locks, close \in Closers : ~Holds(s, 0, n, close)
  BY <1>2 DEF Closers
<1>. QED  BY <1>1, <1>5, <1>6, <1>7 DEF Fits, s
-----------------------------------------------------------------------------
(* Stretches one after the other.                                          *)

LEMMA HoldsInConcat ==
  ASSUME NEW s \in Seq(Ops), NEW t \in Seq(Ops), NEW n, NEW close
  PROVE  /\ \A i \in 0..Len(s) : Holds(s \o t, i, n, close) =>
               Holds(s, i, n, close) \/ Holds(t, 0, n, close)
         /\ \A i \in 0..Len(s) : Holds(s, i, n, close) => Holds(s \o t, i, n, close)
         /\ \A i \in 0..Len(t) : Holds(s \o t, Len(s) + i, n, close) <=> Holds(t, i, n, close)
<1>. DEFINE u == s \o t
           a == Len(s)
           b == Len(t)
<1>1. /\ a \in Nat /\ b \in Nat /\ Len(u) = a + b
      /\ \A i \in 1..a : u[i] = s[i]
      /\ \A i \in 1..b : u[a + i] = t[i]
  <2>1. a \in Nat /\ b \in Nat
    BY LenProperties
  <2>2. /\ Len(u) = a + b
        /\ \A i \in 1..(a + b) : u[i] = IF i <= a THEN s[i] ELSE t[i - a]
    BY ConcatProperties
  <2>. HIDE DEF a, b, u
  <2>3. \A i \in 1..a : u[i] = s[i]
    BY <2>1, <2>2
  <2>4. \A i \in 1..b : a + i \in 1..(a + b) /\ ~(a + i <= a) /\ (a + i) - a = i
    BY <2>1
  <2>. QED  BY <2>1, <2>2, <2>3, <2>4
<1>. HIDE DEF u, a, b
<1>2. ASSUME NEW i \in 0..a, Holds(u, i, n, close)
      PROVE  Holds(s, i, n, close) \/ Holds(t, 0, n, close)
  <2>1. PICK j \in (i + 1)..(a + b) : /\ u[j] = <<close, n>>
                                      /\ \A k \in (i + 1)..(j - 1) : ~Touches(u[k], n)
    BY <1>1, <1>2 DEF Holds
  <2>2. CASE j <= a
    <3>1. j \in (i + 1)..a /\ j \in 1..a /\ \A k \in (i + 1)..(j - 1) : k \in 1..a
      BY <1>1, <2>2
    <3>2. s[j] = <<close, n>> /\ \A k \in (i + 1)..(j - 1) : ~Touches(s[k], n)
      BY <1>1, <2>1, <3>1
    <3>. QED  BY <3>1, <3>2 DEF Holds, a
  <2>3. CASE j > a
    <3>1. /\ j - a \in 1..b /\ a + (j - a) = j
          /\ \A k \in 1..(j - a - 1) : k \in 1..b /\ a + k \in (i + 1)..(j - 1)
      BY <1>1, <2>3
    <3>2. t[j - a] = <<close, n>> /\ \A k \in 1..(j - a - 1) : ~Touches(t[k], n)
      BY <1>1, <2>1, <3>1
    <3>3. 0 + 1 = 1
      OBVIOUS
    <3>. QED  BY <3>1, <3>2, <3>3 DEF Holds, b
  <2>. QED  BY <1>1, <2>2, <2>3
<1>3. ASSUME NEW i \in 0..a, Holds(s, i, n, close)
      PROVE  Holds(u, i, n, close)
  <2>1. PICK j \in (i + 1)..a : /\ s[j] = <<close, n>>
                                /\ \A k \in (i + 1)..(j - 1) : ~Touches(s[k], n)
    BY <1>3 DEF Holds, a
  <2>2. /\ j \in (i + 1)..(a + b) /\ j \in 1..a
        /\ \A k \in (i + 1)..(j - 1) : k \in 1..a
    BY <1>1
  <2>. QED  BY <1>1, <2>1, <2>2 DEF Holds
<1>4. ASSUME NEW i \in 0..b
      PROVE  Holds(u, a + i, n, close) <=> Holds(t, i, n, close)
  <2>1. ASSUME Holds(u, a + i, n, close) PROVE Holds(t, i, n, close)
    <3>1. PICK j \in (a + i + 1)..(a + b) :
             u[j] = <<close, n>> /\ \A k \in (a + i + 1)..(j - 1) : ~Touches(u[k], n)
      BY <1>1, <2>1 DEF Holds
    <3>2. /\ j - a \in (i + 1)..b /\ j - a \in 1..b /\ a + (j - a) = j
          /\ \A k \in (i + 1)..(j - a - 1) : k \in 1..b /\ a + k \in (a + i + 1)..(j - 1)
      BY <1>1
    <3>3. t[j - a] = <<close, n>> /\ \A k \in (i + 1)..(j - a - 1) : ~Touches(t[k], n)
      BY <1>1, <3>1, <3>2
    <3>. QED  BY <3>2, <3>3 DEF Holds, b
  <2>2. ASSUME Holds(t, i, n, close) PROVE Holds(u, a + i, n, close)
    <3>1. PICK j \in (i + 1)..b : /\ t[j] = <<close, n>>
                                  /\ \A k \in (i + 1)..(j - 1) : ~Touches(t[k], n)
      BY <2>2 DEF Holds, b
    <3>2. /\ a + j \in (a + i + 1)..(a + b) /\ j \in 1..b
          /\ \A k \in (a + i + 1)..((a + j) - 1) :
               k - a \in (i + 1)..(j - 1) /\ k - a \in 1..b /\ a + (k - a) = k
      BY <1>1
    <3>3. u[a + j] = <<close, n>> /\ \A k \in (a + i + 1)..((a + j) - 1) : ~Touches(u[k], n)
      BY <1>1, <3>1, <3>2
    <3>4. a + j \in (a + i + 1)..Len(u)
      BY <1>1, <3>2
    <3>. SUFFICES \E x \in (a + i + 1)..Len(u) :
                    u[x] = <<close, n>> /\ \A k \in (a + i + 1)..(x - 1) : ~Touches(u[k], n)
      BY DEF Holds
    <3>. WITNESS a + j \in (a + i + 1)..Len(u)
    <3>. QED  BY <3>3
  <2>. QED  BY <2>1, <2>2
<1>. QED  BY <1>2, <1>3, <1>4 DEF u, a, b

LEMMA FitsConcat ==
  ASSUME NEW s, NEW t, NEW r \in Nat, Fits(s, r), Fits(t, r)
  PROVE  Fits(s \o t, r)
<1>1. /\ s \in Seq(Ops) /\ t \in Seq(Ops) /\ s \o t \in Seq(Ops)
      /\ Len(s) \in Nat /\ Len(t) \in Nat /\ Len(s \o t) = Len(s) + Len(t)
      /\ \A i \in 1..(Len(s) + Len(t)) :
           (s \o t)[i] = IF i <= Len(s) THEN s[i] ELSE t[i - Len(s)]
  BY ConcatProperties, LenProperties DEF Fits
<1>. DEFINE u == s \o t
           a == Len(s)
           b == Len(t)
<1>2. /\ \A n, close : \A i \in 0..a : Holds(u, i, n, close) =>
            Holds(s, i, n, close) \/ Holds(t, 0, n, close)
      /\ \A n, close : \A i \in 0..a : Holds(s, i, n, close) => Holds(u, i, n, close)
      /\ \A n, close : \A i \in 0..b : Holds(u, a + i, n, close) <=> Holds(t, i, n, close)
  BY <1>1, HoldsInConcat
<1>3. /\ u \in Seq(Ops) /\ a \in Nat /\ b \in Nat /\ Len(u) = a + b
      /\ \A i \in 1..(a + b) : u[i] = IF i <= a THEN s[i] ELSE t[i - a]
  BY <1>1
<1>. HIDE DEF u, a, b
<1>4. ASSUME NEW i \in 1..Len(u), i <= a
      PROVE  /\ Floor(u[i]) > r
             /\ u[i][1] \in {"lock", "announce", "rlock"} =>
                  Holds(u, i, u[i][2], CloserOf(u[i][1]))
             /\ \A n \in Locks, close \in Closers :
                  Waits(u[i]) /\ Holds(u, i - 1, n, close) => Rank(n) < Level(u[i])
  <2>1. i \in 1..a /\ i \in 0..a /\ i - 1 \in 0..a /\ u[i] = s[i]
    BY <1>3, <1>4
  <2>2. \A n \in Locks, close \in Closers : ~Holds(t, 0, n, close)
    BY DEF Fits
  <2>3. \A n \in Locks, close \in Closers : Holds(u, i - 1, n, close) => Holds(s, i - 1, n, close)
    BY <1>2, <2>1, <2>2
  <2>. QED  BY <1>2, <2>1, <2>3 DEF Fits, Ordered, a
<1>5. ASSUME NEW i \in 1..Len(u), i > a
      PROVE  /\ Floor(u[i]) > r
             /\ u[i][1] \in {"lock", "announce", "rlock"} =>
                  Holds(u, i, u[i][2], CloserOf(u[i][1]))
             /\ \A n \in Locks, close \in Closers :
                  Waits(u[i]) /\ Holds(u, i - 1, n, close) => Rank(n) < Level(u[i])
  <2>1. PICK j \in 1..b : i = a + j
    <3>1. i - a \in 1..b /\ i = a + (i - a)
      BY <1>3, <1>5
    <3>. QED  BY <3>1
  <2>2. u[i] = t[j] /\ i - 1 = a + (j - 1) /\ j - 1 \in 0..b /\ j \in 0..b
    BY <1>3, <1>5, <2>1
  <2>3. \A n, close : /\ Holds(u, i, n, close) <=> Holds(t, j, n, close)
                      /\ Holds(u, i - 1, n, close) <=> Holds(t, j - 1, n, close)
    BY <1>2, <2>1, <2>2
  <2>. QED  BY <2>2, <2>3 DEF Fits, Ordered, b
<1>6. \A n \in Locks, close \in Closers : ~Holds(u, 0, n, close)
  BY <1>2, <1>3 DEF Fits
<1>7. \A i \in 1..Len(u) : i <= a \/ i > a
  BY <1>3
<1>8. Ordered(u)
  BY <1>4, <1>5, <1>7 DEF Ordered
<1>. QED  BY <1>3, <1>4, <1>5, <1>6, <1>7, <1>8 DEF Fits, u

(* A section: what it does inside takes only locks above its own.           *)
LEMMA FitsSection ==
  ASSUME NEW m \in Locks, NEW open, NEW close, NEW body, NEW r \in Nat,
         <<open, m>> \in Ops, <<close, m>> \in Ops,
         open \in {"lock", "rlock"}, close = CloserOf(open),
         Fits(body, Rank(m)), r < Rank(m)
  PROVE  Fits(<<<<open, m>>>> \o body \o <<<<close, m>>>>, r)
<1>. DEFINE o == <<open, m>>
           c == <<close, m>>
           s == <<o>>
           e == <<c>>
           t == body \o e
           u == s \o t
           b == Len(body)
<1>1. /\ s \in Seq(Ops) /\ Len(s) = 1 /\ s[1] = o
      /\ e \in Seq(Ops) /\ Len(e) = 1 /\ e[1] = c
      /\ body \in Seq(Ops) /\ b \in Nat /\ Rank(m) \in 2..12
      /\ \A i \in 1..b : body[i] \in Ops
  BY RankType, LenProperties, ElementOfSeq DEF Fits
<1>2. (<<o>> \o body) \o <<c>> = u
  BY <1>1, ConcatAssociative
<1>. HIDE DEF s, e
<1>3. t \in Seq(Ops) /\ Len(t) = b + 1 /\ t[b + 1] = c /\ \A i \in 1..b : t[i] = body[i]
  <2>1. /\ t \in Seq(Ops) /\ Len(t) = b + Len(e)
        /\ \A i \in 1..(b + Len(e)) : t[i] = IF i <= b THEN body[i] ELSE e[i - b]
    BY <1>1, ConcatProperties
  <2>. HIDE DEF t, b
  <2>2. b + 1 \in 1..(b + 1) /\ ~(b + 1 <= b) /\ (b + 1) - b = 1
    BY <1>1
  <2>3. t[b + 1] = c
    BY <1>1, <2>1, <2>2
  <2>4. \A i \in 1..b : i \in 1..(b + 1) /\ i <= b
    BY <1>1
  <2>. QED  BY <1>1, <2>1, <2>3, <2>4
<1>. HIDE DEF t, b
<1>4. u \in Seq(Ops) /\ Len(u) = b + 2 /\ u[1] = o /\ u[b + 2] = c
      /\ \A i \in 1..b : u[i + 1] = body[i]
  <2>1. /\ u \in Seq(Ops) /\ Len(u) = 1 + Len(t)
        /\ \A i \in 1..(1 + Len(t)) : u[i] = IF i <= 1 THEN s[i] ELSE t[i - 1]
    <3>1. /\ u \in Seq(Ops) /\ Len(u) = Len(s) + Len(t)
          /\ \A i \in 1..(Len(s) + Len(t)) : u[i] = IF i <= Len(s) THEN s[i] ELSE t[i - Len(s)]
      BY <1>1, <1>3, ConcatProperties
    <3>. QED  BY <1>1, <3>1
  <2>. HIDE DEF u
  <2>2. /\ 1 \in 1..(1 + (b + 1)) /\ b + 2 \in 1..(1 + (b + 1)) /\ ~(b + 2 <= 1)
        /\ (b + 2) - 1 = b + 1 /\ 1 + (b + 1) = b + 2
        /\ \A i \in 1..b : i + 1 \in 1..(1 + (b + 1)) /\ ~(i + 1 <= 1) /\ (i + 1) - 1 = i
    BY <1>1
  <2>3. u[1] = o /\ u[b + 2] = c
    BY <1>1, <1>3, <2>1, <2>2
  <2>4. \A i \in 1..b : u[i + 1] = body[i]
    BY <1>3, <2>1, <2>2
  <2>. QED  BY <1>3, <2>1, <2>2, <2>3, <2>4
<1>. HIDE DEF u, o, c
<1>5. /\ o[1] = open /\ o[2] = m /\ c[1] = close /\ c[2] = m
      /\ close \in {"unlock", "runlock"} /\ close \in Closers
      /\ Floor(o) = Rank(m) /\ Floor(c) = Rank(m) /\ Level(o) = Rank(m) /\ Touches(o, m) /\ ~Waits(c)
  BY DEF o, c, CloserOf, Closers, Level, Floor, Touches, Waits
<1>6. \A i \in 1..b : Floor(body[i]) > Rank(m) /\ Level(body[i]) > Rank(m)
                       /\ ~Touches(body[i], m)
  <2>. SUFFICES ASSUME NEW i \in 1..b
                PROVE  Floor(body[i]) > Rank(m) /\ Level(body[i]) > Rank(m) /\ ~Touches(body[i], m)
    OBVIOUS
  <2>1. Floor(body[i]) > Rank(m) /\ Floor(body[i]) \in 2..12 /\ Rank(m) \in 2..12
    BY <1>1, LevelType DEF Fits, b
  <2>2. Level(body[i]) = Floor(body[i]) \/ Level(body[i]) = Floor(body[i]) + 1
    BY DEF Level
  <2>3. Touches(body[i], m) => Floor(body[i]) = Rank(m)
    BY DEF Touches, Floor
  <2>4. ~Touches(body[i], m)
    BY <2>1, <2>3
  <2>. QED  BY <2>1, <2>2, <2>4
<1>7. \A i \in 1..Len(u) : i = 1 \/ i = b + 2 \/ \E j \in 1..b : i = j + 1
  <2>1. \A i \in 1..(b + 2) : i # 1 /\ i # b + 2 => i - 1 \in 1..b /\ i = (i - 1) + 1
    BY <1>1
  <2>. QED  BY <1>4, <2>1
(* What u holds at the beginning: nothing; within the section m and what    *)
(* the body holds there.                                                   *)
<1>8. ASSUME NEW n, NEW k, k \in Closers, Holds(u, 0, n, k)
      PROVE  FALSE
  <2>1. PICK j \in 1..(b + 2) : u[j] = <<k, n>> /\ \A i \in 1..(j - 1) : ~Touches(u[i], n)
    BY <1>4, <1>8 DEF Holds
  <2>2. j # 1
    BY <1>4, <1>5, <1>8, <2>1 DEF o, Closers
  <2>3. CASE j = b + 2
    <3>1. n = m /\ 1 \in 1..(j - 1)
      BY <1>1, <1>4, <2>1, <2>3 DEF c
    <3>. QED  BY <1>4, <1>5, <2>1, <3>1
  <2>4. ASSUME NEW l \in 1..b, j = l + 1 PROVE FALSE
    <3>1. body[l] = <<k, n>>
      BY <1>4, <2>1, <2>4
    <3>2. \A i \in 1..(l - 1) : i \in 1..b /\ i + 1 \in 1..(j - 1)
      BY <1>1, <2>4
    <3>3. \A i \in 1..(l - 1) : ~Touches(body[i], n)
      BY <1>4, <2>1, <3>2
    <3>4. l \in (0 + 1)..b /\ 0 + 1 = 1
      OBVIOUS
    <3>5. Holds(body, 0, n, k)
      BY <3>1, <3>3, <3>4 DEF Holds, b
    <3>6. n \in Locks
      BY <1>1, <3>1 DEF Ops, Locks
    <3>. QED  BY <1>8, <3>5, <3>6 DEF Fits
  <2>. QED  BY <1>4, <1>7, <2>2, <2>3, <2>4
<1>9. ASSUME NEW i \in 1..b, NEW n, NEW k, Holds(u, i, n, k)
      PROVE  n = m \/ Holds(body, i - 1, n, k)
  <2>1. PICK j \in (i + 1)..(b + 2) : u[j] = <<k, n>> /\ \A l \in (i + 1)..(j - 1) : ~Touches(u[l], n)
    BY <1>4, <1>9 DEF Holds
  <2>2. CASE j = b + 2
    BY <1>4, <2>1, <2>2 DEF c
  <2>3. CASE j # b + 2
    <3>1. /\ j - 1 \in 1..b /\ (j - 1) + 1 = j /\ j - 1 \in ((i - 1) + 1)..b
          /\ \A l \in ((i - 1) + 1)..((j - 1) - 1) : l \in 1..b /\ l + 1 \in (i + 1)..(j - 1)
      BY <1>1, <2>3
    <3>2. body[j - 1] = <<k, n>>
      BY <1>4, <2>1, <3>1
    <3>3. \A l \in ((i - 1) + 1)..((j - 1) - 1) : ~Touches(body[l], n)
      BY <1>4, <2>1, <3>1
    <3>. QED  BY <3>1, <3>2, <3>3 DEF Holds, b
  <2>. QED  BY <2>2, <2>3
<1>10. ASSUME NEW i \in 0..b, NEW n, NEW k, Holds(body, i, n, k)
       PROVE  Holds(u, i + 1, n, k)
  <2>1. PICK j \in (i + 1)..b : body[j] = <<k, n>> /\ \A l \in (i + 1)..(j - 1) : ~Touches(body[l], n)
    BY <1>10 DEF Holds, b
  <2>2. /\ j \in 1..b /\ j + 1 \in ((i + 1) + 1)..(b + 2)
        /\ \A l \in ((i + 1) + 1)..((j + 1) - 1) :
             l - 1 \in (i + 1)..(j - 1) /\ l - 1 \in 1..b /\ (l - 1) + 1 = l
    BY <1>1
  <2>3. u[j + 1] = <<k, n>>
    BY <1>4, <2>1, <2>2
  <2>4. \A l \in ((i + 1) + 1)..((j + 1) - 1) : ~Touches(u[l], n)
    BY <1>4, <2>1, <2>2
  <2>. QED  BY <1>4, <2>2, <2>3, <2>4 DEF Holds
<1>11. Holds(u, 1, m, close)
  <2>1. b + 2 \in (1 + 1)..(b + 2)
    BY <1>1
  <2>2. \A l \in (1 + 1)..((b + 2) - 1) : l - 1 \in 1..b /\ (l - 1) + 1 = l
    BY <1>1
  <2>3. \A l \in (1 + 1)..((b + 2) - 1) : ~Touches(u[l], m)
    BY <1>4, <1>6, <2>2
  <2>. QED  BY <1>4, <2>1, <2>3 DEF Holds, c
<1>12. \A i \in 1..Len(u) : Floor(u[i]) > r
  <2>1. Floor(u[1]) > r /\ Floor(u[b + 2]) > r
    BY <1>1, <1>4, <1>5
  <2>2. \A j \in 1..b : Floor(u[j + 1]) > r
    <3>. SUFFICES ASSUME NEW j \in 1..b PROVE Floor(u[j + 1]) > r
      OBVIOUS
    <3>1. Floor(body[j]) \in 2..12 /\ Floor(body[j]) > Rank(m)
      BY <1>1, <1>6, LevelType
    <3>2. u[j + 1] = body[j]
      BY <1>4
    <3>3. Rank(m) \in Nat /\ r \in Nat /\ Rank(m) > r
      BY <1>1
    <3>4. Floor(body[j]) > r
      BY <3>1, <3>3
    <3>. QED  BY <3>2, <3>4
  <2>. QED  BY <1>7, <2>1, <2>2
<1>13. ASSUME NEW i \in 1..Len(u), u[i][1] \in {"lock", "announce", "rlock"}
       PROVE  Holds(u, i, u[i][2], CloserOf(u[i][1]))
  <2>1. CASE i = 1
    BY <1>4, <1>5, <1>11, <2>1 
  <2>2. i # b + 2
    BY <1>4, <1>5, <1>13
  <2>3. ASSUME NEW j \in 1..b, i = j + 1 PROVE Holds(u, i, u[i][2], CloserOf(u[i][1]))
    <3>1. u[i] = body[j] /\ j \in 0..b
      BY <1>4, <2>3
    <3>2. Holds(body, j, u[i][2], CloserOf(u[i][1]))
      BY <1>13, <3>1 DEF Fits, Ordered, b
    <3>. QED  BY <1>10, <2>3, <3>1, <3>2
  <2>. QED  BY <1>7, <2>1, <2>2, <2>3
<1>14. ASSUME NEW i \in 1..Len(u), NEW n \in Locks, NEW k \in Closers,
              Waits(u[i]), Holds(u, i - 1, n, k)
       PROVE  Rank(n) < Level(u[i])
  <2>1. i # 1
    BY <1>8, <1>14
  <2>2. i # b + 2
    BY <1>4, <1>5, <1>14
  <2>3. ASSUME NEW j \in 1..b, i = j + 1 PROVE Rank(n) < Level(u[i])
    <3>1. u[i] = body[j] /\ i - 1 = j
      BY <1>4, <2>3
    <3>2. n = m \/ Holds(body, j - 1, n, k)
      BY <1>9, <1>14, <3>1
    <3>3. CASE n = m
      BY <1>1, <1>6, <3>1, <3>3, LevelType
    <3>4. CASE Holds(body, j - 1, n, k)
      BY <1>14, <3>1, <3>4 DEF Fits, Ordered, b
    <3>. QED  BY <3>2, <3>3, <3>4
  <2>. QED  BY <1>7, <2>1, <2>2, <2>3
<1>15. Fits(u, r)
  <2>1. Ordered(u)
    BY <1>13, <1>14 DEF Ordered
  <2>. QED  BY <1>4, <1>8, <1>12, <2>1 DEF Fits
<1>. QED  BY <1>2, <1>15 DEF o, c
-----------------------------------------------------------------------------
(* The scripts.                                                            *)

LEMMA FitsHolding ==
  ASSUME NEW m \in Locks, NEW r \in Nat, r < Rank(m)
  PROVE  Fits(Holding(m), r)
<1>1. CASE m = "h"
  BY <1>1, FitsWriter DEF Holding
<1>2. CASE m # "h"
  <2>1. <<"visit", m>> \in Ops /\ <<"visit", m>>[1] = "visit" /\ Floor(<<"visit", m>>) = Rank(m)
    BY DEF Ops, Floor
  <2>2. Floor(<<"visit", m>>) > r
    BY <2>1, RankType
  <2>. QED  BY <1>2, <2>1, <2>2, FitsOne DEF Holding
<1>. QED  BY <1>1, <1>2

LEMMA FitsUnder ==
  ASSUME NEW m \in Locks, NEW body, NEW r \in Nat, Fits(body, Rank(m)), r < Rank(m)
  PROVE  Fits(Under(m, body), r)
<1>1. <<"lock", m>> \in Ops /\ <<"unlock", m>> \in Ops /\ CloserOf("lock") = "unlock"
  BY DEF Ops, CloserOf
<1>. QED  BY <1>1, FitsSection DEF Under

LEMMA FitsReading ==
  ASSUME NEW body, NEW r \in Nat, Fits(body, Rank("h")), r < Rank("h")
  PROVE  Fits(Reading(body), r)
<1>1. "h" \in Locks /\ CloserOf("rlock") = "runlock"
  BY DEF Locks, CloserOf
<1>2. <<"rlock", "h">> \in Ops /\ <<"runlock", "h">> \in Ops
  BY DEF Ops
<1>3. CASE body = <<>>
  <2>1. <<"visit", "h">> \in Ops /\ <<"visit", "h">>[1] = "visit" /\ Floor(<<"visit", "h">>) = Rank("h")
    BY <1>1 DEF Ops, Floor
  <2>2. Floor(<<"visit", "h">>) > r
    BY <1>1, <2>1, RankType
  <2>. QED  BY <1>3, <2>1, <2>2, FitsOne DEF Reading
<1>4. CASE body # <<>>
  BY <1>1, <1>2, <1>4, FitsSection DEF Reading
<1>. QED  BY <1>3, <1>4

LEMMA Ranks ==
  /\ Rank("pm") = 2 /\ Rank("q") = 4 /\ Rank("h") = 6
  /\ Rank("task") = 8 /\ Rank("worker") = 10 /\ Rank("conn") = 12
  /\ \A m \in {"pm", "q", "h", "task", "worker", "conn"} : m \in Locks
BY DEF Rank, Locks

(* What is broadcast, answered and looked up on the way.                    *)
LEMMA MessagesFit ==
  /\ \A r \in 0..11 : Fits(SendJSON, r)
  /\ \A r \in 0..5 : Fits(RemoveClient, r) /\ Fits(Broadcast, r) /\ Fits(CancelFn, r)
  /\ Fits(StartFn, 0) /\ Fits(Info, 0) /\ Fits(StopWorker, 0)
<1>1. \A r \in 0..11 : r \in Nat /\ Fits(SendJSON, r)
  BY Ranks, FitsHolding DEF SendJSON
<1>2. \A r \in 0..5 : r \in Nat /\ r \in 0..11 /\ r < 6
  OBVIOUS
<1>3. \A r \in 0..5 : Fits(RemoveClient, r)
  BY <1>2, Ranks, FitsHolding DEF RemoveClient
<1>4. ASSUME NEW r \in 0..5 PROVE Fits(Broadcast, r)
  <2>1. Fits(Reading(<<>>), r)
    BY <1>2, Ranks, FitsReading, FitsEmpty
  <2>2. <<"written", "conn">> \in Ops /\ Floor(<<"written", "conn">>) = 6
    BY Ranks DEF Ops, Floor
  <2>3. Fits(<<<<"written", "conn">>>>, r)
    BY <1>2, <2>2, FitsOne
  <2>4. Fits(Reading(<<>>) \o SendJSON, r)
    BY <1>1, <1>2, <2>1, FitsConcat
  <2>. QED  BY <1>2, <2>3, <2>4, FitsConcat DEF Broadcast
<1>5. \A r \in 0..5 : Fits(CancelFn, r)
  BY <1>2, <1>4, Ranks, FitsHolding, FitsConcat DEF CancelFn
<1>6. Fits(StartFn, 0)
  <2>1. Fits(Holding("h"), 0) /\ Fits(Holding("task"), 0)
    BY Ranks, FitsHolding
  <2>2. Fits(Holding("h") \o Holding("task"), 0)
    BY <2>1, FitsConcat
  <2>3. Fits(Holding("h") \o Holding("task") \o Holding("h"), 0)
    BY <2>1, <2>2, FitsConcat
  <2>. QED  BY <1>4, <2>3, FitsConcat DEF StartFn
<1>7. Fits(Info, 0)
  <2>1. Fits(Holding("q"), 2)
    BY Ranks, FitsHolding
  <2>. QED  BY <2>1, Ranks, FitsUnder DEF Info
<1>8. Fits(StopWorker, 0)
  <2>1. Fits(Holding("worker"), 8)
    BY Ranks, FitsHolding
  <2>2. Fits(Holding("worker") \o Holding("worker"), 8)
    BY <2>1, FitsConcat
  <2>3. Fits(Under("task", Holding("worker") \o Holding("worker")), 0)
    BY <2>2, Ranks, FitsUnder
  <2>4. Fits(Reading(<<>>), 0)
    BY Ranks, FitsReading, FitsEmpty
  <2>. QED  BY <2>3, <2>4, FitsConcat DEF StopWorker
<1>. QED  BY <1>1, <1>3, <1>4, <1>5, <1>6, <1>7, <1>8

(* The reads of a task and of its worker under h.mu.                        *)
LEMMA LooksFit ==
  /\ \A m \in {"pm", "h", "task", "worker"} : Fits(Holding(m), 0)
  /\ Fits(Reading(<<>>), 0) /\ Fits(Reading(Holding("task")), 0)
  /\ Fits(Reading(Under("task", Holding("worker"))), 0)
<1>1. \A m \in {"pm", "h", "task", "worker"} : Fits(Holding(m), 0)
  BY Ranks, FitsHolding
<1>2. Fits(Reading(<<>>), 0)
  BY Ranks, FitsReading, FitsEmpty
<1>3. Fits(Holding("task"), 6) /\ Fits(Holding("worker"), 8)
  BY Ranks, FitsHolding
<1>4. Fits(Reading(Holding("task")), 0)
  BY <1>3, Ranks, FitsReading
<1>5. Fits(Under("task", Holding("worker")), 6)
  BY <1>3, Ranks, FitsUnder
<1>. QED  BY <1>1, <1>2, <1>4, <1>5, Ranks, FitsReading

LEMMA ReleaseFits == \A s \in Release : Fits(s, 0)
<1>1. Fits(Holding("q"), 2)
  BY Ranks, FitsHolding
<1>2. Fits(CancelFn, 2)
  BY MessagesFit
<1>3. Fits(Holding("q") \o CancelFn, 2)
  BY <1>1, <1>2, FitsConcat
<1>4. Fits(Holding("q") \o CancelFn \o Holding("q"), 2)
  BY <1>1, <1>3, FitsConcat
<1>5. Fits(Under("pm", Holding("q") \o CancelFn \o Holding("q")), 0)
  BY <1>4, Ranks, FitsUnder
<1>. QED  BY <1>5, MessagesFit, FitsConcat DEF Release

LEMMA ScriptsFit ==
  ASSUME NEW job \in Jobs \ {"retryExit", "restart"}, NEW s \in Script(job)
  PROVE  Fits(s, 0)
<1>0. /\ Fits(SendJSON, 0) /\ Fits(RemoveClient, 0) /\ Fits(Broadcast, 0) /\ Fits(CancelFn, 0)
      /\ Fits(StartFn, 0) /\ Fits(Info, 0) /\ Fits(StopWorker, 0)
  BY MessagesFit
<1>1. CASE job = "start"
  <2>. DEFINE ask == Reading(Holding("task")) \o Holding("h")
  <2>1. Fits(ask, 0)
    BY LooksFit, FitsConcat
  <2>2. Fits(ask \o Holding("pm"), 0) /\ Fits(ask \o Info, 0)
    BY <1>0, <2>1, LooksFit, FitsConcat
  <2>3. Fits(ask \o Holding("pm") \o StartFn, 0) /\ Fits(ask \o Info \o Info, 0)
    BY <1>0, <2>2, FitsConcat
  <2>4. Fits(ask \o Info \o Info \o Broadcast, 0)
    BY <1>0, <2>3, FitsConcat
  <2>. QED  BY <1>1, <2>3, <2>4 DEF Script, HandleStart
<1>2. CASE job = "list"
  <2>1. Fits(Info \o Reading(Under("task", Holding("worker"))), 0)
    BY <1>0, LooksFit, FitsConcat
  <2>2. Fits(Info \o Reading(Under("task", Holding("worker"))) \o SendJSON, 0)
    BY <1>0, <2>1, FitsConcat
  <2>. QED  BY <1>2, <2>2 DEF Script, HandleList
<1>3. CASE job = "stop"
  <2>1. Fits(Info \o CancelFn, 0) /\ Fits(Info \o StopWorker, 0)
    BY <1>0, FitsConcat
  <2>2. Fits(Info \o CancelFn \o Broadcast, 0)
    BY <1>0, <2>1, FitsConcat
  <2>. QED  BY <1>3, <2>1, <2>2 DEF Script, HandleStop
<1>4. CASE job = "reset"
  <2>1. Fits(SendJSON, 8)
    BY MessagesFit
  <2>2. Fits(Under("task", SendJSON), 0)
    BY <2>1, Ranks, FitsUnder
  <2>3. Fits(Reading(<<>>) \o Under("task", SendJSON), 0)
    BY <2>2, LooksFit, FitsConcat
  <2>. QED  BY <1>4, <2>3 DEF Script, HandleReset
<1>5. CASE job = "output"
  <2>1. Fits(Holding("task") \o Broadcast, 0)
    BY <1>0, LooksFit, FitsConcat
  <2>2. Fits(Holding("task") \o Broadcast \o Holding("worker"), 0)
    BY <2>1, LooksFit, FitsConcat
  <2>. QED  BY <1>5, <2>2 DEF Script, OnOutput
<1>6. CASE job = "exit"
  <2>. DEFINE w == Holding("worker") \o Holding("worker") \o Broadcast
  <2>1. Fits(Holding("worker") \o Holding("worker"), 0)
    BY LooksFit, FitsConcat
  <2>2. Fits(w, 0)
    BY <1>0, <2>1, FitsConcat
  <2>3. \A r \in Release : Fits(w \o r \o Reading(<<>>), 0)
    <3>1. \A r \in Release : Fits(w \o r, 0)
      BY <2>2, ReleaseFits, FitsConcat
    <3>. QED  BY <3>1, LooksFit, FitsConcat
  <2>4. \A e \in Exited : Fits(e, 0)
    BY <2>3 DEF Exited
  <2>5. \A e \in Exited : Fits(e \o Holding("task"), 0)
    BY <2>4, LooksFit, FitsConcat
  <2>. QED  BY <1>6, <2>5 DEF Script, ExitQuiet
<1>7. CASE job = "sweep"
  <2>1. Fits(Holding("q"), 0)
    BY Ranks, FitsHolding
  <2>2. Fits(Holding("pm") \o Holding("q"), 0)
    BY <2>1, LooksFit, FitsConcat
  <2>3. Fits(Holding("pm") \o Holding("q") \o CancelFn, 0)
    BY <1>0, <2>2, FitsConcat
  <2>. QED  BY <1>7, <2>3 DEF Script, SweepExpired
<1>8. CASE job = "set_pool"
  <2>1. Fits(Holding("pm") \o StopWorker, 0)
    BY <1>0, LooksFit, FitsConcat
  <2>2. \A r \in Release : Fits(Holding("pm") \o StopWorker \o r, 0)
    BY <2>1, ReleaseFits, FitsConcat
  <2>3. \A r \in Release : Fits(Holding("pm") \o StopWorker \o r \o Info, 0)
    BY <1>0, <2>2, FitsConcat
  <2>4. \A r \in Release : Fits(Holding("pm") \o StopWorker \o r \o Info \o Broadcast, 0)
    BY <1>0, <2>3, FitsConcat
  <2>5. \A r \in Release : Fits(Holding("pm") \o StopWorker \o r \o Info \o Broadcast \o SendJSON, 0)
    BY <1>0, <2>4, FitsConcat
  <2>. QED  BY <1>8, <2>5 DEF Script, HandleSetPool
<1>9. CASE job = "shutdown"
  <2>1. Fits(Info \o Reading(Under("task", Holding("worker"))), 0)
    BY <1>0, LooksFit, FitsConcat
  <2>2. Fits(Info \o Reading(Under("task", Holding("worker"))) \o Holding("worker"), 0)
    BY <2>1, LooksFit, FitsConcat
  <2>3. Fits(Info \o Reading(Under("task", Holding("worker"))) \o Holding("worker")
                  \o Reading(Holding("task")), 0)
    BY <2>2, LooksFit, FitsConcat
  <2>. QED  BY <1>9, <2>3 DEF Script, Shutdown
<1>10. CASE job = "connect"
  <2>1. Fits(Holding("h") \o Holding("h"), 0)
    BY LooksFit, FitsConcat
  <2>2. Fits(Holding("h") \o Holding("h") \o SendJSON, 0)
    BY <1>0, <2>1, FitsConcat
  <2>3. Fits(Holding("h") \o Holding("h") \o SendJSON \o RemoveClient, 0)
    BY <1>0, <2>2, FitsConcat
  <2>. QED  BY <1>10, <2>3 DEF Script, Connect
<1>. QED  BY <1>1, <1>2, <1>3, <1>4, <1>5, <1>6, <1>7, <1>8, <1>9, <1>10 DEF Jobs
-----------------------------------------------------------------------------
(* What is left of a script after one operation.                            *)

LEMMA AfterOne ==
  ASSUME NEW s \in Seq(Ops), s # <<>>
  PROVE  /\ Head(s) = s[1] /\ s[1] \in Ops /\ Len(s) \in Nat \ {0}
         /\ Tail(s) \in Seq(Ops) /\ Len(Tail(s)) = Len(s) - 1
         /\ \A i \in 1..(Len(s) - 1) : Tail(s)[i] = s[i + 1]
         /\ \A n, k : \A i \in 0..(Len(s) - 1) : Holds(Tail(s), i, n, k) <=> Holds(s, i + 1, n, k)
<1>1. /\ Head(s) = s[1] /\ s[1] \in Ops /\ Len(s) \in Nat \ {0}
      /\ Tail(s) \in Seq(Ops) /\ Len(Tail(s)) = Len(s) - 1
      /\ \A i \in 1..(Len(s) - 1) : Tail(s)[i] = s[i + 1]
  BY HeadTailProperties, EmptySeq, LenProperties, ElementOfSeq
<1>2. <<s[1]>> \in Seq(Ops) /\ Len(<<s[1]>>) = 1 /\ <<s[1]>> \o Tail(s) = s
  BY <1>1
<1>3. ASSUME NEW i \in 0..(Len(s) - 1), NEW n, NEW k
      PROVE  Holds(Tail(s), i, n, k) <=> Holds(s, i + 1, n, k)
  <2>1. i \in 0..Len(Tail(s)) /\ 1 + i = i + 1
    BY <1>1
  <2>2. Holds(<<s[1]>> \o Tail(s), Len(<<s[1]>>) + i, n, k) <=> Holds(Tail(s), i, n, k)
    BY <1>1, <1>2, <2>1, HoldsInConcat
  <2>. QED  BY <1>2, <2>1, <2>2
<1>. QED  BY <1>1, <1>3

LEMMA HoldsOn ==
  ASSUME NEW s \in Seq(Ops), NEW n, NEW k, Holds(s, 0, n, k)
  PROVE  /\ s # <<>>
         /\ \/ s[1] = <<k, n>>
            \/ ~Touches(s[1], n) /\ Holds(Tail(s), 0, n, k)
<1>1. PICK j \in 1..Len(s) : s[j] = <<k, n>> /\ \A i \in 1..(j - 1) : ~Touches(s[i], n)
  BY DEF Holds
<1>2. s # <<>>
  BY <1>1, EmptySeq
<1>3. ASSUME j # 1 PROVE ~Touches(s[1], n) /\ Holds(s, 1, n, k)
  <2>1. Len(s) \in Nat
    BY LenProperties
  <2>2. 1 \in 1..(j - 1) /\ j \in (1 + 1)..Len(s) /\ \A i \in (1 + 1)..(j - 1) : i \in 1..(j - 1)
    BY <1>3, <2>1
  <2>. QED  BY <1>1, <2>2 DEF Holds
<1>4. Holds(s, 1, n, k) => Holds(Tail(s), 0, n, k)
  <2>1. Len(s) \in Nat \ {0} /\ \A i \in 0..(Len(s) - 1) : Holds(Tail(s), i, n, k) <=> Holds(s, i + 1, n, k)
    BY <1>2, AfterOne
  <2>2. 0 \in 0..(Len(s) - 1) /\ 0 + 1 = 1
    BY <2>1
  <2>. QED  BY <2>1, <2>2
<1>. QED  BY <1>1, <1>2, <1>3, <1>4

LEMMA OrderedTail ==
  ASSUME NEW s \in Seq(Ops), s # <<>>, Ordered(s)
  PROVE  Ordered(Tail(s))
<1>. DEFINE t == Tail(s)
<1>1. /\ Len(s) \in Nat \ {0} /\ Len(t) = Len(s) - 1
      /\ \A i \in 1..Len(t) : t[i] = s[i + 1]
      /\ \A n, k : \A i \in 0..Len(t) : Holds(t, i, n, k) <=> Holds(s, i + 1, n, k)
  BY AfterOne
<1>. HIDE DEF t
<1>2. ASSUME NEW i \in 1..Len(t), t[i][1] \in {"lock", "announce", "rlock"}
      PROVE  Holds(t, i, t[i][2], CloserOf(t[i][1]))
  <2>1. i + 1 \in 1..Len(s) /\ i \in 0..Len(t) /\ t[i] = s[i + 1]
    BY <1>1
  <2>2. Holds(s, i + 1, s[i + 1][2], CloserOf(s[i + 1][1]))
    BY <1>2, <2>1 DEF Ordered
  <2>. QED  BY <1>1, <2>1, <2>2
<1>3. ASSUME NEW i \in 1..Len(t), NEW n \in Locks, NEW k \in Closers,
             Waits(t[i]), Holds(t, i - 1, n, k)
      PROVE  Rank(n) < Level(t[i])
  <2>1. /\ i + 1 \in 1..Len(s) /\ i - 1 \in 0..Len(t) /\ (i - 1) + 1 = i /\ (i + 1) - 1 = i
        /\ t[i] = s[i + 1]
    BY <1>1
  <2>2. Holds(s, i, n, k)
    BY <1>1, <1>3, <2>1
  <2>. QED  BY <1>3, <2>1, <2>2 DEF Ordered
<1>. QED  BY <1>2, <1>3 DEF Ordered, t

(* The removal of a connection comes before the rest of the script.         *)
LEMMA OrderedRemoval ==
  ASSUME NEW t \in Seq(Ops), Ordered(t),
         \A n \in Locks, k \in Closers : Holds(t, 0, n, k) => Rank(n) < Rank("h")
  PROVE  /\ RemoveClient \o t \in Seq(Ops) /\ Ordered(RemoveClient \o t)
         /\ \A n \in Locks, k \in Closers : Holds(t, 0, n, k) => Holds(RemoveClient \o t, 0, n, k)
<1>1. RemoveClient = <<<<"announce", "h">>, <<"write", "h">>>>
  BY DEF RemoveClient, Holding
<1>. DEFINE s == RemoveClient
           u == s \o t
           b == Len(t)
<1>2. /\ s \in Seq(Ops) /\ Len(s) = 2 /\ s[1] = <<"announce", "h">> /\ s[2] = <<"write", "h">>
      /\ u \in Seq(Ops) /\ b \in Nat /\ Len(u) = b + 2
      /\ \A i \in 1..(b + 2) : u[i] = IF i <= 2 THEN s[i] ELSE t[i - 2]
  <2>1. s \in Seq(Ops) /\ Len(s) = 2 /\ s[1] = <<"announce", "h">> /\ s[2] = <<"write", "h">>
    BY <1>1 DEF Ops
  <2>. HIDE DEF s
  <2>2. /\ u \in Seq(Ops) /\ b \in Nat /\ Len(u) = Len(s) + Len(t)
        /\ \A i \in 1..(Len(s) + Len(t)) : u[i] = IF i <= Len(s) THEN s[i] ELSE t[i - Len(s)]
    BY <2>1, ConcatProperties, LenProperties
  <2>. QED  BY <2>1, <2>2
<1>3. Fits(s, 5)
  BY MessagesFit
<1>4. /\ \A n, k : \A i \in 0..2 : Holds(u, i, n, k) => Holds(s, i, n, k) \/ Holds(t, 0, n, k)
      /\ \A n, k : \A i \in 0..2 : Holds(s, i, n, k) => Holds(u, i, n, k)
      /\ \A n, k : \A i \in 0..b : Holds(u, 2 + i, n, k) <=> Holds(t, i, n, k)
  BY <1>2, HoldsInConcat
<1>. HIDE DEF s, u, b
<1>5. ASSUME NEW i \in 1..2
      PROVE  /\ u[i][1] \in {"lock", "announce", "rlock"} =>
                  Holds(u, i, u[i][2], CloserOf(u[i][1]))
             /\ \A n \in Locks, k \in Closers :
                  Waits(u[i]) /\ Holds(u, i - 1, n, k) => Rank(n) < Level(u[i])
  <2>1. u[i] = s[i] /\ i \in 1..Len(s) /\ i \in 0..2 /\ i - 1 \in 0..2
    BY <1>2
  <2>2. u[i][1] \in {"lock", "announce", "rlock"} => Holds(u, i, u[i][2], CloserOf(u[i][1]))
    BY <1>3, <1>4, <2>1 DEF Fits, Ordered
  <2>3. ASSUME NEW n \in Locks, NEW k \in Closers, Waits(u[i]), Holds(u, i - 1, n, k)
        PROVE  Rank(n) < Level(u[i])
    <3>1. CASE Holds(s, i - 1, n, k)
      BY <1>3, <2>1, <2>3, <3>1 DEF Fits, Ordered
    <3>2. CASE Holds(t, 0, n, k)
      <4>1. Rank(n) < 6
        BY <3>2, Ranks
      <4>2. Level(u[i]) \in {6, 7}
        BY <1>2, <2>1, Ranks DEF Level, Floor
      <4>. QED  BY <4>1, <4>2, RankType
    <3>. QED  BY <1>4, <2>1, <2>3, <3>1, <3>2
  <2>. QED  BY <2>2, <2>3
<1>6. ASSUME NEW j \in 1..b, NEW i, i = j + 2
      PROVE  /\ u[i][1] \in {"lock", "announce", "rlock"} =>
                  Holds(u, i, u[i][2], CloserOf(u[i][1]))
             /\ \A n \in Locks, k \in Closers :
                  Waits(u[i]) /\ Holds(u, i - 1, n, k) => Rank(n) < Level(u[i])
  <2>1. /\ i \in 1..(b + 2) /\ ~(i <= 2) /\ i - 2 = j /\ i = 2 + j /\ i - 1 = 2 + (j - 1)
        /\ j \in 0..b /\ j - 1 \in 0..b
    BY <1>2, <1>6
  <2>2. u[i] = t[j]
    BY <1>2, <2>1
  <2>3. \A n, k : /\ Holds(u, i, n, k) <=> Holds(t, j, n, k)
                  /\ Holds(u, i - 1, n, k) <=> Holds(t, j - 1, n, k)
    BY <1>4, <2>1
  <2>. QED  BY <2>2, <2>3 DEF Ordered, b
<1>7. \A i \in 1..Len(u) : i \in 1..2 \/ \E j \in 1..b : i = j + 2
  <2>1. \A i \in 1..(b + 2) : i \in 1..2 \/ (i - 2 \in 1..b /\ i = (i - 2) + 2)
    BY <1>2
  <2>. QED  BY <1>2, <2>1
<1>8. Ordered(u)
  BY <1>5, <1>6, <1>7 DEF Ordered
<1>9. ASSUME NEW n \in Locks, NEW k \in Closers, Holds(t, 0, n, k)
      PROVE  Holds(u, 0, n, k)
  <2>1. n # "h"
    BY <1>9, Ranks
  <2>2. Holds(u, 2, n, k)
    <3>1. 0 \in 0..b /\ 2 + 0 = 2
      BY <1>2
    <3>. QED  BY <1>4, <1>9, <3>1
  <2>3. PICK j \in (2 + 1)..Len(u) : /\ u[j] = <<k, n>>
                                     /\ \A i \in (2 + 1)..(j - 1) : ~Touches(u[i], n)
    BY <2>2 DEF Holds
  <2>4. ~Touches(u[1], n) /\ ~Touches(u[2], n)
    <3>1. 1 \in 1..(b + 2) /\ 2 \in 1..(b + 2)
      BY <1>2
    <3>2. u[1] = s[1] /\ u[2] = s[2]
      BY <1>2, <3>1
    <3>. QED  BY <1>2, <2>1, <3>2 DEF Touches
  <2>5. /\ j \in (0 + 1)..Len(u)
        /\ \A i \in (0 + 1)..(j - 1) : i = 1 \/ i = 2 \/ i \in (2 + 1)..(j - 1)
    BY <1>2
  <2>6. \A i \in (0 + 1)..(j - 1) : ~Touches(u[i], n)
    BY <2>3, <2>4, <2>5
  <2>. QED  BY <2>3, <2>5, <2>6 DEF Holds
<1>. QED  BY <1>2, <1>8, <1>9 DEF u, s
-----------------------------------------------------------------------------
(* What a goroutine has still to do keeps to the order, and what it holds is *)
(* what it has still to give back.                                         *)

ScriptInv == /\ todo \in [Goroutines -> Seq(Ops)]
             /\ \A g \in Goroutines : Ordered(todo[g])
HolderInv == /\ holder \in [Locks -> Goroutines \cup {Nobody}]
             /\ \A m \in Locks : holder[m] # Nobody =>
                  \E k \in {"unlock", "write"} : Holds(todo[holder[m]], 0, m, k)
ReaderInv == /\ readers \subseteq Goroutines
             /\ \A g \in readers : Holds(todo[g], 0, "h", "runlock")

LockInv == ScriptInv /\ HolderInv /\ ReaderInv

NoRetries == Mix \cap {"retryExit", "restart"} = {}

LEMMA InitOrdered ==
  ASSUME NoRetries, LockInit
  PROVE  LockInv
<1>1. \A g \in Goroutines : Fits(todo[g], 0)
  <2>1. todo \in [Goroutines -> UNION {Script(job) : job \in Mix}]
    BY DEF LockInit
  <2>2. \A job \in Mix : job \in Jobs \ {"retryExit", "restart"}
    BY LockAssumption DEF NoRetries
  <2>. QED  BY <2>1, <2>2, ScriptsFit
<1>2. todo \in [Goroutines -> Seq(Ops)] /\ \A g \in Goroutines : Ordered(todo[g])
  <2>1. \A g \in Goroutines : todo[g] \in Seq(Ops)
    BY <1>1 DEF Fits
  <2>2. todo = [g \in Goroutines |-> todo[g]]
    BY DEF LockInit
  <2>. QED  BY <1>1, <2>1, <2>2 DEF Fits
<1>. QED  BY <1>2 DEF LockInit, LockInv, ScriptInv, HolderInv, ReaderInv

(* One operation of g that is not the failed write: g holds on to all that   *)
(* it does not give back with it.                                          *)
LEMMA OneOperation ==
  ASSUME LockInv, NEW g \in Goroutines, NEW op, NEW m \in Locks, Does(g, op, m), op # "written"
  PROVE  /\ todo[g][1] = <<op, m>> /\ todo' = [todo EXCEPT ![g] = Tail(todo[g])]
         /\ ScriptInv'
         /\ \A h \in Goroutines, n \in Locks, k \in Closers :
              Holds(todo[h], 0, n, k) /\ ~(h = g /\ n = m /\ k = op) =>
                Holds(todo'[h], 0, n, k) /\ (h = g => n # m)
         /\ op \in {"lock", "announce", "rlock"} => Holds(todo'[g], 0, m, CloserOf(op))
<1>1. /\ todo[g] \in Seq(Ops) /\ todo[g] # <<>> /\ Ordered(todo[g])
      /\ todo[g][1] = <<op, m>> /\ todo' = [todo EXCEPT ![g] = Tail(todo[g])]
      /\ todo \in [Goroutines -> Seq(Ops)]
  BY AfterOne DEF LockInv, ScriptInv, Does
<1>2. /\ Tail(todo[g]) \in Seq(Ops) /\ Ordered(Tail(todo[g]))
      /\ todo'[g] = Tail(todo[g]) /\ \A h \in Goroutines \ {g} : todo'[h] = todo[h]
  BY <1>1, AfterOne, OrderedTail
<1>3. ScriptInv'
  BY <1>1, <1>2 DEF LockInv, ScriptInv
<1>4. ASSUME NEW h \in Goroutines, NEW n \in Locks, NEW k \in Closers,
             Holds(todo[h], 0, n, k), ~(h = g /\ n = m /\ k = op)
      PROVE  Holds(todo'[h], 0, n, k) /\ (h = g => n # m)
  <2>1. CASE h # g
    BY <1>2, <1>4, <2>1
  <2>2. CASE h = g
    <3>1. \/ todo[g][1] = <<k, n>>
          \/ ~Touches(todo[g][1], n) /\ Holds(Tail(todo[g]), 0, n, k)
      BY <1>1, <1>4, <2>2, HoldsOn
    <3>2. todo[g][1] # <<k, n>>
      BY <1>1, <1>4, <2>2
    <3>. QED  BY <1>1, <1>2, <2>2, <3>1, <3>2 DEF Touches
  <2>. QED  BY <2>1, <2>2
<1>5. ASSUME op \in {"lock", "announce", "rlock"}
      PROVE  Holds(todo'[g], 0, m, CloserOf(op))
  <2>1. /\ 1 \in 1..Len(todo[g]) /\ 0 \in 0..(Len(todo[g]) - 1) /\ 0 + 1 = 1
        /\ Holds(Tail(todo[g]), 0, m, CloserOf(op)) <=> Holds(todo[g], 0 + 1, m, CloserOf(op))
    <3>1. /\ Len(todo[g]) \in Nat \ {0}
          /\ \A n, k : \A i \in 0..(Len(todo[g]) - 1) :
               Holds(Tail(todo[g]), i, n, k) <=> Holds(todo[g], i + 1, n, k)
      BY <1>1, AfterOne
    <3>2. 1 \in 1..Len(todo[g]) /\ 0 \in 0..(Len(todo[g]) - 1) /\ 0 + 1 = 1
      BY <3>1
    <3>. QED  BY <3>1, <3>2
  <2>2. Holds(todo[g], 1, m, CloserOf(op))
    BY <1>1, <1>5, <2>1 DEF Ordered
  <2>. QED  BY <1>2, <2>1, <2>2
<1>. QED  BY <1>1, <1>3, <1>4, <1>5

(* The failed write: what g holds then comes before h.mu, so that it can     *)
(* remove the connection.                                                  *)
LEMMA OneFailedWrite ==
  ASSUME LockInv, NEW g \in Goroutines, Written(g)
  PROVE  LockInv'
<1>. DEFINE t == Tail(todo[g])
<1>1. /\ todo[g] \in Seq(Ops) /\ todo[g] # <<>> /\ Ordered(todo[g])
      /\ todo[g][1] \in Ops /\ todo[g][1][1] = "written" /\ 1 \in 1..Len(todo[g])
      /\ t \in Seq(Ops) /\ Ordered(t)
      /\ todo \in [Goroutines -> Seq(Ops)]
  <2>1. todo[g] \in Seq(Ops) /\ todo[g] # <<>> /\ Ordered(todo[g]) /\ Head(todo[g])[1] = "written"
        /\ todo \in [Goroutines -> Seq(Ops)]
    BY DEF LockInv, ScriptInv, Written
  <2>2. Len(todo[g]) \in Nat \ {0} /\ todo[g][1] \in Ops /\ Head(todo[g]) = todo[g][1] /\ t \in Seq(Ops)
    BY <2>1, AfterOne
  <2>3. Ordered(t)
    BY <2>1, OrderedTail
  <2>. QED  BY <2>1, <2>2, <2>3
<1>2. ASSUME NEW n \in Locks, NEW k \in Closers, Holds(todo[g], 0, n, k)
      PROVE  Holds(t, 0, n, k) /\ Rank(n) < Rank("h")
  <2>1. Waits(todo[g][1]) /\ Level(todo[g][1]) = Rank("h") /\ 1 - 1 = 0
    BY <1>1 DEF Waits, Level, Floor
  <2>2. Rank(n) < Rank("h")
    BY <1>1, <1>2, <2>1 DEF Ordered
  <2>3. todo[g][1] # <<k, n>>
    BY <1>1, <1>2 DEF Closers
  <2>4. Holds(t, 0, n, k)
    BY <1>1, <1>2, <2>3, HoldsOn
  <2>. QED  BY <2>2, <2>4
<1>3. ASSUME NEW n \in Locks, NEW k \in Closers, Holds(t, 0, n, k)
      PROVE  Rank(n) < Rank("h")
  <2>1. ~Touches(todo[g][1], n)
    BY <1>1 DEF Touches
  <2>2. Holds(todo[g], 1, n, k)
    <3>1. /\ Len(todo[g]) \in Nat \ {0}
          /\ \A i \in 0..(Len(todo[g]) - 1) : Holds(t, i, n, k) <=> Holds(todo[g], i + 1, n, k)
      BY <1>1, AfterOne
    <3>2. 0 \in 0..(Len(todo[g]) - 1) /\ 0 + 1 = 1
      BY <3>1
    <3>. QED  BY <1>3, <3>1, <3>2
  <2>3. PICK j \in (1 + 1)..Len(todo[g]) :
           todo[g][j] = <<k, n>> /\ \A i \in (1 + 1)..(j - 1) : ~Touches(todo[g][i], n)
    BY <2>2 DEF Holds
  <2>4. j \in (0 + 1)..Len(todo[g]) /\ \A i \in (0 + 1)..(j - 1) : i = 1 \/ i \in (1 + 1)..(j - 1)
    BY LenProperties, <1>1
  <2>5. Holds(todo[g], 0, n, k)
    BY <2>1, <2>3, <2>4 DEF Holds
  <2>. QED  BY <1>2, <2>5
<1>4. PICK more \in {<<>>, RemoveClient} : todo' = [todo EXCEPT ![g] = more \o t]
  BY DEF Written
<1>5. /\ more \o t \in Seq(Ops) /\ Ordered(more \o t)
      /\ \A n \in Locks, k \in Closers : Holds(t, 0, n, k) => Holds(more \o t, 0, n, k)
  <2>1. CASE more = <<>>
    <3>1. <<>> \o t = t
      BY <1>1, ConcatEmptySeq
    <3>. QED  BY <1>1, <2>1, <3>1
  <2>2. CASE more = RemoveClient
    BY <1>1, <1>3, <2>2, OrderedRemoval
  <2>. QED  BY <2>1, <2>2
<1>6. \A h \in Goroutines, n \in Locks, k \in Closers :
        Holds(todo[h], 0, n, k) => Holds(todo'[h], 0, n, k)
  BY <1>1, <1>2, <1>4, <1>5
<1>7. ScriptInv'
  BY <1>1, <1>4, <1>5 DEF LockInv, ScriptInv
<1>8. HolderInv' /\ ReaderInv'
  BY <1>6 DEF Written, LockInv, HolderInv, ReaderInv, Closers, Locks
<1>. QED  BY <1>7, <1>8 DEF LockInv

LEMMA NextOrdered ==
  ASSUME LockInv, [LockNext]_lockVars
  PROVE  LockInv'
<1>1. CASE UNCHANGED lockVars
  BY <1>1 DEF lockVars, LockInv, ScriptInv, HolderInv, ReaderInv
<1>. SUFFICES ASSUME NEW g \in Goroutines, Go(g) PROVE LockInv'
  BY <1>1 DEF LockNext
<1>. USE DEF LockInv
<1>2. "h" \in Locks /\ Nobody \notin Goroutines
  BY LockAssumption DEF Locks
<1>3. ASSUME NEW m \in Locks, Lock(g, m) PROVE LockInv'
  <2>1. /\ ScriptInv' /\ Holds(todo'[g], 0, m, "unlock")
        /\ \A h \in Goroutines, n \in Locks, k \in Closers :
             Holds(todo[h], 0, n, k) => Holds(todo'[h], 0, n, k)
    BY <1>3, OneOperation DEF Lock, Closers, CloserOf
  <2>. QED  BY <1>2, <1>3, <2>1 DEF Lock, HolderInv, ReaderInv, Closers
<1>4. ASSUME NEW m \in Locks, Unlock(g, m) PROVE LockInv'
  <2>1. /\ ScriptInv'
        /\ \A h \in Goroutines, n \in Locks, k \in Closers :
             Holds(todo[h], 0, n, k) /\ ~(n = m /\ k = "unlock") => Holds(todo'[h], 0, n, k)
    BY <1>4, OneOperation DEF Unlock
  <2>. QED  BY <1>2, <1>4, <2>1 DEF Unlock, HolderInv, ReaderInv, Closers
<1>5. ASSUME NEW m \in Locks, Visit(g, m) PROVE LockInv'
  <2>1. /\ ScriptInv'
        /\ \A h \in Goroutines, n \in Locks, k \in Closers :
             Holds(todo[h], 0, n, k) => Holds(todo'[h], 0, n, k)
    BY <1>5, OneOperation DEF Visit, Closers
  <2>. QED  BY <1>2, <1>5, <2>1 DEF Visit, HolderInv, ReaderInv, Closers
<1>6. CASE Written(g)
  BY <1>6, OneFailedWrite
<1>7. CASE Announce(g)
  <2>1. /\ ScriptInv' /\ Holds(todo'[g], 0, "h", "write")
        /\ \A h \in Goroutines, n \in Locks, k \in Closers :
             Holds(todo[h], 0, n, k) => Holds(todo'[h], 0, n, k)
    BY <1>2, <1>7, OneOperation DEF Announce, Closers, CloserOf
  <2>. QED  BY <1>2, <1>7, <2>1 DEF Announce, HolderInv, ReaderInv, Closers
<1>8. CASE WriteAndUnlock(g)
  <2>1. /\ ScriptInv'
        /\ \A h \in Goroutines, n \in Locks, k \in Closers :
             Holds(todo[h], 0, n, k) /\ ~(n = "h" /\ k = "write") => Holds(todo'[h], 0, n, k)
    BY <1>2, <1>8, OneOperation DEF WriteAndUnlock
  <2>. QED  BY <1>2, <1>8, <2>1 DEF WriteAndUnlock, HolderInv, ReaderInv, Closers
<1>9. CASE RLock(g)
  <2>1. /\ ScriptInv' /\ Holds(todo'[g], 0, "h", "runlock")
        /\ \A h \in Goroutines, n \in Locks, k \in Closers :
             Holds(todo[h], 0, n, k) => Holds(todo'[h], 0, n, k)
    BY <1>2, <1>9, OneOperation DEF RLock, Closers, CloserOf
  <2>. QED  BY <1>2, <1>9, <2>1 DEF RLock, HolderInv, ReaderInv, Closers
<1>10. CASE RUnlock(g)
  <2>1. /\ ScriptInv'
        /\ \A h \in Goroutines, n \in Locks, k \in Closers :
             Holds(todo[h], 0, n, k) /\ ~(h = g /\ n = "h" /\ k = "runlock") => Holds(todo'[h], 0, n, k)
    BY <1>2, <1>10, OneOperation DEF RUnlock
  <2>. QED  BY <1>2, <1>10, <2>1 DEF RUnlock, HolderInv, ReaderInv, Closers
<1>. QED  BY <1>3, <1>4, <1>5, <1>6, <1>7, <1>8, <1>9, <1>10 DEF Go
-----------------------------------------------------------------------------
(* Who cannot go on waits for one that stands higher.                       *)

LEMMA HolderStandsHigher ==
  ASSUME LockInv, NEW g \in Goroutines, todo[g] # <<>>, ~Enabled(g),
         \A h \in Goroutines : todo[h] # <<>> => ~Enabled(h)
  PROVE  \E h \in Goroutines : /\ todo[h] # <<>>
                               /\ Level(todo[g][1]) < Level(todo[h][1])
<1>. USE DEF LockInv
<1>1. \A h \in Goroutines : todo[h] # <<>> =>
        /\ Head(todo[h]) = todo[h][1] /\ todo[h][1] \in Ops
        /\ 1 \in 1..Len(todo[h]) /\ Waits(todo[h][1])
  <2>. SUFFICES ASSUME NEW h \in Goroutines, todo[h] # <<>>
                PROVE  /\ Head(todo[h]) = todo[h][1] /\ todo[h][1] \in Ops
                       /\ 1 \in 1..Len(todo[h]) /\ Waits(todo[h][1])
    OBVIOUS
  <2>1. Head(todo[h]) = todo[h][1] /\ todo[h][1] \in Ops /\ Len(todo[h]) \in Nat \ {0}
    BY AfterOne DEF ScriptInv
  <2>2. todo[h][1][1] \notin {"unlock", "runlock"}
    BY <2>1 DEF Enabled
  <2>3. Waits(todo[h][1])
    BY <2>1, <2>2 DEF Ops, Waits
  <2>. QED  BY <2>1, <2>3
(* Who holds a lock waits above it.                                        *)
<1>2. ASSUME NEW h \in Goroutines, NEW n \in Locks, NEW k \in Closers, Holds(todo[h], 0, n, k)
      PROVE  /\ todo[h] # <<>> /\ Rank(n) < Level(todo[h][1])
             /\ todo[h][1] = <<k, n>> \/ ~Touches(todo[h][1], n)
  <2>1. /\ todo[h] # <<>> /\ 1 - 1 = 0
        /\ todo[h][1] = <<k, n>> \/ ~Touches(todo[h][1], n)
    BY <1>2, HoldsOn DEF ScriptInv
  <2>2. Rank(n) < Level(todo[h][1])
    BY <1>1, <1>2, <2>1 DEF ScriptInv, Ordered
  <2>. QED  BY <2>1, <2>2
<1>3. PICK op, m : todo[g][1] = <<op, m>> /\ m \in Locks
  BY <1>1 DEF Ops, Locks
<1>4. CASE op = "write"
  <2>1. m = "h" /\ Level(todo[g][1]) = 7
    BY <1>1, <1>3, <1>4, Ranks DEF Ops, Level, Floor
  <2>2. PICK h \in readers : TRUE
    BY <1>1, <1>3, <1>4 DEF Enabled
  <2>3. h \in Goroutines /\ "h" \in Locks /\ "runlock" \in Closers /\ Holds(todo[h], 0, "h", "runlock")
    BY <2>2 DEF ReaderInv, Locks, Closers
  <2>4. /\ todo[h] # <<>> /\ 6 < Level(todo[h][1])
        /\ todo[h][1] = <<"runlock", "h">> \/ ~Touches(todo[h][1], "h")
    BY <1>2, <2>3, Ranks
  <2>5. todo[h][1] \in Ops /\ ~Touches(todo[h][1], "h")
    BY <1>1, <2>3, <2>4 DEF Waits
  <2>6. Level(todo[h][1]) # 7
    <3>1. Floor(todo[h][1]) \in {2, 4, 6, 8, 10, 12}
      BY <2>5 DEF Ops, Locks, Floor, Rank
    <3>2. todo[h][1][1] # "write"
      BY <2>5 DEF Ops, Touches
    <3>. QED  BY <3>1, <3>2 DEF Level
  <2>7. Level(todo[h][1]) \in 2..12
    BY <2>5, LevelType
  <2>. QED  BY <2>1, <2>3, <2>4, <2>6, <2>7
<1>5. CASE op # "write"
  <2>1. holder[m] # Nobody /\ op # "written"
    BY <1>1, <1>3, <1>5 DEF Enabled
  <2>2. Level(todo[g][1]) = Rank(m)
    BY <1>3, <1>5, <2>1 DEF Level, Floor
  <2>3. /\ holder[m] \in Goroutines
        /\ \E k \in {"unlock", "write"} : Holds(todo[holder[m]], 0, m, k)
    BY <1>3, <2>1 DEF HolderInv
  <2>. QED  BY <1>2, <1>3, <2>2, <2>3 DEF Closers
<1>. QED  BY <1>4, <1>5

LEMMA SomeoneGoesOn ==
  ASSUME LockInv
  PROVE  NoDeadlock
<1>. SUFFICES ASSUME NEW g \in Goroutines, todo[g] # <<>>,
                     \A h \in Goroutines : todo[h] # <<>> => ~Enabled(h)
              PROVE  FALSE
  BY DEF NoDeadlock
<1>. DEFINE Waiting == {h \in Goroutines : todo[h] # <<>>}
           At(h) == Level(todo[h][1])
<1>1. \A h \in Waiting : At(h) \in 2..12
  BY AfterOne, LevelType DEF LockInv, ScriptInv
<1>2. \A h \in Waiting : \E higher \in Waiting : At(h) < At(higher)
  BY HolderStandsHigher
<1>3. g \in Waiting
  OBVIOUS
<1>. HIDE DEF Waiting, At
<1>4. \A h \in Waiting : At(h) < 12
  BY <1>1, <1>2
<1>5. \A h \in Waiting : At(h) < 11
  BY <1>1, <1>2, <1>4
<1>6. \A h \in Waiting : At(h) < 10
  BY <1>1, <1>2, <1>5
<1>7. \A h \in Waiting : At(h) < 9
  BY <1>1, <1>2, <1>6
<1>8. \A h \in Waiting : At(h) < 8
  BY <1>1, <1>2, <1>7
<1>9. \A h \in Waiting : At(h) < 7
  BY <1>1, <1>2, <1>8
<1>10. \A h \in Waiting : At(h) < 6
  BY <1>1, <1>2, <1>9
<1>11. \A h \in Waiting : At(h) < 5
  BY <1>1, <1>2, <1>10
<1>12. \A h \in Waiting : At(h) < 4
  BY <1>1, <1>2, <1>11
<1>13. \A h \in Waiting : At(h) < 3
  BY <1>1, <1>2, <1>12
<1>14. \A h \in Waiting : At(h) < 2
  BY <1>1, <1>2, <1>13
<1>. QED  BY <1>1, <1>3, <1>14

(* Without retries the goroutines, however many and whatever they do, never  *)
(* all wait for one another: every request is answered and every callback  *)
(* returns.                                                                *)
THEOREM LocksNeverDeadlock ==
  ASSUME NoRetries
  PROVE  LockSpec => []NoDeadlock
<1>1. LockInit => LockInv
  BY InitOrdered
<1>2. LockInv /\ [LockNext]_lockVars => LockInv'
  BY NextOrdered
<1>3. LockInv => NoDeadlock
  BY SomeoneGoesOn
<1>. QED  BY <1>1, <1>2, <1>3, PTL DEF LockSpec
=============================================================================
