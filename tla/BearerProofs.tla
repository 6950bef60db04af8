---------------------------- MODULE BearerProofs ----------------------------
(***************************************************************************)
(* Proofs about the numbers of Bearer: N(U) and the overflow counters of   *)
(* both ends, for every modulus, frame size and scenario.                  *)
(*                                                                         *)
(* Number and counter together are the place of a frame in the row of all  *)
(* frames that were sent.  As long as nothing is lost or repeated the      *)
(* frames under way are the row from the one that the receiver expects to  *)
(* the last one sent.                                                      *)
(*                                                                         *)
(* The second part is about the lists of compression entities: whatever    *)
(* octets the MS sends, no two entities of a list have one number.         *)
(***************************************************************************)
EXTENDS Bearer, ListsProofs

-----------------------------------------------------------------------------
(* Lists of anything.                                                      *)

IsList(s) == Len(s) \in Nat /\ s = [i \in 1..Len(s) |-> s[i]]

\* A list is a sequence of its elements.
LEMMA ListSeq ==
  ASSUME NEW s, IsList(s), NEW S, \A i \in 1..Len(s) : s[i] \in S
  PROVE  s \in Seq(S)
  BY DEF IsList

\* Sequences are lists.
LEMMA SeqList == ASSUME NEW S, NEW s \in Seq(S) PROVE IsList(s) /\ DOMAIN s = 1..Len(s)
  BY DEF IsList

\* Two lists in a row.
LEMMA ConcatList ==
  ASSUME NEW s, NEW t, IsList(s), IsList(t)
  PROVE  /\ IsList(s \o t) /\ Len(s \o t) = Len(s) + Len(t) /\ DOMAIN (s \o t) = 1..(Len(s) + Len(t))
         /\ \A i \in 1..(Len(s) + Len(t)) : (s \o t)[i] = IF i <= Len(s) THEN s[i] ELSE t[i - Len(s)]
<1> DEFINE S == {s[i] : i \in 1..Len(s)} \cup {t[i] : i \in 1..Len(t)}
<1>1. s \in Seq(S)
  BY ListSeq
<1>2. t \in Seq(S)
  BY ListSeq
<1> HIDE DEF S
<1>3. s \o t \in Seq(S) /\ Len(s \o t) = Len(s) + Len(t)
  BY <1>1, <1>2
<1>4. IsList(s \o t) /\ DOMAIN (s \o t) = 1..(Len(s) + Len(t))
  BY <1>3, SeqList
<1>5. \A i \in 1..(Len(s) + Len(t)) : (s \o t)[i] = IF i <= Len(s) THEN s[i] ELSE t[i - Len(s)]
  BY <1>1, <1>2
<1> QED
  BY <1>3, <1>4, <1>5

\* A list and one element more.
LEMMA AppendList ==
  ASSUME NEW s, NEW x, IsList(s)
  PROVE  /\ IsList(Append(s, x)) /\ Len(Append(s, x)) = Len(s) + 1 /\ DOMAIN Append(s, x) = 1..(Len(s) + 1)
         /\ \A i \in 1..(Len(s) + 1) : Append(s, x)[i] = IF i <= Len(s) THEN s[i] ELSE x
<1> DEFINE S == {s[i] : i \in 1..Len(s)} \cup {x}
<1>1. s \in Seq(S) /\ x \in S
  BY ListSeq
<1> HIDE DEF S
<1>2. Append(s, x) \in Seq(S) /\ Len(Append(s, x)) = Len(s) + 1
  BY <1>1
<1>3. IsList(Append(s, x)) /\ DOMAIN Append(s, x) = 1..(Len(s) + 1)
  BY <1>2, SeqList
<1>4. \A i \in 1..(Len(s) + 1) : Append(s, x)[i] = IF i <= Len(s) THEN s[i] ELSE x
  BY <1>1
<1> QED
  BY <1>2, <1>3, <1>4

\* All but the first.
LEMMA TailList ==
  ASSUME NEW s, IsList(s), s # <<>>
  PROVE  /\ IsList(Tail(s)) /\ Len(s) > 0 /\ Len(Tail(s)) = Len(s) - 1 /\ DOMAIN Tail(s) = 1..(Len(s) - 1)
         /\ \A i \in 1..(Len(s) - 1) : Tail(s)[i] = s[i + 1]
         /\ Head(s) = s[1]
<1> DEFINE S == {s[i] : i \in 1..Len(s)}
<1>1. s \in Seq(S)
  BY ListSeq
<1> HIDE DEF S
<1>2. Tail(s) \in Seq(S) /\ Len(Tail(s)) = Len(s) - 1 /\ Len(s) > 0
  BY <1>1
<1>3. IsList(Tail(s)) /\ DOMAIN Tail(s) = 1..(Len(s) - 1)
  BY <1>2, SeqList
<1>4. \A i \in 1..(Len(s) - 1) : Tail(s)[i] = s[i + 1]
  BY <1>1
<1> QED
  BY <1>1, <1>2, <1>3, <1>4

-----------------------------------------------------------------------------
(* Rows of frames.                                                         *)

\* The place of a number with its overflow counter.  The SGSN's counter is one cycle ahead
\* on the last number of a cycle.
Place(nu, oc, way) ==
  (oc - (IF way = "down" /\ nu = NuMod - 1 THEN 1 ELSE 0)) * NuMod + nu
Ui(f) == f.type = "ui"
FrameOK(f) == Ui(f) => f.nu \in 0..(NuMod - 1) /\ f.oc \in Nat
PlaceOf(f, way) == Place(f.nu, f.oc, way)
\* The UI frames of list s have the places from lo on to before hi, in order.
InRow(s, way, lo, hi) ==
  /\ lo <= hi
  /\ \A i \in DOMAIN s : Ui(s[i]) => lo <= PlaceOf(s[i], way) /\ PlaceOf(s[i], way) < hi
  /\ \A i, j \in DOMAIN s : i < j /\ Ui(s[i]) /\ Ui(s[j]) => PlaceOf(s[i], way) < PlaceOf(s[j], way)
  /\ \A x \in Int : lo <= x /\ x < hi => \E i \in DOMAIN s : Ui(s[i]) /\ PlaceOf(s[i], way) = x

\* A place is an integer, and tells number and counter.
LEMMA PlaceType ==
  ASSUME NEW nu \in 0..(NuMod - 1), NEW oc \in Nat, NEW way PROVE Place(nu, oc, way) \in Int
  BY BearerAssumption DEF Place
LEMMA PlaceUnique ==
  ASSUME NEW m \in 0..(NuMod - 1), NEW n \in 0..(NuMod - 1), NEW a \in Int, NEW b \in Int,
         a * NuMod + m = b * NuMod + n
  PROVE  m = n /\ a = b
  BY BearerAssumption

\* A number is followed by the next one, and the last one of a cycle by the first of the next.
LEMMA PlaceNext ==
  ASSUME NEW nu \in 0..(NuMod - 1), NEW oc \in Int
  PROVE  (IF nu = NuMod - 1 THEN (oc + 1) * NuMod + 0 ELSE oc * NuMod + (nu + 1)) = (oc * NuMod + nu) + 1
<1>1. NuMod \in Int
  BY BearerAssumption
<1>2. (oc + 1) * NuMod = oc * NuMod + NuMod /\ oc * NuMod \in Int
  BY <1>1
<1> DEFINE x == oc * NuMod
           y == (oc + 1) * NuMod
<1>3. y = x + NuMod /\ x \in Int /\ nu \in Int
  BY <1>1, <1>2
<1> HIDE DEF x, y
<1>4. (IF nu = NuMod - 1 THEN y + 0 ELSE x + (nu + 1)) = (x + nu) + 1
  BY <1>1, <1>3
<1> QED
  BY <1>4 DEF x, y

\* The first UI frame of a row is the first of the row.
LEMMA RowHead ==
  ASSUME NEW s, NEW way, NEW lo \in Int, NEW hi \in Int, IsList(s), s # <<>>, \A i \in DOMAIN s : FrameOK(s[i]),
         InRow(s, way, lo, hi), Ui(Head(s))
  PROVE  PlaceOf(Head(s), way) = lo /\ InRow(Tail(s), way, lo + 1, hi)
<1> DEFINE t == Tail(s)
<1>1. /\ IsList(t) /\ DOMAIN t = 1..(Len(s) - 1) /\ DOMAIN s = 1..Len(s) /\ Len(s) \in Nat /\ Len(s) > 0
      /\ \A i \in 1..(Len(s) - 1) : t[i] = s[i + 1]
      /\ Head(s) = s[1]
  BY TailList DEF IsList
<1> HIDE DEF t
<1> DEFINE p(i) == PlaceOf(s[i], way)
<1>2. \A i \in DOMAIN s : Ui(s[i]) => p(i) \in Int
  BY PlaceType DEF FrameOK, PlaceOf
<1>3. 1 \in DOMAIN s /\ Ui(s[1])
  BY <1>1
<1>4. /\ \A i \in DOMAIN s : Ui(s[i]) => lo <= p(i) /\ p(i) < hi
      /\ \A i, j \in DOMAIN s : i < j /\ Ui(s[i]) /\ Ui(s[j]) => p(i) < p(j)
      /\ \A x \in Int : lo <= x /\ x < hi => \E i \in DOMAIN s : Ui(s[i]) /\ p(i) = x
  BY DEF InRow
<1> HIDE DEF p
<1>5. \A i \in DOMAIN s : i # 1 => 1 < i
  BY <1>1
<1>6. lo <= p(1) /\ p(1) < hi /\ p(1) \in Int
  BY <1>2, <1>3, <1>4
<1>7. p(1) = lo
  <2>1. PICK i \in DOMAIN s : Ui(s[i]) /\ p(i) = lo
    BY <1>4, <1>6
  <2>2. i # 1 => p(1) < p(i)
    BY <1>3, <1>4, <1>5, <2>1
  <2> QED
    BY <1>2, <1>6, <2>1, <2>2
<1>8. \A i \in DOMAIN t : t[i] = s[i + 1] /\ i + 1 \in DOMAIN s /\ 1 < i + 1
  BY <1>1
<1>9. \A i \in DOMAIN t : Ui(t[i]) => PlaceOf(t[i], way) = p(i + 1) /\ lo + 1 <= p(i + 1) /\ p(i + 1) < hi
  BY <1>2, <1>3, <1>4, <1>6, <1>7, <1>8 DEF p
<1>10. \A i, j \in DOMAIN t : i < j /\ Ui(t[i]) /\ Ui(t[j]) => PlaceOf(t[i], way) < PlaceOf(t[j], way)
  <2> SUFFICES ASSUME NEW i \in DOMAIN t, NEW j \in DOMAIN t, i < j, Ui(t[i]), Ui(t[j])
               PROVE  p(i + 1) < p(j + 1)
    BY <1>9
  <2>1. i + 1 < j + 1
    BY <1>1
  <2> QED
    BY <1>4, <1>8, <2>1
<1>11. ASSUME NEW x \in Int, lo + 1 <= x, x < hi
       PROVE  \E i \in DOMAIN t : Ui(t[i]) /\ PlaceOf(t[i], way) = x
  <2>1. PICK k \in DOMAIN s : Ui(s[k]) /\ p(k) = x
    BY <1>4, <1>11
  <2>2. k # 1
    BY <1>7, <1>11, <2>1
  <2>3. k - 1 \in DOMAIN t /\ t[k - 1] = s[k]
    BY <1>1, <2>2
  <2> QED
    BY <2>1, <2>3 DEF p
<1>12. lo + 1 <= hi
  BY <1>6, <1>7
<1> QED
  BY <1>3, <1>7, <1>1, <1>9, <1>10, <1>11, <1>12 DEF InRow, p, t

\* Another frame leaves the row as it is when it comes,
LEMMA RowSkip ==
  ASSUME NEW s, NEW way, NEW lo, NEW hi, IsList(s), s # <<>>, InRow(s, way, lo, hi), ~Ui(Head(s))
  PROVE  InRow(Tail(s), way, lo, hi)
<1> DEFINE t == Tail(s)
<1>1. /\ IsList(t) /\ DOMAIN t = 1..(Len(s) - 1) /\ DOMAIN s = 1..Len(s) /\ Len(s) \in Nat /\ Len(s) > 0
      /\ \A i \in 1..(Len(s) - 1) : t[i] = s[i + 1]
      /\ Head(s) = s[1]
  BY TailList DEF IsList
<1> HIDE DEF t
<1>2. \A i \in DOMAIN t : t[i] = s[i + 1] /\ i + 1 \in DOMAIN s
  BY <1>1
<1>3. \A k \in DOMAIN s : Ui(s[k]) => k - 1 \in DOMAIN t /\ t[k - 1] = s[k]
  BY <1>1
<1>4. \A i, j \in DOMAIN t : i < j => i + 1 < j + 1
  BY <1>1
<1>5. \A i, j \in DOMAIN t : i < j /\ Ui(t[i]) /\ Ui(t[j]) => PlaceOf(t[i], way) < PlaceOf(t[j], way)
  BY <1>2, <1>4 DEF InRow
<1>6. \A i \in DOMAIN t : Ui(t[i]) => lo <= PlaceOf(t[i], way) /\ PlaceOf(t[i], way) < hi
  BY <1>2 DEF InRow
<1>7. \A x \in Int : lo <= x /\ x < hi => \E i \in DOMAIN t : Ui(t[i]) /\ PlaceOf(t[i], way) = x
  BY <1>3 DEF InRow
<1> QED
  BY <1>5, <1>6, <1>7 DEF InRow, t

\* and when it is sent.
LEMMA RowOther ==
  ASSUME NEW s, NEW f, NEW way, NEW lo, NEW hi, IsList(s), InRow(s, way, lo, hi), ~Ui(f)
  PROVE  InRow(Append(s, f), way, lo, hi)
<1> DEFINE t == Append(s, f)
<1>1. /\ DOMAIN t = 1..(Len(s) + 1) /\ DOMAIN s = 1..Len(s) /\ Len(s) \in Nat
      /\ \A i \in 1..(Len(s) + 1) : t[i] = IF i <= Len(s) THEN s[i] ELSE f
  BY AppendList DEF IsList
<1> HIDE DEF t
<1>2. \A i \in DOMAIN t : Ui(t[i]) => i \in DOMAIN s /\ t[i] = s[i]
  BY <1>1
<1>3. \A i \in DOMAIN s : i \in DOMAIN t /\ t[i] = s[i]
  BY <1>1
<1>4. \A i, j \in DOMAIN t : i < j /\ Ui(t[i]) /\ Ui(t[j]) => PlaceOf(t[i], way) < PlaceOf(t[j], way)
  BY <1>2 DEF InRow
<1>5. \A i \in DOMAIN t : Ui(t[i]) => lo <= PlaceOf(t[i], way) /\ PlaceOf(t[i], way) < hi
  BY <1>2 DEF InRow
<1>6. \A x \in Int : lo <= x /\ x < hi => \E i \in DOMAIN t : Ui(t[i]) /\ PlaceOf(t[i], way) = x
  BY <1>3 DEF InRow
<1> QED
  BY <1>4, <1>5, <1>6 DEF InRow, t

\* The next UI frames are sent.
LEMMA RowMore ==
  ASSUME NEW s, NEW t, NEW way, NEW lo \in Int, NEW hi \in Int, IsList(s), IsList(t), InRow(s, way, lo, hi),
         \A i \in DOMAIN s : FrameOK(s[i]),
         \A i \in DOMAIN t : Ui(t[i]) /\ PlaceOf(t[i], way) = hi + i - 1
  PROVE  InRow(s \o t, way, lo, hi + Len(t))
<1> DEFINE u == s \o t
<1>1. /\ DOMAIN u = 1..(Len(s) + Len(t)) /\ DOMAIN s = 1..Len(s) /\ DOMAIN t = 1..Len(t)
      /\ Len(s) \in Nat /\ Len(t) \in Nat
      /\ \A i \in 1..(Len(s) + Len(t)) : u[i] = IF i <= Len(s) THEN s[i] ELSE t[i - Len(s)]
  BY ConcatList DEF IsList
<1> HIDE DEF u
<1>2. \A i \in DOMAIN s : Ui(s[i]) => PlaceOf(s[i], way) \in Int
  BY PlaceType DEF FrameOK, PlaceOf
<1>3. \A i \in DOMAIN s : i \in DOMAIN u /\ u[i] = s[i]
  BY <1>1
<1>4. \A i \in DOMAIN t : i + Len(s) \in DOMAIN u /\ u[i + Len(s)] = t[i]
  BY <1>1
<1>5. \A i \in DOMAIN u : \/ i \in DOMAIN s /\ i <= Len(s) /\ u[i] = s[i]
                          \/ i - Len(s) \in DOMAIN t /\ i > Len(s) /\ u[i] = t[i - Len(s)]
  BY <1>1
<1>6. \A i \in DOMAIN u : i > Len(s) => Ui(u[i]) /\ PlaceOf(u[i], way) = hi + (i - Len(s)) - 1
  BY <1>1, <1>5
<1>7. \A i \in DOMAIN u : i <= Len(s) => i \in DOMAIN s /\ u[i] = s[i]
  BY <1>1
<1>8. \A i \in DOMAIN u : Ui(u[i]) => lo <= PlaceOf(u[i], way) /\ PlaceOf(u[i], way) < hi + Len(t)
  <2> SUFFICES ASSUME NEW i \in DOMAIN u, Ui(u[i])
               PROVE  lo <= PlaceOf(u[i], way) /\ PlaceOf(u[i], way) < hi + Len(t)
    OBVIOUS
  <2>1. CASE i <= Len(s)
    <3>1. lo <= PlaceOf(s[i], way) /\ PlaceOf(s[i], way) < hi /\ PlaceOf(s[i], way) \in Int
      BY <1>2, <1>7, <2>1 DEF InRow
    <3> QED
      BY <1>1, <1>7, <2>1, <3>1
  <2>2. CASE i > Len(s)
    BY <1>1, <1>6, <2>2 DEF InRow
  <2> QED
    BY <1>1, <2>1, <2>2
<1>9. ASSUME NEW i \in DOMAIN u, NEW j \in DOMAIN u, i < j, Ui(u[i]), Ui(u[j])
      PROVE  PlaceOf(u[i], way) < PlaceOf(u[j], way)
  <2>1. CASE j <= Len(s)
    <3>1. i \in DOMAIN s /\ j \in DOMAIN s /\ u[i] = s[i] /\ u[j] = s[j]
      BY <1>1, <1>7, <1>9, <2>1
    <3> QED
      BY <1>9, <3>1 DEF InRow
  <2>2. CASE i <= Len(s) /\ j > Len(s)
    <3>1. PlaceOf(u[i], way) < hi /\ PlaceOf(u[i], way) \in Int
      BY <1>2, <1>7, <1>9, <2>2 DEF InRow
    <3> QED
      BY <1>1, <1>6, <2>2, <3>1
  <2>3. CASE i > Len(s)
    <3>1. i \in Int /\ j \in Int /\ Len(s) \in Int /\ j > Len(s)
      BY <1>1, <1>9, <2>3
    <3>2. PlaceOf(u[i], way) = hi + (i - Len(s)) - 1 /\ PlaceOf(u[j], way) = hi + (j - Len(s)) - 1
      BY <1>6, <2>3, <3>1
    <3> QED
      BY <1>9, <3>1, <3>2
  <2> QED
    BY <1>1, <2>1, <2>2, <2>3
<1>10. ASSUME NEW x \in Int, lo <= x, x < hi + Len(t)
       PROVE  \E i \in DOMAIN u : Ui(u[i]) /\ PlaceOf(u[i], way) = x
  <2>1. CASE x < hi
    BY <1>3, <1>10, <2>1 DEF InRow
  <2>2. CASE x >= hi
    <3>1. x - hi + 1 \in DOMAIN t
      BY <1>1, <1>10, <2>2
    <3>2. PlaceOf(t[x - hi + 1], way) = x /\ Ui(t[x - hi + 1])
      BY <3>1
    <3> QED
      BY <1>4, <3>1, <3>2
  <2> QED
    BY <2>1, <2>2
<1>11. lo <= hi + Len(t)
  BY <1>1 DEF InRow
<1> QED
  BY <1>8, <1>9, <1>10, <1>11 DEF InRow, u
-----------------------------------------------------------------------------
(* The SGSN sends.                                                         *)

\* The LLC entity and its next place.
LleOK(l) ==
  /\ l \in [vu_send : 0..(NuMod - 1), oc_send : Nat, vu_recv : 0..(NuMod - 1), oc_recv : Nat,
            last : 0..(NuMod - 1), dups : {l.dups}, xid : {l.xid}]
  /\ l.xid # NoXid => Len(NotL3(l.xid)) = 3
NextSent(l) == Place(l.vu_send, l.oc_send, "down")
\* Entity k comes from l by sending.
OnlySent(k, l) ==
  /\ k.vu_recv = l.vu_recv /\ k.oc_recv = l.oc_recv /\ k.last = l.last /\ k.dups = l.dups /\ k.xid = l.xid

\* The next number is the next place.
LEMMA TxNext ==
  ASSUME NEW l, LleOK(l)
  PROVE  /\ LleOK(gprs_llc_tx_ui(l)) /\ OnlySent(gprs_llc_tx_ui(l), l)
         /\ NextSent(gprs_llc_tx_ui(l)) = NextSent(l) + 1
<1> DEFINE vu == (l.vu_send + 1) % NuMod
           oc == IF vu + 1 = NuMod THEN l.oc_send + 1 ELSE l.oc_send
           k == [vu_send |-> vu, oc_send |-> oc, vu_recv |-> l.vu_recv, oc_recv |-> l.oc_recv,
                 last |-> l.last, dups |-> l.dups, xid |-> l.xid]
<1>1. gprs_llc_tx_ui(l) = k
  <2>1. gprs_llc_tx_ui(l) = [l EXCEPT !.vu_send = vu, !.oc_send = oc]
    BY DEF gprs_llc_tx_ui
  <2> HIDE DEF vu, oc
  <2> QED
    BY <2>1 DEF LleOK
<1>2. l.vu_send \in 0..(NuMod - 1) /\ l.oc_send \in Nat /\ NuMod \in Nat /\ NuMod > 1
  BY BearerAssumption DEF LleOK
<1>3. vu = (IF l.vu_send = NuMod - 1 THEN 0 ELSE l.vu_send + 1) /\ vu \in 0..(NuMod - 1) /\ oc \in Nat
  BY <1>2
<1>4. LleOK(k) /\ OnlySent(k, l)
  <2>1. /\ k.vu_send = vu /\ k.oc_send = oc /\ k.vu_recv = l.vu_recv /\ k.oc_recv = l.oc_recv
        /\ k.last = l.last /\ k.dups = l.dups /\ k.xid = l.xid
    OBVIOUS
  <2> HIDE DEF vu, oc
  <2>2. /\ l.vu_recv \in 0..(NuMod - 1) /\ l.oc_recv \in Nat /\ l.last \in 0..(NuMod - 1)
        /\ l.xid # NoXid => Len(NotL3(l.xid)) = 3
    BY DEF LleOK
  <2>3. k \in [vu_send : 0..(NuMod - 1), oc_send : Nat, vu_recv : 0..(NuMod - 1), oc_recv : Nat,
            last : 0..(NuMod - 1), dups : {k.dups}, xid : {k.xid}]
    BY <1>3, <2>1, <2>2
  <2> HIDE DEF k
  <2> QED
    BY <2>1, <2>2, <2>3 DEF LleOK, OnlySent
<1>5. Place(vu, oc, "down") = Place(l.vu_send, l.oc_send, "down") + 1
  <2> DEFINE nu == l.vu_send
             o == l.oc_send - (IF nu = NuMod - 1 THEN 1 ELSE 0)
             v == oc - (IF vu = NuMod - 1 THEN 1 ELSE 0)
  <2>1. Place(vu, oc, "down") = v * NuMod + vu /\ Place(nu, l.oc_send, "down") = o * NuMod + nu
    BY DEF Place
  <2> HIDE DEF vu
  <2>2. o \in Int /\ v = (IF nu = NuMod - 1 THEN o + 1 ELSE o) /\ vu = (IF nu = NuMod - 1 THEN 0 ELSE nu + 1)
    <3>1. vu + 1 = NuMod <=> vu = NuMod - 1
      BY <1>2, <1>3
    <3>2. CASE nu = NuMod - 1
      BY <1>2, <1>3, <3>1, <3>2
    <3>3. CASE nu # NuMod - 1
      BY <1>2, <1>3, <3>1, <3>3
    <3> QED
      BY <3>2, <3>3
  <2> HIDE DEF o, v
  <2>3. v * NuMod + vu = IF nu = NuMod - 1 THEN (o + 1) * NuMod + 0 ELSE o * NuMod + (nu + 1)
    BY <2>2
  <2>4. v * NuMod + vu = (o * NuMod + nu) + 1
    BY <1>2, <2>2, <2>3, PlaceNext
  <2> QED
    BY <2>1, <2>4
<1> QED
  BY <1>1, <1>4, <1>5 DEF NextSent

\* What was sent when entity l had st to do: its UI frames have the next places.
Sending(st, l) ==
  /\ st = [failed |-> st.failed, lle |-> st.lle, frames |-> st.frames]
  /\ LleOK(st.lle) /\ OnlySent(st.lle, l)
  /\ IsList(st.frames)
  /\ \A i \in DOMAIN st.frames :
       Ui(st.frames[i]) /\ FrameOK(st.frames[i]) /\ PlaceOf(st.frames[i], "down") = NextSent(l) + i - 1
  /\ NextSent(st.lle) = NextSent(l) + Len(st.frames)

\* A segment is refused, or sent.
LEMMA TxUiSending ==
  ASSUME NEW st, NEW l, NEW pdu, LleOK(l), Sending(st, l) PROVE Sending(TxUi(st, pdu), l)
<1>1. CASE st.failed \/ TooLong(pdu)
  <2>1. TxUi(st, pdu) = [failed |-> TRUE, lle |-> st.lle, frames |-> st.frames]
    BY <1>1 DEF TxUi, Sending
  <2> QED
    BY <2>1 DEF Sending
<1>2. CASE ~(st.failed \/ TooLong(pdu))
  <2> DEFINE f == UiFrame(st.lle.vu_send, st.lle.oc_send, pdu)
             fs == Append(st.frames, f)
  <2>1. TxUi(st, pdu) = [failed |-> FALSE, lle |-> gprs_llc_tx_ui(st.lle), frames |-> fs]
    BY <1>2 DEF TxUi
  <2>2. /\ IsList(fs) /\ Len(fs) = Len(st.frames) + 1 /\ DOMAIN fs = 1..(Len(st.frames) + 1)
        /\ \A i \in 1..(Len(st.frames) + 1) : fs[i] = IF i <= Len(st.frames) THEN st.frames[i] ELSE f
        /\ Len(st.frames) \in Nat /\ DOMAIN st.frames = 1..Len(st.frames)
    BY AppendList DEF Sending, IsList
  <2>3. Ui(f) /\ FrameOK(f) /\ PlaceOf(f, "down") = NextSent(st.lle)
    BY DEF Sending, LleOK, UiFrame, Ui, FrameOK, PlaceOf, NextSent
  <2>4. NextSent(l) \in Int
    BY PlaceType DEF NextSent, LleOK
  <2> HIDE DEF f, fs
  <2>5. \A i \in DOMAIN fs : Ui(fs[i]) /\ FrameOK(fs[i]) /\ PlaceOf(fs[i], "down") = NextSent(l) + i - 1
    BY <2>2, <2>3, <2>4 DEF Sending
  <2>6. LleOK(st.lle) /\ OnlySent(st.lle, l)
    BY DEF Sending
  <2>7. /\ LleOK(gprs_llc_tx_ui(st.lle)) /\ OnlySent(gprs_llc_tx_ui(st.lle), l)
        /\ NextSent(gprs_llc_tx_ui(st.lle)) = NextSent(st.lle) + 1
    BY <2>6, TxNext DEF OnlySent
  <2>8. NextSent(gprs_llc_tx_ui(st.lle)) = NextSent(l) + Len(fs)
    BY <2>2, <2>4, <2>7 DEF Sending
  <2> QED
    BY <2>1, <2>2, <2>5, <2>7, <2>8 DEF Sending
<1> QED
  BY <1>1, <1>2

\* The n-th value of the recursion in Transmitted, when the earlier ones are those of g.
TxStep(g, segs, n) ==
  IF n = 0 THEN [failed |-> FALSE, lle |-> lle, frames |-> <<>>] ELSE TxUi(g[n - 1], segs[n])

\* There is a function that satisfies the recursion, up to every m.
LEMMA TxExists ==
  ASSUME NEW segs
  PROVE  \A m \in Nat : \E g : g = [n \in 0..m |-> TxStep(g, segs, n)]
<1> DEFINE I == {m \in Nat : \E g : g = [n \in 0..m |-> TxStep(g, segs, n)]}
<1>1. 0 \in I
  <2> DEFINE z == [n \in 0..0 |-> [failed |-> FALSE, lle |-> lle, frames |-> <<>>]]
  <2>1. z = [n \in 0..0 |-> TxStep(z, segs, n)]
    BY DEF TxStep
  <2> QED
    BY <2>1
<1>2. ASSUME NEW m \in Nat, m \in I PROVE m + 1 \in I
  <2>1. PICK g : g = [n \in 0..m |-> TxStep(g, segs, n)]
    BY <1>2
  <2> DEFINE h == [n \in 0..(m + 1) |-> IF n = m + 1 THEN TxStep(g, segs, n) ELSE g[n]]
  <2>2. ASSUME NEW n \in 0..(m + 1) PROVE h[n] = TxStep(h, segs, n)
    <3>1. n # 0 => h[n - 1] = g[n - 1]
      OBVIOUS
    <3>2. n # m + 1 => g[n] = TxStep(g, segs, n)
      BY <2>1
    <3>3. TxStep(h, segs, n) = TxStep(g, segs, n)
      BY <3>1 DEF TxStep
    <3> QED
      BY <3>2, <3>3
  <2>3. h = [n \in 0..(m + 1) |-> TxStep(h, segs, n)]
    BY <2>2
  <2> HIDE DEF h
  <2> QED
    BY <2>3
<1> HIDE DEF I
<1>3. \A m \in Nat : m \in I
  BY <1>1, <1>2, SetInduction
<1> QED
  BY <1>3 DEF I

\* All segments, up to one that is refused.
LEMMA TransmittedSending ==
  ASSUME NEW segs, Len(segs) \in Nat, LleOK(lle) PROVE Sending(Transmitted(segs), lle)
<1> DEFINE tx == CHOOSE g : g = [n \in 0..Len(segs) |-> TxStep(g, segs, n)]
<1>1. tx = [n \in 0..Len(segs) |-> TxStep(tx, segs, n)]
  BY TxExists
<1>2. Transmitted(segs) = tx[Len(segs)]
  BY DEF Transmitted, TxStep
<1> HIDE DEF tx
<1> DEFINE I == {n \in Nat : n <= Len(segs) => Sending(tx[n], lle)}
<1>3. 0 \in I
  <2>1. tx[0] = [failed |-> FALSE, lle |-> lle, frames |-> <<>>]
    BY <1>1 DEF TxStep
  <2>2. NextSent(lle) \in Int
    BY PlaceType DEF NextSent, LleOK
  <2>3. IsList(<<>>) /\ Len(<<>>) = 0 /\ DOMAIN <<>> = {}
    BY DEF IsList
  <2> DEFINE st == [failed |-> FALSE, lle |-> lle, frames |-> <<>>]
  <2>4. st.failed = FALSE /\ st.lle = lle /\ st.frames = <<>> /\ st = [failed |-> st.failed, lle |-> st.lle, frames |-> st.frames]
    OBVIOUS
  <2> HIDE DEF st
  <2>5. Sending(st, lle)
    BY <2>2, <2>3, <2>4 DEF Sending, OnlySent
  <2> QED
    BY <2>1, <2>5 DEF st
<1>4. ASSUME NEW n \in Nat, n \in I PROVE n + 1 \in I
  <2>1. SUFFICES ASSUME n + 1 <= Len(segs) PROVE Sending(tx[n + 1], lle)
    OBVIOUS
  <2>2. tx[n + 1] = TxUi(tx[n], segs[n + 1])
    <3>1. n + 1 \in 0..Len(segs) /\ n + 1 # 0 /\ (n + 1) - 1 = n
      BY <2>1
    <3>2. tx[n + 1] = TxStep(tx, segs, n + 1)
      BY <1>1, <3>1
    <3> QED
      BY <3>1, <3>2 DEF TxStep
  <2>3. Sending(tx[n], lle)
    BY <1>4, <2>1
  <2> QED
    BY <2>2, <2>3, TxUiSending
<1> HIDE DEF I
<1>5. \A n \in Nat : n \in I
  BY <1>3, <1>4, SetInduction
<1> QED
  BY <1>2, <1>5 DEF I
-----------------------------------------------------------------------------
(* The parts of the state.                                                 *)

MsOK(m) ==
  m \in [vu : 0..(NuMod - 1), oc_send : Nat, vur : 0..(NuMod - 1), oc_recv : Nat, npdu : {m.npdu},
         ents : {m.ents}, req : {m.req}, reas : {m.reas}, got : {m.got}]
ObsOK(o) ==
  o \in [sent : {o.sent}, offered : {o.offered}, delivered : {o.delivered}, refused : Nat,
         ms_refused : {o.ms_refused}, restarts : Nat, faults : {o.faults}, stale : {o.stale}]
CfgOK(c) ==
  /\ {"acts", "dacts", "ul", "dl", "props", "other", "loss", "dup", "restart"} \subseteq DOMAIN c
  /\ c.acts \in Seq(Nsapis) /\ c.dacts \in Seq(Nsapis) /\ c.ul \in Seq(NpduType) /\ c.dl \in Seq(NpduType)
  /\ c.other \in Seq({"sabm", "null"})
SneOK(s) ==
  /\ s = [n \in Nsapis |-> s[n]]
  /\ \A n \in Nsapis : s[n].on => s[n] \in [on : {TRUE}, tx_npdu_nr : 0..(NpduMod - 1), defrag : {s[n].defrag}]
Frames(s) == IsList(s) /\ \A i \in DOMAIN s : FrameOK(s[i])

\* The next places: what the SGSN expects, what the MS sends, what the MS expects.
NextRecv(l) == Place(l.vu_recv, l.oc_recv, "up")
MsNextSent(m) == Place(m.vu, m.oc_send, "up")
MsNextRecv(m) == Place(m.vur, m.oc_recv, "up")
UpRow(u, l, m) == InRow(u, "up", NextRecv(l), MsNextSent(m))
\* The MS refuses the last frame of a cycle, and expects it still when the next one comes.
DownRow(d, l, m) ==
  \/ InRow(d, "down", MsNextRecv(m), NextSent(l))
  \/ m.vur = NuMod - 1 /\ InRow(d, "down", MsNextRecv(m) + 1, NextSent(l))
Undisturbed(o) == o.faults \cap {"lost", "dup"} = {}
InStep(u, d, l, m, o) ==
  Undisturbed(o) =>
    /\ DownRow(d, l, m) /\ o.ms_refused \subseteq {NuMod - 1}
    /\ o.restarts = 0 => UpRow(u, l, m) /\ o.refused = 0
Inv ==
  /\ CfgOK(cfg) /\ LleOK(lle) /\ SneOK(sne) /\ Frames(up) /\ Frames(down) /\ MsOK(ms) /\ ObsOK(obs)
  /\ InStep(up, down, lle, ms, obs)

\* The next places are integers.
LEMMA PlacesInt ==
  ASSUME NEW l, NEW m, LleOK(l), MsOK(m)
  PROVE  NextRecv(l) \in Int /\ NextSent(l) \in Int /\ MsNextSent(m) \in Int /\ MsNextRecv(m) \in Int
  BY PlaceType DEF NextRecv, NextSent, MsNextSent, MsNextRecv, LleOK, MsOK

\* Frames under way when one comes, one is sent or several are.
LEMMA FramesTail == ASSUME NEW s, Frames(s), s # <<>> PROVE Frames(Tail(s)) /\ FrameOK(Head(s))
<1>1. /\ IsList(Tail(s)) /\ DOMAIN Tail(s) = 1..(Len(s) - 1) /\ \A i \in 1..(Len(s) - 1) : Tail(s)[i] = s[i + 1]
      /\ Head(s) = s[1] /\ Len(s) > 0 /\ Len(s) \in Nat /\ DOMAIN s = 1..Len(s)
  BY TailList DEF Frames, IsList
<1>2. \A i \in 1..(Len(s) - 1) : i + 1 \in DOMAIN s
  BY <1>1
<1>3. 1 \in DOMAIN s
  BY <1>1
<1> QED
  BY <1>1, <1>2, <1>3 DEF Frames
LEMMA FramesConcat == ASSUME NEW s, NEW t, Frames(s), Frames(t) PROVE Frames(s \o t)
<1>1. /\ IsList(s \o t) /\ DOMAIN (s \o t) = 1..(Len(s) + Len(t))
      /\ \A i \in 1..(Len(s) + Len(t)) : (s \o t)[i] = IF i <= Len(s) THEN s[i] ELSE t[i - Len(s)]
  BY ConcatList DEF Frames
<1>2. Len(s) \in Nat /\ Len(t) \in Nat /\ DOMAIN s = 1..Len(s) /\ DOMAIN t = 1..Len(t)
  BY DEF Frames, IsList
<1>3. \A i \in 1..(Len(s) + Len(t)) : IF i <= Len(s) THEN i \in DOMAIN s ELSE i - Len(s) \in DOMAIN t
  BY <1>2
<1> QED
  BY <1>1, <1>3 DEF Frames
LEMMA FramesAppend == ASSUME NEW s, NEW f, Frames(s), FrameOK(f) PROVE Frames(Append(s, f))
<1>1. /\ IsList(Append(s, f)) /\ DOMAIN Append(s, f) = 1..(Len(s) + 1)
      /\ \A i \in 1..(Len(s) + 1) : Append(s, f)[i] = IF i <= Len(s) THEN s[i] ELSE f
  BY AppendList DEF Frames
<1>2. Len(s) \in Nat /\ DOMAIN s = 1..Len(s)
  BY DEF Frames, IsList
<1>3. \A i \in 1..(Len(s) + 1) : i <= Len(s) => i \in DOMAIN s
  BY <1>2
<1> QED
  BY <1>1, <1>3 DEF Frames
LEMMA FramesOne == ASSUME NEW f, FrameOK(f) PROVE Frames(<<f>>)
<1>1. <<f>> \in Seq({f}) /\ DOMAIN <<f>> = {1} /\ <<f>>[1] = f
  OBVIOUS
<1> QED
  BY <1>1, SeqList DEF Frames
LEMMA XidFrameOK == ASSUME NEW c, NEW x PROVE FrameOK(XidFrame(c, x)) /\ ~Ui(XidFrame(c, x))
  BY DEF FrameOK, Ui, XidFrame
LEMMA OtherFrameOK == ASSUME NEW t \in {"sabm", "null", "dm"} PROVE FrameOK(OtherFrame(t)) /\ ~Ui(OtherFrame(t))
  BY DEF FrameOK, Ui, OtherFrame

\* What is observed of a step: nothing, or faults.
Calm(p, o) ==
  /\ ObsOK(p) /\ p.refused = o.refused /\ p.ms_refused = o.ms_refused /\ p.restarts = o.restarts
  /\ o.faults \subseteq p.faults
LEMMA ObsFaults ==
  ASSUME NEW o, ObsOK(o), NEW F, o.faults \subseteq F
  PROVE  Calm([o EXCEPT !.faults = F], o) /\ [o EXCEPT !.faults = F].faults = F
  BY DEF ObsOK, Calm
LEMMA ObsSent == ASSUME NEW o, ObsOK(o), NEW x PROVE Calm([o EXCEPT !.sent = x], o)
  BY DEF ObsOK, Calm
LEMMA ObsOffered == ASSUME NEW o, ObsOK(o), NEW x PROVE Calm([o EXCEPT !.offered = x], o)
  BY DEF ObsOK, Calm
LEMMA ObsDelivered == ASSUME NEW o, ObsOK(o), NEW x, NEW y PROVE Calm([o EXCEPT !.delivered = x, !.stale = y], o)
  BY DEF ObsOK, Calm
LEMMA ObsSame == ASSUME NEW o, ObsOK(o) PROVE Calm(o, o)
  BY DEF Calm
\* A calm step stays in step when the rows do.
LEMMA CalmStep ==
  ASSUME NEW u, NEW d, NEW l, NEW m, NEW o, NEW v, NEW e, NEW k, NEW n, NEW p,
         InStep(u, d, l, m, o), Calm(p, o),
         DownRow(d, l, m) => DownRow(e, k, n), UpRow(u, l, m) => UpRow(v, k, n)
  PROVE  InStep(v, e, k, n, p)
<1>1. Undisturbed(p) => Undisturbed(o)
  BY DEF Undisturbed, Calm
<1> QED
  BY <1>1 DEF InStep, Calm
\* A frame that is lost or repeated ends it.
LEMMA Disturbed ==
  ASSUME NEW u, NEW d, NEW l, NEW m, NEW o, o.faults \cap {"lost", "dup"} # {} PROVE InStep(u, d, l, m, o)
  BY DEF InStep, Undisturbed
-----------------------------------------------------------------------------
(* Steps of the SGSN.                                                      *)

\* What is left of the scenario is a scenario.
LEMMA CfgTails ==
  ASSUME NEW c, CfgOK(c)
  PROVE  /\ c.acts # <<>> => CfgOK([c EXCEPT !.acts = Tail(@)]) /\ Head(c.acts) \in Nsapis
         /\ c.dacts # <<>> => CfgOK([c EXCEPT !.dacts = Tail(@)]) /\ Head(c.dacts) \in Nsapis
         /\ c.ul # <<>> => CfgOK([c EXCEPT !.ul = Tail(@)]) /\ Head(c.ul) \in NpduType
         /\ c.dl # <<>> => CfgOK([c EXCEPT !.dl = Tail(@)]) /\ Head(c.dl) \in NpduType
         /\ CfgOK([c EXCEPT !.props = Tail(@)])
         /\ c.other # <<>> => CfgOK([c EXCEPT !.other = Tail(@)]) /\ Head(c.other) \in {"sabm", "null"}
         /\ CfgOK([c EXCEPT !.loss = @ - 1]) /\ CfgOK([c EXCEPT !.dup = @ - 1]) /\ CfgOK([c EXCEPT !.restart = @ - 1])
<1>1. c.acts # <<>> => CfgOK([c EXCEPT !.acts = Tail(@)]) /\ Head(c.acts) \in Nsapis
  BY DEF CfgOK
<1>2. c.dacts # <<>> => CfgOK([c EXCEPT !.dacts = Tail(@)]) /\ Head(c.dacts) \in Nsapis
  BY DEF CfgOK
<1>3. c.ul # <<>> => CfgOK([c EXCEPT !.ul = Tail(@)]) /\ Head(c.ul) \in NpduType
  BY DEF CfgOK
<1>4. c.dl # <<>> => CfgOK([c EXCEPT !.dl = Tail(@)]) /\ Head(c.dl) \in NpduType
  BY DEF CfgOK
<1>5. CfgOK([c EXCEPT !.props = Tail(@)])
  BY DEF CfgOK
<1>6. c.other # <<>> => CfgOK([c EXCEPT !.other = Tail(@)]) /\ Head(c.other) \in {"sabm", "null"}
  BY DEF CfgOK
<1>7. CfgOK([c EXCEPT !.loss = @ - 1]) /\ CfgOK([c EXCEPT !.dup = @ - 1]) /\ CfgOK([c EXCEPT !.restart = @ - 1])
  BY DEF CfgOK
<1> QED
  BY <1>1, <1>2, <1>3, <1>4, <1>5, <1>6, <1>7

\* A request of the SGSN has three fields besides that of SNDCP.
LEMMA RequestOK == ASSUME NEW l3 PROVE Len(NotL3(gprs_llc_generate_xid(l3))) = 3
<1> DEFINE a == [type |-> XidL3, data |-> l3]
           b == [type |-> XidN201I, data |-> Octets(2, N201_I)]
           c == [type |-> XidN201U, data |-> Octets(2, N201_U)]
           d == [type |-> XidVersion, data |-> <<0>>]
           X == {a, b, c, d}
           s == gprs_llc_generate_xid(l3)
           S == {x \in Range(s) : x.type # XidL3}
           t == Kept(s, S)
<1>1. a.type = 11 /\ b.type = 6 /\ c.type = 5 /\ d.type = 0
  BY DEF XidL3, XidN201I, XidN201U, XidVersion
<1>2. s = (IF l3 = <<>> THEN <<>> ELSE <<a>>) \o <<b, c, d>>
  BY DEF gprs_llc_generate_xid
<1> HIDE DEF a, b, c, d
<1> DEFINE r == <<b, c, d>>
<1>3. <<>> \o r = r /\ r \in Seq(X) /\ DOMAIN r = 1..3 /\ r[1] = b /\ r[2] = c /\ r[3] = d /\ a \in X
  OBVIOUS
<1>30. r = Append(Append(Append(<<>>, b), c), d)
  OBVIOUS
<1> HIDE DEF s, r, X
<1>31. s = IF l3 = <<>> THEN r ELSE <<a>> \o r
  BY <1>2, <1>3 DEF r
<1>32. b \in Range(r) /\ c \in Range(r) /\ d \in Range(r)
  BY <1>3 DEF Range
<1>4. s \in Seq(X) /\ b \in Range(s) /\ c \in Range(s) /\ d \in Range(s)
  <2>1. CASE l3 = <<>>
    BY <1>3, <1>31, <1>32, <2>1
  <2>2. CASE l3 # <<>>
    <3>1. s = <<a>> \o r
      BY <1>31, <2>2
    <3>2. s \in Seq(X) /\ Range(s) = Range(r) \cup {a}
      BY <1>3, <3>1, ConsProperties
    <3> QED
      BY <1>32, <3>2
  <2> QED
    BY <2>1, <2>2
<1>5. b \in S /\ c \in S /\ d \in S /\ a \notin S
  BY <1>1, <1>4 DEF XidL3
<1>6. t \in Seq(X) /\ \A x \in Range(t) : x \in S
  BY <1>4, KeptProperties
<1>7. Count(t, S) = Len(t)
  <2>1. DOMAIN t = 1..Len(t) /\ Len(t) \in Nat
    BY <1>6
  <2>2. \A i \in DOMAIN t : t[i] \in S
    BY <1>6 DEF Range
  <2>3. {i \in DOMAIN t : t[i] \in S} = 1..Len(t)
    BY <2>1, <2>2
  <2>4. Cardinality(1..Len(t)) = Len(t)
    <3>1. 1 \in Int /\ Len(t) \in Int /\ (1 > Len(t) => Len(t) = 0) /\ Len(t) - 1 + 1 = Len(t)
      BY <2>1
    <3> HIDE DEF t
    <3> QED
      BY <3>1, FS_Interval
  <2> QED
    BY <2>3, <2>4 DEF Count
<1>8. Count(t, S) = Count(s, S)
  <2>1. S \cap S = S
    OBVIOUS
  <2> QED
    BY <1>4, <2>1, CountKept
<1> HIDE DEF S, t
<1>9. Count(r, S) = 3
  <2> DEFINE e == <<>>
             r1 == Append(e, b)
             r2 == Append(r1, c)
  <2>1. e \in Seq(X) /\ b \in X /\ c \in X /\ d \in X /\ Count(e, S) = 0
    BY CountEmpty DEF X
  <2> HIDE DEF e
  <2>2. r1 \in Seq(X) /\ r2 \in Seq(X)
    BY <2>1
  <2>3. Count(r1, S) = 1
    BY <1>5, <2>1, CountAppend
  <2> HIDE DEF r1
  <2>4. Count(r2, S) = 2
    BY <1>5, <2>1, <2>2, <2>3, CountAppend
  <2> HIDE DEF r2
  <2>5. Count(Append(r2, d), S) = 3
    BY <1>5, <2>1, <2>2, <2>4, CountAppend
  <2> QED
    BY <1>30, <2>5 DEF r1, r2, e
<1>10. Count(<<a>> \o r, S) = 3
  BY <1>3, <1>5, <1>9, CountCons
<1> QED
  BY <1>31, <1>7, <1>8, <1>9, <1>10 DEF NotL3, t, S, s

\* The rows do not see the saved request.
LEMMA LleXid ==
  ASSUME NEW l, LleOK(l), NEW x, x # NoXid => Len(NotL3(x)) = 3
  PROVE  /\ LleOK([l EXCEPT !.xid = x]) /\ NextRecv([l EXCEPT !.xid = x]) = NextRecv(l)
         /\ NextSent([l EXCEPT !.xid = x]) = NextSent(l)
<1> DEFINE k == [l EXCEPT !.xid = x]
<1>1. /\ k \in [vu_send : 0..(NuMod - 1), oc_send : Nat, vu_recv : 0..(NuMod - 1), oc_recv : Nat,
                last : 0..(NuMod - 1), dups : {k.dups}, xid : {k.xid}]
      /\ k.xid = x /\ k.vu_send = l.vu_send /\ k.oc_send = l.oc_send /\ k.vu_recv = l.vu_recv /\ k.oc_recv = l.oc_recv
  BY DEF LleOK
<1> HIDE DEF k
<1> QED
  BY <1>1 DEF LleOK, NextRecv, NextSent, k

\* sndcp_sm_activate_ind and the request that follows it.
LEMMA ActivateStep == ASSUME Inv, Activate PROVE Inv'
<1> DEFINE n == Head(cfg.acts)
           req == gprs_llc_generate_xid(gprs_llc_gen_sndcp_xid(n))
           f == XidFrame(TRUE, gprs_llc_compile_xid(req))
           F == obs.faults \cup (IF comp.proto \o comp.data = <<>> THEN {} ELSE {"wiped"})
                           \cup (IF Forgotten(n) = {} THEN {} ELSE {"forgotten"})
<1>1. /\ cfg' = [cfg EXCEPT !.acts = Tail(@)] /\ cfg.acts # <<>>
      /\ sne' = IF sne[n].on THEN sne ELSE [sne EXCEPT ![n] = NewSne]
      /\ lle' = [lle EXCEPT !.xid = req] /\ down' = Append(down, f)
      /\ obs' = [obs EXCEPT !.faults = F]
      /\ up' = up /\ ms' = ms
  BY DEF Activate, sndcp_sm_activate_ind, sndcp_sn_xid_req, gprs_ll_xid_req
<1>2. Len(NotL3(req)) = 3
  BY RequestOK
<1>3. obs.faults \subseteq F
  OBVIOUS
<1>4. FrameOK(f) /\ ~Ui(f)
  BY XidFrameOK
<1> HIDE DEF req, f, F
<1>5. LleOK(lle') /\ NextRecv(lle') = NextRecv(lle) /\ NextSent(lle') = NextSent(lle)
  BY <1>1, <1>2, LleXid DEF Inv
<1>6. Calm(obs', obs)
  BY <1>1, <1>3, ObsFaults DEF Inv
<1>7. Frames(down')
  BY <1>1, <1>4, FramesAppend DEF Inv
<1>8. CfgOK(cfg') /\ n \in Nsapis
  BY <1>1, CfgTails DEF Inv
<1> HIDE DEF n
<1>9. SneOK(sne')
  <2>1. NewSne \in [on : {TRUE}, tx_npdu_nr : 0..(NpduMod - 1), defrag : {NewSne.defrag}]
    BY BearerAssumption DEF NewSne
  <2>2. SneOK(sne)
    BY DEF Inv
  <2>3. CASE ~sne[n].on
    <3>1. sne' = [k \in Nsapis |-> IF k = n THEN NewSne ELSE sne[k]]
      BY <1>1, <1>8, <2>2, <2>3 DEF SneOK
    <3> QED
      BY <2>1, <2>2, <3>1 DEF SneOK
  <2> QED
    BY <1>1, <2>2, <2>3
<1>10. IsList(down)
  BY DEF Inv, Frames
<1>11. DownRow(down, lle, ms) => DownRow(down', lle', ms')
  BY <1>1, <1>4, <1>5, <1>10, RowOther DEF DownRow
<1>12. UpRow(up, lle, ms) => UpRow(up', lle', ms')
  BY <1>1, <1>5 DEF UpRow
<1>13. InStep(up', down', lle', ms', obs')
  BY <1>6, <1>11, <1>12, CalmStep DEF Inv
<1> QED
  BY <1>1, <1>5, <1>6, <1>7, <1>8, <1>9, <1>13 DEF Inv, Calm

\* The end of an NSAPI.
LEMMA DeactivateStep == ASSUME Inv, sndcp_sm_deactivate_ind PROVE Inv'
<1> DEFINE n == Head(cfg.dacts)
           F == obs.faults \cup {"deactivated"}
<1>1. /\ cfg' = [cfg EXCEPT !.dacts = Tail(@)] /\ cfg.dacts # <<>>
      /\ sne' = [sne EXCEPT ![n] = NoSne]
      /\ obs' = [obs EXCEPT !.faults = F]
      /\ up' = up /\ ms' = ms /\ down' = down /\ lle' = lle
  BY DEF sndcp_sm_deactivate_ind
<1>2. obs.faults \subseteq F
  OBVIOUS
<1> HIDE DEF F
<1>3. Calm(obs', obs)
  BY <1>1, <1>2, ObsFaults DEF Inv
<1>4. CfgOK(cfg') /\ n \in Nsapis
  BY <1>1, CfgTails DEF Inv
<1> HIDE DEF n
<1>5. SneOK(sne')
  <2>1. ~NoSne.on
    BY DEF NoSne
  <2>2. SneOK(sne)
    BY DEF Inv
  <2>3. sne' = [k \in Nsapis |-> IF k = n THEN NoSne ELSE sne[k]]
    BY <1>1, <1>4, <2>2 DEF SneOK
  <2> QED
    BY <2>1, <2>2, <2>3 DEF SneOK
<1>6. InStep(up', down', lle', ms', obs')
  BY <1>1, <1>3, CalmStep DEF Inv
<1> QED
  BY <1>1, <1>3, <1>4, <1>5, <1>6 DEF Inv, Calm
\* A function on 1..m is a list.
LEMMA FunList ==
  ASSUME NEW m \in Nat, NEW s, s = [i \in 1..m |-> s[i]] PROVE IsList(s) /\ Len(s) = m
<1> DEFINE S == {s[i] : i \in 1..m}
<1>1. s \in Seq(S)
  OBVIOUS
<1>2. Len(s) \in Nat /\ DOMAIN s = 1..Len(s) /\ DOMAIN s = 1..m
  BY <1>1
<1>3. Len(s) = m
  BY <1>2
<1> QED
  BY <1>3 DEF IsList

\* Compression keeps the number of octets.
LEMMA CompressedList ==
  ASSUME NEW list, NEW n, NEW gain, NEW data, IsList(data) PROVE IsList(Compressed(list, n, data, gain).data)
<1> DEFINE x == gprs_sndcp_comp_by_nsapi(list, n)
           idx == IF gain THEN Len(list[x].comp) ELSE 0
           d == Compressed(list, n, data, gain).data
<1>1. d = data \/ d = Apply(data, Label(list[x], idx))
  <2>1. x = 0 => d = data
    BY DEF Compressed, CompressedAt
  <2>2. x # 0 => d = CompressedBy(list[x], data, idx).data
    BY DEF Compressed, CompressedAt
  <2>3. CompressedBy(list[x], data, idx).data = IF idx = 0 THEN data ELSE Apply(data, Label(list[x], idx))
    BY DEF CompressedBy
  <2> HIDE DEF d, x, idx
  <2> QED
    BY <2>1, <2>2, <2>3
<1> HIDE DEF x, idx, d
<1>2. ASSUME NEW label PROVE IsList(Apply(data, label))
  <2>1. DOMAIN data = 1..Len(data) /\ Len(data) \in Nat
    BY DEF IsList
  <2> DEFINE t == Apply(data, label)
  <2>2. t = [i \in 1..Len(data) |-> t[i]]
    BY <2>1 DEF Apply
  <2> HIDE DEF t
  <2> QED
    BY <2>1, <2>2, FunList DEF t
<1> QED
  BY <1>1, <1>2 DEF d

\* The segments of an N-PDU.
LEMMA SegmentsList ==
  ASSUME NEW data, IsList(data), NEW a \in Nat, NEW b \in Nat, b > 0, NEW n, NEW npdu, NEW mod, NEW pc, NEW dc
  PROVE  IsList(Segments(n, npdu, Cut(data, a, b), mod, pc, dc))
<1> DEFINE k == IF Len(data) <= a THEN 1 ELSE 1 + (Len(data) - a + b - 1) \div b
           c == Cut(data, a, b)
           s == Segments(n, npdu, c, mod, pc, dc)
<1>1. k \in Nat
  <2>1. Len(data) \in Nat
    BY DEF IsList
  <2>2. Len(data) > a => Len(data) - a + b - 1 \in Nat
    BY <2>1
  <2>3. ASSUME NEW x \in Nat PROVE x \div b \in Nat
    OBVIOUS
  <2> DEFINE x == Len(data) - a + b - 1
  <2>4. Len(data) > a => x \div b \in Nat
    BY <2>2, <2>3
  <2> HIDE DEF x
  <2>5. k = IF Len(data) <= a THEN 1 ELSE 1 + x \div b
    BY DEF x
  <2> HIDE DEF k
  <2> QED
    BY <2>1, <2>4, <2>5
<1>2. DOMAIN c = 1..k
  BY DEF Cut
<1> HIDE DEF k, c
<1>3. s = [i \in 1..k |-> s[i]]
  BY <1>2 DEF Segments
<1> HIDE DEF s
<1> QED
  BY <1>1, <1>3, FunList DEF s, c
LEMMA NpduList == ASSUME NEW dir, NEW id, NEW len \in Nat PROVE IsList(Npdu(dir, id, len))
<1> DEFINE s == Npdu(dir, id, len)
<1>1. s = [i \in 1..len |-> s[i]]
  BY DEF Npdu
<1> HIDE DEF s
<1> QED
  BY <1>1, FunList DEF s
\* An N-PDU number of the SGSN stays below its modulus.
LEMMA SneSent ==
  ASSUME NEW n \in Nsapis, SneOK(sne), sne[n].on
  PROVE  SneOK([sne EXCEPT ![n].tx_npdu_nr = (@ + 1) % NpduMod])
<1> DEFINE x == (sne[n].tx_npdu_nr + 1) % NpduMod
           e == [sne[n] EXCEPT !.tx_npdu_nr = x]
           s == [sne EXCEPT ![n].tx_npdu_nr = (@ + 1) % NpduMod]
<1>1. sne[n] \in [on : {TRUE}, tx_npdu_nr : 0..(NpduMod - 1), defrag : {sne[n].defrag}]
  BY DEF SneOK
<1>2. x \in 0..(NpduMod - 1)
  <2>0. NpduMod \in Nat /\ NpduMod > 0
    BY BearerAssumption
  <2>1. sne[n].tx_npdu_nr \in 0..(NpduMod - 1) /\ NpduMod \in Nat /\ NpduMod > 0
    BY <1>1, <2>0
  <2>2. sne[n].tx_npdu_nr + 1 \in Nat
    BY <2>1
  <2> QED
    BY <2>1, <2>2
<1>3. s = [sne EXCEPT ![n] = e]
  BY DEF SneOK
<1> HIDE DEF x, s
<1>4. e \in [on : {TRUE}, tx_npdu_nr : 0..(NpduMod - 1), defrag : {e.defrag}]
  BY <1>1, <1>2
<1> HIDE DEF e
<1>5. s = [k \in Nsapis |-> IF k = n THEN e ELSE sne[k]]
  BY <1>3 DEF SneOK
<1>6. SneOK(s)
  BY <1>4, <1>5 DEF SneOK
<1> QED
  BY <1>6 DEF s

\* Frames that the SGSN sends are the next of the row.
LEMMA DownSends ==
  ASSUME NEW end, Inv, Sending(end, lle), NEW m, m = ms
  PROVE  /\ Frames(down \o end.frames) /\ LleOK(end.lle) /\ NextRecv(end.lle) = NextRecv(lle)
         /\ DownRow(down, lle, m) => DownRow(down \o end.frames, end.lle, m)
<1> DEFINE fs == end.frames
           k == end.lle
<1>1. /\ LleOK(k) /\ OnlySent(k, lle) /\ IsList(fs) /\ NextSent(k) = NextSent(lle) + Len(fs)
      /\ \A i \in DOMAIN fs : Ui(fs[i]) /\ FrameOK(fs[i]) /\ PlaceOf(fs[i], "down") = NextSent(lle) + i - 1
  BY DEF Sending
<1> HIDE DEF fs, k
<1>2. Frames(down) /\ IsList(down) /\ \A i \in DOMAIN down : FrameOK(down[i])
  BY DEF Inv, Frames
<1>3. Frames(down \o fs)
  BY <1>1, <1>2, FramesConcat DEF Frames
<1>4. NextSent(lle) \in Int /\ MsNextRecv(m) \in Int
  BY PlacesInt DEF Inv
<1>5. ASSUME NEW lo \in Int, InRow(down, "down", lo, NextSent(lle)) PROVE InRow(down \o fs, "down", lo, NextSent(k))
  BY <1>1, <1>2, <1>4, <1>5, RowMore
<1>6. DownRow(down, lle, m) => DownRow(down \o fs, k, m)
  BY <1>4, <1>5 DEF DownRow
<1> QED
  BY <1>1, <1>3, <1>6 DEF fs, k, OnlySent, NextRecv

\* A G-PDU of the GGSN goes out.
LEMMA DataStep == ASSUME Inv, cb_data_ind PROVE Inv'
<1> DEFINE g == Head(cfg.dl)
           n == g.nsapi
           data == Npdu("dl", Len(obs.sent) + 1, g.len)
           p == gprs_sndcp_pcomp_compress(n, data, g.gain)
           d == gprs_sndcp_dcomp_compress(n, p.data, g.gain)
           segs == Segments(n, sne[n].tx_npdu_nr, Cut(d.data, MaxPayload(TRUE), MaxPayload(FALSE)), SegMod, p.val, d.val)
           end == Transmitted(segs)
<1>1. /\ cfg' = [cfg EXCEPT !.dl = Tail(@)] /\ cfg.dl # <<>> /\ up' = up /\ ms' = ms
      /\ \/ /\ sne[n].on /\ lle' = end.lle /\ down' = down \o end.frames
            /\ sne' = (IF end.failed THEN sne ELSE [sne EXCEPT ![n].tx_npdu_nr = (@ + 1) % NpduMod])
            /\ obs' = [obs EXCEPT !.sent = Append(@, data)]
         \/ UNCHANGED <<lle, down, sne, obs>>
  BY DEF cb_data_ind, sndcp_sn_unitdata_req, DataCompressed, sndcp_send_ud_frag, UnitdataSent
<1>2. CfgOK(cfg') /\ g \in NpduType
  BY <1>1, CfgTails DEF Inv
<1>3. n \in Nsapis /\ g.len \in Nat
  BY <1>2 DEF NpduType
<1> HIDE DEF g
<1>4. IsList(segs)
  <2>1. IsList(data)
    BY <1>3, NpduList
  <2>2. IsList(p.data)
    BY <2>1, CompressedList DEF gprs_sndcp_pcomp_compress
  <2>3. IsList(d.data)
    BY <2>2, CompressedList DEF gprs_sndcp_dcomp_compress
  <2>4. MaxPayload(TRUE) \in Nat /\ MaxPayload(FALSE) \in Nat /\ MaxPayload(FALSE) > 0
    BY BearerAssumption DEF MaxPayload, HdrLen
  <2> HIDE DEF data, p, d, n
  <2> QED
    BY <2>3, <2>4, SegmentsList
<1>5. Sending(end, lle)
  BY <1>4, TransmittedSending DEF Inv, IsList
<1> HIDE DEF n, data, segs, end
<1>6. CASE UNCHANGED <<lle, down, sne, obs>>
  BY <1>1, <1>2, <1>6 DEF Inv
<1>7. CASE sne[n].on /\ lle' = end.lle /\ down' = down \o end.frames
           /\ sne' = (IF end.failed THEN sne ELSE [sne EXCEPT ![n].tx_npdu_nr = (@ + 1) % NpduMod])
           /\ obs' = [obs EXCEPT !.sent = Append(@, data)]
  <2>1. /\ Frames(down') /\ LleOK(lle') /\ NextRecv(lle') = NextRecv(lle)
        /\ DownRow(down, lle, ms) => DownRow(down', lle', ms')
    BY <1>1, <1>5, <1>7, DownSends
  <2>2. SneOK(sne')
    BY <1>3, <1>7, SneSent DEF Inv
  <2>3. Calm(obs', obs)
    BY <1>7, ObsSent DEF Inv
  <2>4. UpRow(up, lle, ms) => UpRow(up', lle', ms')
    BY <1>1, <2>1 DEF UpRow
  <2>5. InStep(up', down', lle', ms', obs')
    BY <2>1, <2>3, <2>4, CalmStep DEF Inv
  <2> QED
    BY <1>1, <1>2, <2>1, <2>2, <2>3, <2>5 DEF Inv, Calm
<1> QED
  BY <1>1, <1>6, <1>7
\* The UI frame that comes is the one that the SGSN expects.
LEMMA UpExpected ==
  ASSUME Inv, up # <<>>, Ui(Head(up)), Undisturbed(obs), obs.restarts = 0
  PROVE  /\ Head(up).nu = lle.vu_recv /\ Head(up).oc = lle.oc_recv
         /\ InRow(Tail(up), "up", NextRecv(lle) + 1, MsNextSent(ms))
<1> DEFINE f == Head(up)
<1>1. InRow(up, "up", NextRecv(lle), MsNextSent(ms)) /\ IsList(up) /\ \A i \in DOMAIN up : FrameOK(up[i])
  BY DEF Inv, InStep, UpRow, Frames
<1>2. NextRecv(lle) \in Int /\ MsNextSent(ms) \in Int
  BY PlacesInt DEF Inv
<1>3. PlaceOf(f, "up") = NextRecv(lle) /\ InRow(Tail(up), "up", NextRecv(lle) + 1, MsNextSent(ms))
  BY <1>1, <1>2, RowHead
<1>4. FrameOK(f)
  BY FramesTail DEF Inv
<1>5. f.nu \in 0..(NuMod - 1) /\ f.oc \in Nat /\ lle.vu_recv \in 0..(NuMod - 1) /\ lle.oc_recv \in Nat /\ NuMod \in Nat
  BY <1>4, BearerAssumption DEF Inv, LleOK, FrameOK
<1>6. f.oc * NuMod + f.nu = lle.oc_recv * NuMod + lle.vu_recv
  BY <1>3, <1>5 DEF PlaceOf, NextRecv, Place
<1>7. f.nu = lle.vu_recv /\ f.oc = lle.oc_recv
  <2> DEFINE m == f.nu
             o == f.oc
             vu == lle.vu_recv
             oc == lle.oc_recv
  <2>1. m \in 0..(NuMod - 1) /\ o \in Int /\ vu \in 0..(NuMod - 1) /\ oc \in Int /\ o * NuMod + m = oc * NuMod + vu
    BY <1>5, <1>6
  <2> HIDE DEF m, o, vu, oc
  <2>2. m = vu /\ o = oc
    BY <2>1, PlaceUnique
  <2> QED
    BY <2>2 DEF m, o, vu, oc
<1> QED
  BY <1>3, <1>7

\* The entity after a frame that it takes expects the next number.
LEMMA Accepts ==
  ASSUME NEW nu \in 0..(NuMod - 1), LleOK(lle)
  PROVE  /\ LleOK(LleAccepts(nu)) /\ NextSent(LleAccepts(nu)) = NextSent(lle)
         /\ nu = lle.vu_recv => NextRecv(LleAccepts(nu)) = NextRecv(lle) + 1
<1> DEFINE again == gprs_llc_is_retransmit(nu, lle.vu_recv)
           la == IF again THEN nu ELSE lle.last
           du == IF ~again THEN lle.dups ELSE IF nu = lle.last THEN lle.dups + 1 ELSE 0
           vu == (nu + 1) % NuMod
           oc == IF nu + 1 = NuMod THEN lle.oc_recv + 1 ELSE lle.oc_recv
           k == [lle EXCEPT !.last = la, !.dups = du, !.vu_recv = vu, !.oc_recv = oc]
<1>1. LleAccepts(nu) = k
  BY DEF LleAccepts
<1>2. /\ lle.vu_recv \in 0..(NuMod - 1) /\ lle.oc_recv \in Nat /\ lle.last \in 0..(NuMod - 1)
      /\ NuMod \in Nat /\ NuMod > 1
  BY BearerAssumption DEF LleOK
<1>3. vu = (IF nu = NuMod - 1 THEN 0 ELSE nu + 1) /\ vu \in 0..(NuMod - 1) /\ oc \in Nat
  BY <1>2
<1>4. la \in 0..(NuMod - 1)
  BY <1>2
<1>5. nu = lle.vu_recv => Place(vu, oc, "up") = Place(lle.vu_recv, lle.oc_recv, "up") + 1
  <2>1. lle.oc_recv - 0 = lle.oc_recv /\ oc - 0 = oc /\ (nu + 1 = NuMod <=> nu = NuMod - 1)
    BY <1>2, <1>3
  <2>2. /\ Place(vu, oc, "up") = oc * NuMod + vu
        /\ Place(lle.vu_recv, lle.oc_recv, "up") = lle.oc_recv * NuMod + lle.vu_recv
    BY <2>1 DEF Place
  <2>3. oc * NuMod + vu = IF nu = NuMod - 1 THEN (lle.oc_recv + 1) * NuMod + 0 ELSE lle.oc_recv * NuMod + (nu + 1)
    BY <1>3, <2>1
  <2>4. oc * NuMod + vu = (lle.oc_recv * NuMod + nu) + 1
    <3> DEFINE o == lle.oc_recv
    <3>1. o \in Int
      BY <1>2
    <3>2. oc * NuMod + vu = IF nu = NuMod - 1 THEN (o + 1) * NuMod + 0 ELSE o * NuMod + (nu + 1)
      BY <2>3
    <3> HIDE DEF o, oc, vu
    <3>3. (IF nu = NuMod - 1 THEN (o + 1) * NuMod + 0 ELSE o * NuMod + (nu + 1)) = (o * NuMod + nu) + 1
      BY <3>1, PlaceNext
    <3>4. oc * NuMod + vu = (o * NuMod + nu) + 1
      BY <3>2, <3>3
    <3> QED
      BY <3>4 DEF o
  <2> QED
    BY <2>2, <2>4
<1> HIDE DEF la, du, vu, oc
<1>6. /\ k.vu_send = lle.vu_send /\ k.oc_send = lle.oc_send /\ k.vu_recv = vu /\ k.oc_recv = oc /\ k.xid = lle.xid
      /\ k \in [vu_send : 0..(NuMod - 1), oc_send : Nat, vu_recv : 0..(NuMod - 1), oc_recv : Nat,
                last : 0..(NuMod - 1), dups : {k.dups}, xid : {k.xid}]
  BY <1>3, <1>4 DEF LleOK
<1> HIDE DEF k
<1> QED
  BY <1>1, <1>5, <1>6 DEF LleOK, NextSent, NextRecv

\* What SNDCP makes of a segment shows in what is delivered at most.
LEMMA UnitdataCalm ==
  ASSUME ObsOK(obs), NEW d, NEW pdu PROVE Calm(UnitdataOf(d, pdu).obs, obs)
<1>1. ASSUME NEW x PROVE Calm(sgsn_gtp_data_req(x), obs)
  BY ObsDelivered DEF sgsn_gtp_data_req
<1>2. ASSUME NEW q, NEW r PROVE Calm(Defragged(q, r).obs, obs)
  BY <1>1, ObsSame DEF Defragged
<1>3. ASSUME NEW q PROVE Calm(DefragTries(q).obs, obs)
  BY <1>2, ObsSame DEF DefragTries
<1> QED
  BY <1>1, <1>3 DEF UnitdataOf, defrag_input

\* The reassembly of an NSAPI.
LEMMA SneDefrag ==
  ASSUME SneOK(sne), NEW n, sne[n].on, NEW x PROVE SneOK([sne EXCEPT ![n].defrag = x])
<1> DEFINE e == [sne[n] EXCEPT !.defrag = x]
           s == [sne EXCEPT ![n].defrag = x]
<1>1. s = [k \in Nsapis |-> IF k = n THEN e ELSE sne[k]]
  BY DEF SneOK
<1>2. n \in Nsapis => e \in [on : {TRUE}, tx_npdu_nr : 0..(NpduMod - 1), defrag : {e.defrag}]
  BY DEF SneOK
<1> HIDE DEF e, s
<1>3. SneOK(s)
  BY <1>1, <1>2 DEF SneOK
<1> QED
  BY <1>3 DEF s
\* What a refused frame does to the observation.
LEMMA RefusesObs ==
  ASSUME ObsOK(obs), NEW f
  PROVE  /\ ObsOK(Refuses(f)) /\ Refuses(f).ms_refused = obs.ms_refused /\ Refuses(f).restarts = obs.restarts
         /\ Undisturbed(Refuses(f)) => Undisturbed(obs)
<1> DEFINE F == obs.faults \cup (IF f.pdu.first THEN {"first"} ELSE {})
           r == obs.refused + 1
           o == [obs EXCEPT !.refused = r, !.faults = F]
<1>1. Refuses(f) = o
  BY DEF Refuses
<1>2. r \in Nat /\ obs.faults \subseteq F
  BY DEF ObsOK
<1> HIDE DEF F, r
<1>3. /\ o \in [sent : {o.sent}, offered : {o.offered}, delivered : {o.delivered}, refused : Nat,
                ms_refused : {o.ms_refused}, restarts : Nat, faults : {o.faults}, stale : {o.stale}]
      /\ o.ms_refused = obs.ms_refused /\ o.restarts = obs.restarts /\ o.faults = F
  BY <1>2 DEF ObsOK
<1> HIDE DEF o
<1> QED
  BY <1>1, <1>2, <1>3 DEF ObsOK, Undisturbed

\* A UI frame of the MS.
LEMMA RxUiStep == ASSUME Inv, rx_ui PROVE Inv'
<1> DEFINE f == Head(up)
           r == UnitdataOf(KeepsComp(sne[f.pdu.nsapi].defrag, f.pdu), f.pdu)
<1>1. /\ up # <<>> /\ Ui(f) /\ up' = Tail(up) /\ cfg' = cfg /\ down' = down /\ ms' = ms
      /\ \/ /\ ~Deciphered(f, lle.oc_recv) /\ obs' = Refuses(f) /\ lle' = lle /\ sne' = sne
         \/ /\ Discarded(f.nu) /\ obs' = Refuses(f) /\ lle' = [lle EXCEPT !.dups = @ + 1] /\ sne' = sne
         \/ /\ lle' = LleAccepts(f.nu) /\ sndcp_ll_unitdata_ind(f.pdu)
  BY DEF rx_ui, Ui
<1>2. Frames(up') /\ FrameOK(f)
  BY <1>1, FramesTail DEF Inv
<1>3. f.nu \in 0..(NuMod - 1)
  BY <1>1, <1>2 DEF FrameOK
<1>4. Undisturbed(obs) /\ obs.restarts = 0 =>
        f.nu = lle.vu_recv /\ f.oc = lle.oc_recv /\ InRow(up', "up", NextRecv(lle) + 1, MsNextSent(ms))
  BY <1>1, UpExpected
<1>5. /\ CfgOK(cfg') /\ Frames(down') /\ MsOK(ms') /\ LleOK(lle) /\ ObsOK(obs) /\ SneOK(sne)
      /\ InStep(up, down, lle, ms, obs)
  BY <1>1 DEF Inv
<1>6. ASSUME LleOK(lle'), NextSent(lle') = NextSent(lle), SneOK(sne'), obs' = Refuses(f),
             ~(Undisturbed(obs) /\ obs.restarts = 0)
      PROVE  Inv'
  <2>1. /\ ObsOK(obs') /\ obs'.ms_refused = obs.ms_refused /\ obs'.restarts = obs.restarts
        /\ Undisturbed(obs') => Undisturbed(obs)
    BY <1>5, <1>6, RefusesObs
  <2>2. DownRow(down, lle, ms) => DownRow(down', lle', ms')
    BY <1>1, <1>6 DEF DownRow
  <2>3. InStep(up', down', lle', ms', obs')
    BY <1>5, <1>6, <2>1, <2>2 DEF InStep
  <2> QED
    BY <1>2, <1>5, <1>6, <2>1, <2>3 DEF Inv
<1>7. CASE ~Deciphered(f, lle.oc_recv) /\ obs' = Refuses(f) /\ lle' = lle /\ sne' = sne
  <2>1. f.oc # lle.oc_recv
    BY <1>7 DEF Deciphered
  <2> HIDE DEF f
  <2> QED
    BY <1>4, <1>5, <1>6, <1>7, <2>1
<1>8. CASE Discarded(f.nu) /\ obs' = Refuses(f) /\ lle' = [lle EXCEPT !.dups = @ + 1] /\ sne' = sne
  <2>1. f.nu # lle.vu_recv
    <3>1. NuMod \in Nat /\ NuMod > 1 /\ lle.vu_recv \in Int
      BY <1>5, BearerAssumption DEF LleOK
    <3>2. (lle.vu_recv - lle.vu_recv) % NuMod = 0
      BY <3>1
    <3> QED
      BY <1>8, <3>2 DEF Discarded, gprs_llc_is_retransmit
  <2>2. LleOK(lle') /\ NextSent(lle') = NextSent(lle)
    <3> DEFINE x == lle.dups + 1
               k == [lle EXCEPT !.dups = x]
    <3>1. lle' = k
      BY <1>8
    <3> HIDE DEF x
    <3>2. /\ k.vu_send = lle.vu_send /\ k.oc_send = lle.oc_send /\ k.xid = lle.xid
          /\ k \in [vu_send : 0..(NuMod - 1), oc_send : Nat, vu_recv : 0..(NuMod - 1), oc_recv : Nat,
                    last : 0..(NuMod - 1), dups : {k.dups}, xid : {k.xid}]
      BY <1>5 DEF LleOK
    <3> HIDE DEF k
    <3> QED
      BY <1>5, <3>1, <3>2 DEF LleOK, NextSent
  <2> HIDE DEF f
  <2> QED
    BY <1>4, <1>5, <1>6, <1>8, <2>1, <2>2
<1>9. CASE lle' = LleAccepts(f.nu) /\ sndcp_ll_unitdata_ind(f.pdu)
  <2>1. /\ LleOK(lle') /\ NextSent(lle') = NextSent(lle)
        /\ f.nu = lle.vu_recv => NextRecv(lle') = NextRecv(lle) + 1
    BY <1>3, <1>5, <1>9, Accepts
  <2>2. \/ sne[f.pdu.nsapi].on /\ sne' = [sne EXCEPT ![f.pdu.nsapi].defrag = r.defrag] /\ obs' = r.obs
        \/ sne' = sne /\ obs' = obs
    BY <1>9 DEF sndcp_ll_unitdata_ind, UnitdataTaken
  <2>3. Calm(r.obs, obs)
    BY <1>5, UnitdataCalm
  <2> DEFINE n == f.pdu.nsapi
             x == r.defrag
             o == r.obs
  <2>20. \/ sne[n].on /\ sne' = [sne EXCEPT ![n].defrag = x] /\ obs' = o
         \/ sne' = sne /\ obs' = obs
    BY <2>2
  <2>21. Calm(o, obs) /\ Calm(obs, obs)
    BY <1>5, <2>3, ObsSame
  <2> HIDE DEF r, n, x, o
  <2>22. sne[n].on => SneOK([sne EXCEPT ![n].defrag = x])
    BY <1>5, SneDefrag
  <2>4. SneOK(sne') /\ Calm(obs', obs)
    BY <1>5, <2>20, <2>21, <2>22
  <2>5. DownRow(down, lle, ms) => DownRow(down', lle', ms')
    BY <1>1, <2>1 DEF DownRow
  <2>6. Undisturbed(obs) /\ obs.restarts = 0 => UpRow(up', lle', ms')
    BY <1>1, <1>4, <2>1 DEF UpRow
  <2>7. Undisturbed(obs') => Undisturbed(obs)
    BY <2>4 DEF Undisturbed, Calm
  <2>8. InStep(up', down', lle', ms', obs')
    BY <1>5, <2>4, <2>5, <2>6, <2>7 DEF InStep, Calm
  <2> QED
    BY <1>2, <1>5, <2>1, <2>4, <2>8 DEF Inv, Calm
<1> QED
  BY <1>1, <1>7, <1>8, <1>9
\* SABM, DISC and NULL.
LEMMA RxOtherStep == ASSUME Inv, rx_other PROVE Inv'
<1> DEFINE f == Head(up)
<1>1. /\ up # <<>> /\ ~Ui(f) /\ up' = Tail(up) /\ cfg' = cfg /\ ms' = ms /\ lle' = lle /\ sne' = sne /\ obs' = obs
      /\ down' = down \/ down' = Append(down, OtherFrame("dm"))
  BY DEF rx_other, Ui
<1>2. Frames(up') /\ IsList(up) /\ IsList(down)
  BY <1>1, FramesTail DEF Inv, Frames
<1>3. FrameOK(OtherFrame("dm")) /\ ~Ui(OtherFrame("dm"))
  BY OtherFrameOK
<1>4. Frames(down')
  BY <1>1, <1>3, FramesAppend DEF Inv
<1>5. UpRow(up, lle, ms) => UpRow(up', lle', ms')
  BY <1>1, <1>2, RowSkip DEF UpRow
<1>6. DownRow(down, lle, ms) => DownRow(down', lle', ms')
  BY <1>1, <1>2, <1>3, RowOther DEF DownRow
<1>7. InStep(up', down', lle', ms', obs')
  BY <1>1, <1>5, <1>6, CalmStep, ObsSame DEF Inv
<1> QED
  BY <1>1, <1>2, <1>4, <1>7 DEF Inv

\* An XID command of the MS,
LEMMA XidIndStep == ASSUME Inv, gprs_llc_process_xid_ind PROVE Inv'
<1> DEFINE f == Head(up)
<1>1. /\ up # <<>> /\ ~Ui(f) /\ up' = Tail(up) /\ cfg' = cfg /\ ms' = ms /\ lle' = lle /\ sne' = sne /\ obs' = obs
      /\ \E x : down' = Append(down, XidFrame(FALSE, x))
  BY DEF gprs_llc_process_xid_ind, XidFieldsInd, XidL3Ind, XidReplied, Ui
<1>2. Frames(up') /\ IsList(up) /\ IsList(down)
  BY <1>1, FramesTail DEF Inv, Frames
<1>3. PICK x : down' = Append(down, XidFrame(FALSE, x))
  BY <1>1
<1>4. FrameOK(XidFrame(FALSE, x)) /\ ~Ui(XidFrame(FALSE, x))
  BY XidFrameOK
<1>5. Frames(down')
  BY <1>3, <1>4, FramesAppend DEF Inv
<1>6. UpRow(up, lle, ms) => UpRow(up', lle', ms')
  BY <1>1, <1>2, RowSkip DEF UpRow
<1>7. DownRow(down, lle, ms) => DownRow(down', lle', ms')
  BY <1>1, <1>2, <1>3, <1>4, RowOther DEF DownRow
<1>8. InStep(up', down', lle', ms', obs')
  BY <1>1, <1>6, <1>7, CalmStep, ObsSame DEF Inv
<1> QED
  BY <1>1, <1>2, <1>5, <1>8 DEF Inv

\* and the answer to one of the SGSN.
LEMMA XidConfStep == ASSUME Inv, gprs_llc_process_xid_conf PROVE Inv'
<1> DEFINE f == Head(up)
<1>1. /\ up # <<>> /\ ~Ui(f) /\ up' = Tail(up) /\ cfg' = cfg /\ ms' = ms /\ down' = down /\ sne' = sne /\ obs' = obs
      /\ lle' = [lle EXCEPT !.xid = NoXid]
  BY DEF gprs_llc_process_xid_conf, Ui
<1>2. Frames(up') /\ IsList(up)
  BY <1>1, FramesTail DEF Inv, Frames
<1>3. LleOK(lle') /\ NextRecv(lle') = NextRecv(lle) /\ NextSent(lle') = NextSent(lle)
  BY <1>1, LleXid DEF Inv
<1>4. UpRow(up, lle, ms) => UpRow(up', lle', ms')
  BY <1>1, <1>2, <1>3, RowSkip DEF UpRow
<1>5. DownRow(down, lle, ms) => DownRow(down', lle', ms')
  BY <1>1, <1>3 DEF DownRow
<1>6. InStep(up', down', lle', ms', obs')
  BY <1>1, <1>4, <1>5, CalmStep, ObsSame DEF Inv
<1> QED
  BY <1>1, <1>2, <1>3, <1>6 DEF Inv
-----------------------------------------------------------------------------
(* Steps of the MS.                                                        *)

\* The n-th frame of an N-PDU is the n-th place from the next.
LEMMA MsPlaces ==
  ASSUME NEW vu \in 0..(NuMod - 1), NEW oc \in Nat, NEW n \in Nat
  PROVE  /\ (vu + n) % NuMod \in 0..(NuMod - 1) /\ oc + (vu + n) \div NuMod \in Nat
         /\ Place((vu + n) % NuMod, oc + (vu + n) \div NuMod, "up") = Place(vu, oc, "up") + n
<1> DEFINE q == (vu + n) \div NuMod
           r == (vu + n) % NuMod
<1>1. NuMod \in Nat /\ NuMod > 1
  BY BearerAssumption
<1>2. vu + n \in Nat
  BY <1>1
<1>3. q \in Nat /\ r \in 0..(NuMod - 1) /\ vu + n = q * NuMod + r
  BY <1>1, <1>2
<1> HIDE DEF q, r
<1>4. (oc + q) * NuMod = oc * NuMod + q * NuMod
  <2>1. \A x, y, z \in Nat : (x + y) * z = x * z + y * z
    OBVIOUS
  <2> QED
    BY <1>1, <1>3, <2>1
<1>5. Place(r, oc + q, "up") = Place(vu, oc, "up") + n
  <2>1. Place(r, oc + q, "up") = (oc + q) * NuMod + r /\ Place(vu, oc, "up") = oc * NuMod + vu
    BY <1>1, <1>3 DEF Place
  <2> DEFINE a == (oc + q) * NuMod
             b == oc * NuMod
             c == q * NuMod
  <2>2. a \in Int /\ b \in Int /\ c \in Int
    BY <1>1, <1>3
  <2>3. a = b + c /\ vu + n = c + r /\ Place(r, oc + q, "up") = a + r /\ Place(vu, oc, "up") = b + vu
    BY <1>3, <1>4, <2>1
  <2> HIDE DEF a, b, c
  <2>4. vu \in Int /\ r \in Int /\ n \in Int
    BY <1>1, <1>3
  <2>5. a + r = (b + vu) + n
    BY <2>2, <2>3, <2>4
  <2> QED
    BY <2>3, <2>5
<1> QED
  BY <1>3, <1>5 DEF q, r
\* Changes of the MS that the rows do not see.
LEMMA MsUnseen ==
  ASSUME MsOK(ms), NEW x, NEW y
  PROVE  /\ MsOK([ms EXCEPT !.req = x]) /\ MsNextSent([ms EXCEPT !.req = x]) = MsNextSent(ms)
         /\ MsNextRecv([ms EXCEPT !.req = x]) = MsNextRecv(ms) /\ [ms EXCEPT !.req = x].vur = ms.vur
         /\ MsOK([ms EXCEPT !.ents = x]) /\ MsNextSent([ms EXCEPT !.ents = x]) = MsNextSent(ms)
         /\ MsNextRecv([ms EXCEPT !.ents = x]) = MsNextRecv(ms) /\ [ms EXCEPT !.ents = x].vur = ms.vur
         /\ MsOK([ms EXCEPT !.req = x, !.ents = y]) /\ MsNextSent([ms EXCEPT !.req = x, !.ents = y]) = MsNextSent(ms)
         /\ MsNextRecv([ms EXCEPT !.req = x, !.ents = y]) = MsNextRecv(ms) /\ [ms EXCEPT !.req = x, !.ents = y].vur = ms.vur
<1>1. ASSUME NEW m, /\ m.vu = ms.vu /\ m.oc_send = ms.oc_send /\ m.vur = ms.vur /\ m.oc_recv = ms.oc_recv
      PROVE  MsNextSent(m) = MsNextSent(ms) /\ MsNextRecv(m) = MsNextRecv(ms)
  BY <1>1 DEF MsNextSent, MsNextRecv
<1>2. ASSUME NEW m, m = [ms EXCEPT !.req = x]
      PROVE  MsOK(m) /\ m.vu = ms.vu /\ m.oc_send = ms.oc_send /\ m.vur = ms.vur /\ m.oc_recv = ms.oc_recv
  BY <1>2 DEF MsOK
<1>3. ASSUME NEW m, m = [ms EXCEPT !.ents = x]
      PROVE  MsOK(m) /\ m.vu = ms.vu /\ m.oc_send = ms.oc_send /\ m.vur = ms.vur /\ m.oc_recv = ms.oc_recv
  BY <1>3 DEF MsOK
<1>4. ASSUME NEW m, m = [ms EXCEPT !.req = x, !.ents = y]
      PROVE  MsOK(m) /\ m.vu = ms.vu /\ m.oc_send = ms.oc_send /\ m.vur = ms.vur /\ m.oc_recv = ms.oc_recv
  BY <1>4 DEF MsOK
<1> QED
  BY <1>1, <1>2, <1>3, <1>4

\* An N-PDU of the MS.
LEMMA MsSendStep == ASSUME Inv, MsSend PROVE Inv'
<1> DEFINE g == Head(cfg.ul)
           data == Npdu("ul", Len(obs.offered) + 1, g.len)
           p == Compressed(MsList("pcomp"), g.nsapi, data, g.gain)
           d == Compressed(MsList("dcomp"), g.nsapi, p.data, g.gain)
           segs == Segments(g.nsapi, ms.npdu, Cut(d.data, N201_U - 4, N201_U - 3), 16, p.val, d.val)
           fs == [i \in DOMAIN segs |-> UiFrame((ms.vu + i - 1) % NuMod, ms.oc_send + MsCycle(i - 1), segs[i])]
           np == (ms.npdu + 1) % 4096
           vu == (ms.vu + Len(segs)) % NuMod
           oc == ms.oc_send + MsCycle(Len(segs))
<1>1. /\ cfg' = [cfg EXCEPT !.ul = Tail(@)] /\ cfg.ul # <<>> /\ up' = up \o fs
      /\ ms' = [ms EXCEPT !.vu = vu, !.oc_send = oc, !.npdu = np]
      /\ obs' = [obs EXCEPT !.offered = Append(@, data)]
      /\ lle' = lle /\ sne' = sne /\ down' = down
  BY DEF MsSend, MsNpdu, MsHeader, MsData, MsSegments
<1>2. CfgOK(cfg') /\ g \in NpduType
  BY <1>1, CfgTails DEF Inv
<1>3. g.len \in Nat
  BY <1>2 DEF NpduType
<1> HIDE DEF g
<1>4. IsList(segs)
  <2>1. IsList(data)
    BY <1>3, NpduList
  <2>2. IsList(p.data)
    BY <2>1, CompressedList
  <2>3. IsList(d.data)
    BY <2>2, CompressedList
  <2>4. N201_U - 4 \in Nat /\ N201_U - 3 \in Nat /\ N201_U - 3 > 0
    BY BearerAssumption
  <2> HIDE DEF data, p, d
  <2> QED
    BY <2>3, <2>4, SegmentsList
<1>5. Len(segs) \in Nat /\ DOMAIN segs = 1..Len(segs)
  BY <1>4 DEF IsList
<1>6. ms.vu \in 0..(NuMod - 1) /\ ms.oc_send \in Nat /\ NuMod \in Nat
  BY BearerAssumption DEF Inv, MsOK
<1> HIDE DEF data, segs, np
<1>7. fs = [i \in 1..Len(segs) |-> fs[i]]
  BY <1>5
<1>8. \A i \in 1..Len(segs) : Ui(fs[i]) /\ FrameOK(fs[i]) /\ PlaceOf(fs[i], "up") = MsNextSent(ms) + (i - 1)
  <2> SUFFICES ASSUME NEW i \in 1..Len(segs)
               PROVE  Ui(fs[i]) /\ FrameOK(fs[i]) /\ PlaceOf(fs[i], "up") = MsNextSent(ms) + (i - 1)
    OBVIOUS
  <2> DEFINE nu == (ms.vu + (i - 1)) % NuMod
             o == ms.oc_send + (ms.vu + (i - 1)) \div NuMod
  <2>1. fs[i] = UiFrame((ms.vu + i - 1) % NuMod, ms.oc_send + MsCycle(i - 1), segs[i])
    BY <1>5
  <2>2. ms.vu + i - 1 = ms.vu + (i - 1) /\ i - 1 \in Nat
    BY <1>5, <1>6
  <2>3. fs[i] = UiFrame(nu, o, segs[i])
    BY <2>1, <2>2 DEF MsCycle
  <2>4. nu \in 0..(NuMod - 1) /\ o \in Nat /\ Place(nu, o, "up") = MsNextSent(ms) + (i - 1)
    BY <1>6, <2>2, MsPlaces DEF MsNextSent
  <2> HIDE DEF nu, o, fs
  <2> QED
    BY <2>3, <2>4 DEF UiFrame, Ui, FrameOK, PlaceOf
<1> HIDE DEF fs
<1>9. IsList(fs) /\ Len(fs) = Len(segs) /\ DOMAIN fs = 1..Len(segs)
  BY <1>5, <1>7, FunList
<1>10. Frames(fs)
  BY <1>8, <1>9 DEF Frames
<1>11. vu \in 0..(NuMod - 1) /\ oc \in Nat /\ Place(vu, oc, "up") = MsNextSent(ms) + Len(segs)
  BY <1>5, <1>6, MsPlaces DEF MsNextSent, MsCycle
<1> HIDE DEF vu, oc
<1>12. MsOK(ms') /\ ms'.vu = vu /\ ms'.oc_send = oc /\ ms'.vur = ms.vur /\ ms'.oc_recv = ms.oc_recv
  BY <1>1, <1>11 DEF Inv, MsOK
<1>13. MsNextSent(ms') = MsNextSent(ms) + Len(fs) /\ MsNextRecv(ms') = MsNextRecv(ms)
  BY <1>9, <1>11, <1>12 DEF MsNextSent, MsNextRecv
<1>14. Frames(up') /\ IsList(up) /\ \A i \in DOMAIN up : FrameOK(up[i])
  BY <1>1, <1>10, FramesConcat DEF Inv, Frames
<1>15. NextRecv(lle) \in Int /\ MsNextSent(ms) \in Int
  BY PlacesInt DEF Inv
<1>16. \A i \in DOMAIN fs : Ui(fs[i]) /\ PlaceOf(fs[i], "up") = MsNextSent(ms) + i - 1
  BY <1>5, <1>8, <1>9, <1>15
<1>17. UpRow(up, lle, ms) => UpRow(up', lle', ms')
  BY <1>1, <1>9, <1>13, <1>14, <1>15, <1>16, RowMore DEF UpRow
<1>18. DownRow(down, lle, ms) => DownRow(down', lle', ms')
  BY <1>1, <1>12, <1>13 DEF DownRow
<1>19. Calm(obs', obs)
  BY <1>1, ObsOffered DEF Inv
<1>20. InStep(up', down', lle', ms', obs')
  BY <1>17, <1>18, <1>19, CalmStep DEF Inv
<1> QED
  BY <1>1, <1>2, <1>12, <1>14, <1>19, <1>20 DEF Inv, Calm
\* A frame without a number.
LEMMA MsOtherStep == ASSUME Inv, MsOther PROVE Inv'
<1> DEFINE t == Head(cfg.other)
<1>1. /\ cfg' = [cfg EXCEPT !.other = Tail(@)] /\ cfg.other # <<>> /\ up' = Append(up, OtherFrame(t))
      /\ lle' = lle /\ sne' = sne /\ down' = down /\ ms' = ms /\ obs' = obs
  BY DEF MsOther
<1>2. CfgOK(cfg') /\ t \in {"sabm", "null"}
  BY <1>1, CfgTails DEF Inv
<1> HIDE DEF t
<1>3. FrameOK(OtherFrame(t)) /\ ~Ui(OtherFrame(t))
  BY <1>2, OtherFrameOK
<1>4. Frames(up') /\ IsList(up)
  BY <1>1, <1>3, FramesAppend DEF Inv, Frames
<1>5. UpRow(up, lle, ms) => UpRow(up', lle', ms')
  BY <1>1, <1>3, <1>4, RowOther DEF UpRow
<1>6. InStep(up', down', lle', ms', obs')
  BY <1>1, <1>5, CalmStep, ObsSame DEF Inv
<1> QED
  BY <1>1, <1>2, <1>4, <1>6 DEF Inv

\* The MS starts its numbers afresh: nothing is said of the way up any more.
LEMMA MsRestartStep == ASSUME Inv, MsRestart PROVE Inv'
<1> DEFINE r == obs.restarts + 1
<1>1. /\ cfg' = [cfg EXCEPT !.restart = @ - 1] /\ up' = up /\ lle' = lle /\ sne' = sne /\ down' = down
      /\ ms' = [ms EXCEPT !.vu = 0] /\ obs' = [obs EXCEPT !.restarts = r]
  BY DEF MsRestart
<1>2. r \in Nat /\ r # 0
  BY DEF Inv, ObsOK
<1> HIDE DEF r
<1>3. CfgOK(cfg')
  BY <1>1, CfgTails DEF Inv
<1>4. ObsOK(obs') /\ obs'.restarts = r /\ obs'.faults = obs.faults /\ obs'.ms_refused = obs.ms_refused
  BY <1>1, <1>2 DEF Inv, ObsOK
<1>5. 0 \in 0..(NuMod - 1)
  BY BearerAssumption
<1>6. MsOK(ms') /\ ms'.vur = ms.vur /\ ms'.oc_recv = ms.oc_recv
  BY <1>1, <1>5 DEF Inv, MsOK
<1>7. DownRow(down, lle, ms) => DownRow(down', lle', ms')
  BY <1>1, <1>6 DEF DownRow, MsNextRecv
<1>8. InStep(up', down', lle', ms', obs')
  BY <1>2, <1>4, <1>7 DEF Inv, InStep, Undisturbed
<1> QED
  BY <1>1, <1>3, <1>4, <1>6, <1>8 DEF Inv

\* A proposal of the MS.
LEMMA MsProposeStep == ASSUME Inv, MsPropose PROVE Inv'
<1>1. /\ cfg' = [cfg EXCEPT !.props = Tail(@)] /\ lle' = lle /\ sne' = sne /\ down' = down /\ obs' = obs
      /\ ms' = [ms EXCEPT !.req = <<Head(cfg.props)>>]
      /\ \E x : up' = Append(up, XidFrame(TRUE, x))
  BY DEF MsPropose
<1>2. PICK x : up' = Append(up, XidFrame(TRUE, x))
  BY <1>1
<1>3. FrameOK(XidFrame(TRUE, x)) /\ ~Ui(XidFrame(TRUE, x))
  BY XidFrameOK
<1>4. Frames(up') /\ IsList(up)
  BY <1>2, <1>3, FramesAppend DEF Inv, Frames
<1>5. CfgOK(cfg')
  BY <1>1, CfgTails DEF Inv
<1>6. /\ MsOK(ms') /\ MsNextSent(ms') = MsNextSent(ms) /\ MsNextRecv(ms') = MsNextRecv(ms) /\ ms'.vur = ms.vur
  BY <1>1, MsUnseen DEF Inv
<1>7. UpRow(up, lle, ms) => UpRow(up', lle', ms')
  BY <1>1, <1>2, <1>3, <1>4, <1>6, RowOther DEF UpRow
<1>8. DownRow(down, lle, ms) => DownRow(down', lle', ms')
  BY <1>1, <1>6 DEF DownRow
<1>9. Calm(obs', obs) /\ InStep(up, down, lle, ms, obs)
  BY <1>1, ObsSame DEF Inv
<1>10. InStep(up', down', lle', ms', obs')
  BY <1>7, <1>8, <1>9, CalmStep
<1> QED
  BY <1>1, <1>4, <1>5, <1>6, <1>10 DEF Inv

\* The MS answers a command, or takes an answer.
LEMMA MsXidStep == ASSUME Inv, MsXid PROVE Inv'
<1> DEFINE f == Head(down)
<1>1. /\ down # <<>> /\ ~Ui(f) /\ down' = Tail(down) /\ cfg' = cfg /\ lle' = lle /\ sne' = sne /\ obs' = obs
      /\ \/ (\E x : ms' = [ms EXCEPT !.ents = x]) /\ (\E y : up' = Append(up, XidFrame(FALSE, y)))
         \/ (\E x : ms' = [ms EXCEPT !.req = <<>>, !.ents = x]) /\ up' = up
  BY DEF MsXid, MsAnswersXid, Ui
<1>2. Frames(down') /\ IsList(down) /\ IsList(up)
  BY <1>1, FramesTail DEF Inv, Frames
<1>3. /\ MsOK(ms') /\ MsNextSent(ms') = MsNextSent(ms) /\ MsNextRecv(ms') = MsNextRecv(ms) /\ ms'.vur = ms.vur
  <2>1. MsOK(ms)
    BY DEF Inv
  <2>2. ASSUME NEW x, ms' = [ms EXCEPT !.ents = x]
        PROVE  MsOK(ms') /\ MsNextSent(ms') = MsNextSent(ms) /\ MsNextRecv(ms') = MsNextRecv(ms) /\ ms'.vur = ms.vur
    BY <2>1, <2>2, MsUnseen
  <2>3. ASSUME NEW x, ms' = [ms EXCEPT !.req = <<>>, !.ents = x]
        PROVE  MsOK(ms') /\ MsNextSent(ms') = MsNextSent(ms) /\ MsNextRecv(ms') = MsNextRecv(ms) /\ ms'.vur = ms.vur
    BY <2>1, <2>3, MsUnseen
  <2> QED
    BY <1>1, <2>2, <2>3
<1>4. \A y : FrameOK(XidFrame(FALSE, y)) /\ ~Ui(XidFrame(FALSE, y))
  BY XidFrameOK
<1>5. Frames(up') /\ (UpRow(up, lle, ms) => UpRow(up', lle', ms'))
  <2>1. CASE up' = up
    BY <1>1, <1>3, <2>1 DEF Inv, UpRow
  <2>2. ASSUME NEW y, up' = Append(up, XidFrame(FALSE, y))
        PROVE  Frames(up') /\ (UpRow(up, lle, ms) => UpRow(up', lle', ms'))
    <3>1. Frames(up')
      BY <1>4, <2>2, FramesAppend DEF Inv
    <3> QED
      BY <1>1, <1>2, <1>3, <1>4, <2>2, <3>1, RowOther DEF UpRow
  <2> QED
    BY <1>1, <2>1, <2>2
<1>6. DownRow(down, lle, ms) => DownRow(down', lle', ms')
  BY <1>1, <1>2, <1>3, RowSkip DEF DownRow
<1>7. InStep(up', down', lle', ms', obs')
  BY <1>1, <1>5, <1>6, CalmStep, ObsSame DEF Inv
<1> QED
  BY <1>1, <1>2, <1>3, <1>5, <1>7 DEF Inv

\* A refusal of the SGSN.
LEMMA MsDmStep == ASSUME Inv, MsDm PROVE Inv'
<1> DEFINE f == Head(down)
<1>1. /\ down # <<>> /\ ~Ui(f) /\ down' = Tail(down) /\ cfg' = cfg /\ lle' = lle /\ sne' = sne /\ obs' = obs
      /\ ms' = ms /\ up' = up
  BY DEF MsDm, Ui
<1>2. Frames(down') /\ IsList(down)
  BY <1>1, FramesTail DEF Inv, Frames
<1>3. DownRow(down, lle, ms) => DownRow(down', lle', ms')
  BY <1>1, <1>2, RowSkip DEF DownRow
<1>4. InStep(up', down', lle', ms', obs')
  BY <1>1, <1>3, CalmStep, ObsSame DEF Inv
<1> QED
  BY <1>1, <1>2, <1>4 DEF Inv
\* The MS after a frame that it takes expects the next number.
LEMMA MsTakesFrame ==
  ASSUME MsOK(ms), NEW f, FrameOK(f), Ui(f), NEW n, NEW q, NEW whole, MsReassembles(f, n, q, whole)
  PROVE  /\ MsOK(ms') /\ MsNextSent(ms') = MsNextSent(ms)
         /\ MsNextRecv(ms') = Place(f.nu, MsOc(f.nu), "up") + 1
<1> DEFINE v == (f.nu + 1) % NuMod
           o == MsOc(f.nu) + (f.nu + 1) \div NuMod
           R == [ms.reas EXCEPT ![n] = IF whole THEN NoReas ELSE q]
           G == IF whole THEN Append(ms.got, MsWhole(q)) ELSE ms.got
<1>1. ms' = [ms EXCEPT !.vur = v, !.oc_recv = o, !.reas = R, !.got = G]
  BY DEF MsReassembles, MsOK
<1>2. f.nu \in 0..(NuMod - 1) /\ ms.oc_recv \in Nat
  BY DEF FrameOK, MsOK
<1>3. MsOc(f.nu) \in Nat
  BY <1>2 DEF MsOc
<1>4. v \in 0..(NuMod - 1) /\ o \in Nat /\ Place(v, o, "up") = Place(f.nu, MsOc(f.nu), "up") + 1
  BY <1>2, <1>3, MsPlaces
<1> HIDE DEF v, o, R, G
<1>5. MsOK(ms') /\ ms'.vu = ms.vu /\ ms'.oc_send = ms.oc_send /\ ms'.vur = v /\ ms'.oc_recv = o
  BY <1>1, <1>4 DEF MsOK
<1> QED
  BY <1>4, <1>5 DEF MsNextSent, MsNextRecv

\* The frame that comes in row is the one that the MS expects.
LEMMA DownExpected ==
  ASSUME Inv, down # <<>>, Ui(Head(down)), DownRow(down, lle, ms), NEW f, f = Head(down)
  PROVE  \/ /\ f.nu = ms.vur /\ f.oc = ms.oc_recv + (IF f.nu = NuMod - 1 THEN 1 ELSE 0) /\ MsOc(f.nu) = ms.oc_recv
            /\ InRow(Tail(down), "down", MsNextRecv(ms) + 1, NextSent(lle))
            /\ Place(f.nu, MsOc(f.nu), "up") = MsNextRecv(ms)
         \/ /\ f.nu = 0 /\ f.oc = MsOc(f.nu)
            /\ InRow(Tail(down), "down", Place(f.nu, MsOc(f.nu), "up") + 1, NextSent(lle))
<1>1. IsList(down) /\ \A i \in DOMAIN down : FrameOK(down[i])
  BY DEF Inv, Frames
<1>2. NextSent(lle) \in Int /\ MsNextRecv(ms) \in Int
  BY PlacesInt DEF Inv
<1>3. FrameOK(f)
  BY FramesTail DEF Inv
<1>4. NuMod \in Nat /\ NuMod > 1
  BY BearerAssumption
<1> DEFINE nu == f.nu
           oc == f.oc
           vr == ms.vur
           or == ms.oc_recv
           x == IF nu = NuMod - 1 THEN 1 ELSE 0
<1>5. nu \in 0..(NuMod - 1) /\ oc \in Nat /\ vr \in 0..(NuMod - 1) /\ or \in Nat
  BY <1>3 DEF FrameOK, Inv, MsOK
<1>6. /\ PlaceOf(f, "down") = (oc - x) * NuMod + nu /\ MsNextRecv(ms) = or * NuMod + vr
      /\ MsOc(nu) = or + (IF nu < vr THEN 1 ELSE 0)
      /\ Place(nu, MsOc(nu), "up") = MsOc(nu) * NuMod + nu
  <2>1. Place(nu, MsOc(nu), "up") = MsOc(nu) * NuMod + nu
    <3>1. MsOc(nu) - 0 = MsOc(nu)
      BY <1>5 DEF MsOc
    <3> QED
      BY <3>1 DEF Place
  <2>2. PlaceOf(f, "down") = (oc - x) * NuMod + nu
    BY DEF PlaceOf, Place
  <2>3. MsNextRecv(ms) = or * NuMod + vr
    BY <1>5 DEF MsNextRecv, Place
  <2>4. MsOc(nu) = or + (IF nu < vr THEN 1 ELSE 0)
    BY DEF MsOc
  <2> QED
    BY <2>1, <2>2, <2>3, <2>4
<1> HIDE DEF nu, oc, vr, or
<1>7. CASE InRow(down, "down", MsNextRecv(ms), NextSent(lle))
  <2>1. PlaceOf(f, "down") = MsNextRecv(ms) /\ InRow(Tail(down), "down", MsNextRecv(ms) + 1, NextSent(lle))
    BY <1>1, <1>2, <1>7, RowHead
  <2>2. nu = vr /\ oc - x = or
    <3>1. oc - x \in Int /\ or \in Int /\ (oc - x) * NuMod + nu = or * NuMod + vr
      BY <1>5, <1>6, <2>1
    <3> QED
      BY <1>5, <3>1, PlaceUnique
  <2>3. oc = or + x /\ MsOc(nu) = or
    BY <1>5, <1>6, <2>2
  <2> QED
    BY <1>6, <2>1, <2>2, <2>3 DEF nu, oc, vr, or
<1>8. CASE vr = NuMod - 1 /\ InRow(down, "down", MsNextRecv(ms) + 1, NextSent(lle))
  <2>1. MsNextRecv(ms) + 1 \in Int
    BY <1>2
  <2>2. /\ PlaceOf(f, "down") = MsNextRecv(ms) + 1
        /\ InRow(Tail(down), "down", MsNextRecv(ms) + 1 + 1, NextSent(lle))
    BY <1>1, <1>2, <1>8, <2>1, RowHead
  <2>3. MsNextRecv(ms) + 1 = (or + 1) * NuMod + 0
    BY <1>4, <1>5, <1>6, <1>8
  <2>4. nu = 0 /\ oc - x = or + 1
    <3>1. /\ oc - x \in Int /\ or + 1 \in Int /\ 0 \in 0..(NuMod - 1)
          /\ (oc - x) * NuMod + nu = (or + 1) * NuMod + 0
      BY <1>4, <1>5, <1>6, <2>2, <2>3
    <3> QED
      BY <1>5, <3>1, PlaceUnique
  <2>5. oc = or + 1 /\ MsOc(nu) = or + 1
    BY <1>4, <1>5, <1>6, <1>8, <2>4
  <2>6. Place(nu, MsOc(nu), "up") = MsNextRecv(ms) + 1
    BY <1>6, <2>3, <2>4, <2>5
  <2> QED
    BY <2>2, <2>4, <2>5, <2>6 DEF nu, oc
<1> QED
  BY <1>7, <1>8 DEF DownRow, vr
\* A UI frame of the SGSN.
LEMMA MsUiStep == ASSUME Inv, MsUi PROVE Inv'
<1> DEFINE f == Head(down)
<1>1. /\ down # <<>> /\ Ui(f) /\ down' = Tail(down) /\ cfg' = cfg /\ lle' = lle /\ sne' = sne /\ up' = up
      /\ \/ ~Deciphered(f, MsOc(f.nu)) /\ obs' = [obs EXCEPT !.ms_refused = @ \cup {f.nu}] /\ ms' = ms
         \/ (\E n, q, whole : MsReassembles(f, n, q, whole)) /\ obs' = obs
  BY DEF MsUi, Ui
<1>2. Frames(down') /\ FrameOK(f)
  BY <1>1, FramesTail DEF Inv
<1>3. /\ CfgOK(cfg') /\ Frames(up') /\ SneOK(sne') /\ LleOK(lle') /\ MsOK(ms) /\ ObsOK(obs)
      /\ InStep(up, down, lle, ms, obs)
  BY <1>1 DEF Inv
<1>4. Undisturbed(obs) => DownRow(down, lle, ms)
  BY <1>3 DEF InStep
<1>5. CASE ~Deciphered(f, MsOc(f.nu)) /\ obs' = [obs EXCEPT !.ms_refused = @ \cup {f.nu}] /\ ms' = ms
  <2> DEFINE R == obs.ms_refused \cup {f.nu}
  <2>1. f.oc # MsOc(f.nu)
    BY <1>5 DEF Deciphered
  <2>2. R = obs.ms_refused \cup {f.nu} /\ obs' = [obs EXCEPT !.ms_refused = R]
    BY <1>5
  <2> HIDE DEF R
  <2>3. /\ ObsOK(obs') /\ obs'.ms_refused = R /\ obs'.refused = obs.refused /\ obs'.restarts = obs.restarts
        /\ obs'.faults = obs.faults
    BY <1>3, <2>2 DEF ObsOK
  <2>4. ASSUME Undisturbed(obs)
        PROVE  /\ f.nu = NuMod - 1 /\ ms.vur = NuMod - 1
               /\ InRow(Tail(down), "down", MsNextRecv(ms) + 1, NextSent(lle))
    <3>1. ms.oc_recv + 0 = ms.oc_recv
      BY <1>3 DEF MsOK
    <3>2. /\ f.nu = ms.vur /\ f.oc = ms.oc_recv + (IF f.nu = NuMod - 1 THEN 1 ELSE 0) /\ MsOc(f.nu) = ms.oc_recv
          /\ InRow(Tail(down), "down", MsNextRecv(ms) + 1, NextSent(lle))
      BY <1>1, <1>4, <2>1, <2>4, DownExpected
    <3> QED
      BY <2>1, <3>1, <3>2
  <2>5. UpRow(up, lle, ms) => UpRow(up', lle', ms')
    BY <1>1, <1>5
  <2> HIDE DEF f
  <2>6. InStep(up', down', lle', ms', obs')
    <3>1. SUFFICES ASSUME Undisturbed(obs')
                   PROVE  /\ DownRow(down', lle', ms') /\ obs'.ms_refused \subseteq {NuMod - 1}
                          /\ obs'.restarts = 0 => UpRow(up', lle', ms') /\ obs'.refused = 0
      BY DEF InStep
    <3>2. Undisturbed(obs)
      BY <2>3, <3>1 DEF Undisturbed
    <3>3. DownRow(down', lle', ms')
      BY <1>1, <1>5, <2>4, <3>2 DEF DownRow
    <3>4. obs'.ms_refused \subseteq {NuMod - 1}
      BY <1>3, <2>2, <2>3, <2>4, <3>2 DEF InStep
    <3> QED
      BY <1>3, <2>3, <2>5, <3>2, <3>3, <3>4 DEF InStep
  <2> QED
    BY <1>2, <1>3, <1>5, <2>3, <2>6 DEF Inv
<1>6. CASE (\E n, q, whole : MsReassembles(f, n, q, whole)) /\ obs' = obs
  <2>1. PICK n, q, whole : MsReassembles(f, n, q, whole)
    BY <1>6
  <2>2. /\ MsOK(ms') /\ MsNextSent(ms') = MsNextSent(ms)
        /\ MsNextRecv(ms') = Place(f.nu, MsOc(f.nu), "up") + 1
    BY <1>1, <1>2, <1>3, <2>1, MsTakesFrame
  <2>3. Undisturbed(obs) => InRow(Tail(down), "down", MsNextRecv(ms'), NextSent(lle))
    <3>1. Undisturbed(obs) => InRow(Tail(down), "down", Place(f.nu, MsOc(f.nu), "up") + 1, NextSent(lle))
      BY <1>1, <1>4, DownExpected
    <3> QED
      BY <2>2, <3>1
  <2>4. UpRow(up, lle, ms) => UpRow(up', lle', ms')
    BY <1>1, <2>2 DEF UpRow
  <2>5. Undisturbed(obs) => DownRow(down', lle', ms')
    BY <1>1, <2>3 DEF DownRow
  <2>6. InStep(up', down', lle', ms', obs')
    BY <1>3, <1>6, <2>4, <2>5 DEF InStep
  <2> QED
    BY <1>2, <1>3, <1>6, <2>2, <2>6 DEF Inv
<1> QED
  BY <1>1, <1>5, <1>6
-----------------------------------------------------------------------------
(* The way.                                                                *)

\* A frame is lost,
LEMMA LoseUpStep == ASSUME Inv, LoseUp PROVE Inv'
<1> DEFINE F == obs.faults \cup LostFault(Head(up))
<1>1. /\ cfg' = [cfg EXCEPT !.loss = @ - 1] /\ up # <<>> /\ up' = Tail(up) /\ obs' = [obs EXCEPT !.faults = F]
      /\ lle' = lle /\ sne' = sne /\ down' = down /\ ms' = ms
  BY DEF LoseUp
<1>2. "lost" \in F /\ obs.faults \subseteq F
  BY DEF LostFault
<1> HIDE DEF F
<1>3. ObsOK(obs') /\ obs'.faults = F
  BY <1>1, <1>2, ObsFaults DEF Inv, Calm
<1>4. InStep(up', down', lle', ms', obs')
  BY <1>2, <1>3, Disturbed
<1>5. CfgOK(cfg') /\ Frames(up')
  BY <1>1, CfgTails, FramesTail DEF Inv
<1> QED
  BY <1>1, <1>3, <1>4, <1>5 DEF Inv
LEMMA LoseDownStep == ASSUME Inv, LoseDown PROVE Inv'
<1> DEFINE F == obs.faults \cup {"lost"}
<1>1. /\ cfg' = [cfg EXCEPT !.loss = @ - 1] /\ down # <<>> /\ down' = Tail(down) /\ obs' = [obs EXCEPT !.faults = F]
      /\ lle' = lle /\ sne' = sne /\ up' = up /\ ms' = ms
  BY DEF LoseDown
<1>2. "lost" \in F /\ obs.faults \subseteq F
  OBVIOUS
<1> HIDE DEF F
<1>3. ObsOK(obs') /\ obs'.faults = F
  BY <1>1, <1>2, ObsFaults DEF Inv, Calm
<1>4. InStep(up', down', lle', ms', obs')
  BY <1>2, <1>3, Disturbed
<1>5. CfgOK(cfg') /\ Frames(down')
  BY <1>1, CfgTails, FramesTail DEF Inv
<1> QED
  BY <1>1, <1>3, <1>4, <1>5 DEF Inv
\* or comes twice.
LEMMA DupUpStep == ASSUME Inv, DupUp PROVE Inv'
<1> DEFINE F == obs.faults \cup {"dup"}
<1>1. /\ cfg' = [cfg EXCEPT !.dup = @ - 1] /\ up # <<>> /\ up' = <<Head(up)>> \o up /\ obs' = [obs EXCEPT !.faults = F]
      /\ lle' = lle /\ sne' = sne /\ down' = down /\ ms' = ms
  BY DEF DupUp
<1>2. "dup" \in F /\ obs.faults \subseteq F
  OBVIOUS
<1> HIDE DEF F
<1>3. ObsOK(obs') /\ obs'.faults = F
  BY <1>1, <1>2, ObsFaults DEF Inv, Calm
<1>4. InStep(up', down', lle', ms', obs')
  BY <1>2, <1>3, Disturbed
<1>5. FrameOK(Head(up))
  BY <1>1, FramesTail DEF Inv
<1>6. CfgOK(cfg') /\ Frames(up')
  BY <1>1, <1>5, CfgTails, FramesOne, FramesConcat DEF Inv
<1> QED
  BY <1>1, <1>3, <1>4, <1>6 DEF Inv
-----------------------------------------------------------------------------
(* The compression entities.                                               *)

Uniq(s) == \A i, j \in DOMAIN s : s[i].entity = s[j].entity => i = j
EntList(s) == IsList(s) /\ Uniq(s)
CompOK(c) == {"proto", "data", "gen"} \subseteq DOMAIN c /\ EntList(c.proto) /\ EntList(c.data)

\* All but one of a list.
LEMMA RemovedList ==
  ASSUME NEW s, IsList(s), NEW k \in 1..Len(s)
  PROVE  /\ IsList(RemoveAt(s, k)) /\ DOMAIN RemoveAt(s, k) = 1..(Len(s) - 1)
         /\ \A i \in 1..(Len(s) - 1) : RemoveAt(s, k)[i] = IF i < k THEN s[i] ELSE s[i + 1]
<1> DEFINE S == {s[i] : i \in 1..Len(s)}
           a == SubSeq(s, 1, k - 1)
           b == SubSeq(s, k + 1, Len(s))
<1>1. s \in Seq(S)
  BY ListSeq
<1> HIDE DEF S
<1>2. Len(s) \in Nat /\ k \in Nat /\ k > 0 /\ k <= Len(s)
  BY DEF IsList
<1>3. a \in Seq(S) /\ Len(a) = k - 1 /\ \A i \in 1..(k - 1) : a[i] = s[i]
  BY <1>1, <1>2
<1>4. b \in Seq(S) /\ Len(b) = Len(s) - k /\ \A i \in 1..(Len(s) - k) : b[i] = s[k + i]
  BY <1>1, <1>2
<1>5. RemoveAt(s, k) = a \o b
  BY DEF RemoveAt
<1> HIDE DEF a, b
<1>6. IsList(a) /\ IsList(b)
  BY <1>3, <1>4, SeqList
<1>7. /\ IsList(a \o b) /\ DOMAIN (a \o b) = 1..(Len(a) + Len(b))
      /\ \A i \in 1..(Len(a) + Len(b)) : (a \o b)[i] = IF i <= Len(a) THEN a[i] ELSE b[i - Len(a)]
  BY <1>6, ConcatList
<1>8. Len(a) + Len(b) = Len(s) - 1
  BY <1>2, <1>3, <1>4
<1>9. ASSUME NEW i \in 1..(Len(s) - 1) PROVE (a \o b)[i] = IF i < k THEN s[i] ELSE s[i + 1]
  <2>1. CASE i < k
    <3>1. i \in 1..(k - 1) /\ i <= Len(a)
      BY <1>2, <1>3, <2>1
    <3> QED
      BY <1>3, <1>7, <1>8, <2>1, <3>1
  <2>2. CASE ~(i < k)
    <3>1. i - Len(a) \in 1..(Len(s) - k) /\ ~(i <= Len(a)) /\ k + (i - Len(a)) = i + 1
      BY <1>2, <1>3, <2>2
    <3> QED
      BY <1>4, <1>7, <1>8, <2>2, <3>1
  <2> QED
    BY <2>1, <2>2
<1> QED
  BY <1>5, <1>7, <1>8, <1>9

\* gprs_sndcp_comp_delete ends at the first: there is no other.
LEMMA DeleteEnts ==
  ASSUME NEW s, EntList(s), NEW n
  PROVE  /\ EntList(gprs_sndcp_comp_delete(s, n))
         /\ \A i \in DOMAIN gprs_sndcp_comp_delete(s, n) : gprs_sndcp_comp_delete(s, n)[i].entity # n
<1> DEFINE I == {i \in 1..Len(s) : s[i].entity = n}
           t == gprs_sndcp_comp_delete(s, n)
<1>1. Len(s) \in Nat /\ DOMAIN s = 1..Len(s) /\ Uniq(s) /\ IsList(s)
  BY DEF EntList, IsList
<1>2. t = IF (IF I # {} THEN Min(I) ELSE 0) = 0 THEN s ELSE RemoveAt(s, IF I # {} THEN Min(I) ELSE 0)
  BY DEF gprs_sndcp_comp_delete, SelectInSeq
<1>3. CASE I = {}
  <2>1. t = s
    BY <1>2, <1>3
  <2> HIDE DEF t
  <2> QED
    BY <1>1, <1>3, <2>1 DEF t
<1>4. CASE I # {}
  <2>1. PICK k \in 1..Len(s) : s[k].entity = n
    BY <1>4
  <2>2. I = {k}
    BY <1>1, <2>1 DEF Uniq
  <2>3. Min({k}) = k
    <3>1. \E x \in {k} : \A y \in {k} : x <= y
      BY <1>1
    <3> QED
      BY <3>1 DEF Min
  <2>4. t = RemoveAt(s, k)
    <3> HIDE DEF I, t
    <3>1. k # 0
      BY <1>1
    <3> QED
      BY <1>2, <1>4, <2>2, <2>3, <3>1
  <2> HIDE DEF I, t
  <2>5. /\ IsList(t) /\ DOMAIN t = 1..(Len(s) - 1)
        /\ \A i \in 1..(Len(s) - 1) : t[i] = IF i < k THEN s[i] ELSE s[i + 1]
    BY <1>1, <2>4, RemovedList
  <2> DEFINE p(i) == IF i < k THEN i ELSE i + 1
  <2>6. \A i \in DOMAIN t : p(i) \in DOMAIN s /\ p(i) # k /\ t[i] = s[p(i)]
    BY <1>1, <2>5
  <2>7. \A i, j \in DOMAIN t : p(i) = p(j) => i = j
    BY <1>1, <2>5
  <2> HIDE DEF p
  <2>8. Uniq(t)
    BY <1>1, <2>6, <2>7 DEF Uniq
  <2>9. \A i \in DOMAIN t : t[i].entity # n
    BY <1>1, <2>1, <2>6 DEF Uniq
  <2> QED
    BY <2>5, <2>8, <2>9 DEF EntList, t
<1> QED
  BY <1>3, <1>4

\* gprs_sndcp_comp_add takes the place of the entity with this number.
LEMMA AddEnts ==
  ASSUME NEW s, EntList(s), NEW f PROVE EntList(gprs_sndcp_comp_add(s, f))
<1> DEFINE d == gprs_sndcp_comp_delete(s, f.entity)
           c == gprs_sndcp_comp_create(f)
           a == <<c>>
<1>1. EntList(d) /\ \A i \in DOMAIN d : d[i].entity # f.entity
  BY DeleteEnts
<1>2. c.entity = f.entity
  BY DEF gprs_sndcp_comp_create
<1>3. gprs_sndcp_comp_add(s, f) = a \o d
  BY DEF gprs_sndcp_comp_add
<1> HIDE DEF d, c
<1>4. IsList(a) /\ Len(a) = 1 /\ a[1] = c
  <2>1. a \in Seq({c})
    OBVIOUS
  <2> QED
    BY <2>1, SeqList
<1> HIDE DEF a
<1>5. IsList(d) /\ DOMAIN d = 1..Len(d) /\ Len(d) \in Nat
  BY <1>1 DEF EntList, IsList
<1>6. /\ IsList(a \o d) /\ DOMAIN (a \o d) = 1..(1 + Len(d))
      /\ \A i \in 1..(1 + Len(d)) : (a \o d)[i] = IF i <= 1 THEN a[i] ELSE d[i - 1]
  BY <1>4, <1>5, ConcatList, ZenonT(30)
<1> DEFINE t == a \o d
<1> HIDE DEF t
<1>7. \A i \in DOMAIN t : \/ i = 1 /\ t[i] = c
                          \/ i # 1 /\ i - 1 \in DOMAIN d /\ t[i] = d[i - 1]
  BY <1>4, <1>5, <1>6 DEF t
<1>8. \A i, j \in DOMAIN t : i - 1 = j - 1 => i = j
  BY <1>5, <1>6 DEF t
<1>9. Uniq(t)
  BY <1>1, <1>2, <1>7, <1>8 DEF Uniq, EntList
<1> QED
  BY <1>3, <1>6, <1>9 DEF EntList, t

\* One field of a proposal or of a confirmation.
LEMMA HandleEnts ==
  ASSUME NEW st, NEW f, CompOK(st.comp) PROVE CompOK(HandleField(st, f).comp)
<1> DEFINE c == st.comp
           pa == gprs_sndcp_comp_add(c.proto, f)
           pd == gprs_sndcp_comp_delete(c.proto, f.entity)
           da == gprs_sndcp_comp_add(c.data, f)
           dd == gprs_sndcp_comp_delete(c.data, f.entity)
<1>1. EntList(pa) /\ EntList(pd) /\ EntList(da) /\ EntList(dd)
  BY AddEnts, DeleteEnts DEF CompOK
<1>2. \/ HandleField(st, f).comp = [c EXCEPT !.proto = pa]
      \/ HandleField(st, f).comp = [c EXCEPT !.proto = pd]
      \/ HandleField(st, f).comp = [c EXCEPT !.data = da]
      \/ HandleField(st, f).comp = [c EXCEPT !.data = dd]
      \/ HandleField(st, f).comp = [c EXCEPT !.proto = pd, !.data = dd]
  <2> DEFINE x == gprs_sndcp_get_compression_class(f)
  <2>1. handle_pcomp_entities(st, f).comp = IF Accepted(f) THEN [c EXCEPT !.proto = pa] ELSE [c EXCEPT !.proto = pd]
    BY DEF handle_pcomp_entities
  <2>2. handle_dcomp_entities(st, f).comp = IF Accepted(f) THEN [c EXCEPT !.data = da] ELSE [c EXCEPT !.data = dd]
    BY DEF handle_dcomp_entities
  <2>3. \/ x = "pcomp" /\ HandleField(st, f) = handle_pcomp_entities(st, f)
        \/ x = "dcomp" /\ HandleField(st, f) = handle_dcomp_entities(st, f)
        \/ HandleField(st, f).comp = [c EXCEPT !.proto = pd, !.data = dd]
    BY DEF HandleField
  <2> HIDE DEF c, pa, pd, da, dd
  <2> QED
    BY <2>1, <2>2, <2>3
<1>3. CompOK(c)
  OBVIOUS
<1> HIDE DEF c, pa, pd, da, dd
<1>4. CompOK([c EXCEPT !.proto = pa]) /\ CompOK([c EXCEPT !.proto = pd])
  BY <1>1, <1>3 DEF CompOK
<1>5. CompOK([c EXCEPT !.data = da]) /\ CompOK([c EXCEPT !.data = dd])
  BY <1>1, <1>3 DEF CompOK
<1>6. CompOK([c EXCEPT !.proto = pd, !.data = dd])
  BY <1>1, <1>3 DEF CompOK
<1> QED
  BY <1>2, <1>4, <1>5, <1>6

\* The n-th value of the recursion in Handled, when the earlier ones are those of g.
HandledStep(g, fields, n) ==
  IF n = 0 THEN [echo |-> <<>>, comp |-> comp] ELSE HandleField(g[n - 1], fields[n])

\* There is a function that satisfies the recursion, up to every m.
LEMMA HandledExists ==
  ASSUME NEW fields
  PROVE  \A m \in Nat : \E g : g = [n \in 0..m |-> HandledStep(g, fields, n)]
<1> DEFINE I == {m \in Nat : \E g : g = [n \in 0..m |-> HandledStep(g, fields, n)]}
<1>1. 0 \in I
  <2> DEFINE z == [n \in 0..0 |-> [echo |-> <<>>, comp |-> comp]]
  <2>1. z = [n \in 0..0 |-> HandledStep(z, fields, n)]
    BY DEF HandledStep
  <2> QED
    BY <2>1
<1>2. ASSUME NEW m \in Nat, m \in I PROVE m + 1 \in I
  <2>1. PICK g : g = [n \in 0..m |-> HandledStep(g, fields, n)]
    BY <1>2
  <2> DEFINE h == [n \in 0..(m + 1) |-> IF n = m + 1 THEN HandledStep(g, fields, n) ELSE g[n]]
  <2>2. ASSUME NEW n \in 0..(m + 1) PROVE h[n] = HandledStep(h, fields, n)
    <3>1. n # 0 => h[n - 1] = g[n - 1]
      OBVIOUS
    <3>2. n # m + 1 => g[n] = HandledStep(g, fields, n)
      BY <2>1
    <3>3. HandledStep(h, fields, n) = HandledStep(g, fields, n)
      BY <3>1 DEF HandledStep
    <3> QED
      BY <3>2, <3>3
  <2>3. h = [n \in 0..(m + 1) |-> HandledStep(h, fields, n)]
    BY <2>2
  <2> HIDE DEF h
  <2> QED
    BY <2>3
<1> HIDE DEF I
<1>3. \A m \in Nat : m \in I
  BY <1>1, <1>2, SetInduction
<1> QED
  BY <1>3 DEF I

\* All fields.
LEMMA HandledEnts ==
  ASSUME NEW fields, Len(fields) \in Nat, CompOK(comp) PROVE CompOK(Handled(fields).comp)
<1> DEFINE h == CHOOSE g : g = [n \in 0..Len(fields) |-> HandledStep(g, fields, n)]
<1>1. h = [n \in 0..Len(fields) |-> HandledStep(h, fields, n)]
  BY HandledExists
<1>2. Handled(fields) = h[Len(fields)]
  BY DEF Handled, HandledStep
<1> HIDE DEF h
<1> DEFINE I == {n \in Nat : n <= Len(fields) => CompOK(h[n].comp)}
<1>3. 0 \in I
  <2>1. h[0] = [echo |-> <<>>, comp |-> comp]
    BY <1>1 DEF HandledStep
  <2> QED
    BY <2>1
<1>4. ASSUME NEW n \in Nat, n \in I PROVE n + 1 \in I
  <2>1. SUFFICES ASSUME n + 1 <= Len(fields) PROVE CompOK(h[n + 1].comp)
    OBVIOUS
  <2>2. h[n + 1] = HandleField(h[n], fields[n + 1])
    <3>1. n + 1 \in 0..Len(fields) /\ n + 1 # 0 /\ (n + 1) - 1 = n
      BY <2>1
    <3>2. h[n + 1] = HandledStep(h, fields, n + 1)
      BY <1>1, <3>1
    <3> QED
      BY <3>1, <3>2 DEF HandledStep
  <2>3. CompOK(h[n].comp)
    BY <1>4, <2>1
  <2> QED
    BY <2>2, <2>3, HandleEnts
<1> HIDE DEF I
<1>5. \A n \in Nat : n \in I
  BY <1>3, <1>4, SetInduction
<1> QED
  BY <1>2, <1>5 DEF I

\* Decoding: the fields so far are a list.
Decoding(st) == {"ok", "fields", "rest"} \subseteq DOMAIN st /\ IsList(st.fields)
LEMMA FieldPassList ==
  ASSUME NEW st, Decoding(st), NEW table, NEW class PROVE Decoding(FieldPass(st, table, class))
<1> DEFINE d == decode_comp_field(st.rest, table, class)
           r == FieldTaken(st, d)
<1>1. ASSUME NEW x PROVE IsList(<<x>> \o st.fields)
  <2>1. <<x>> \in Seq({x})
    OBVIOUS
  <2> QED
    BY <2>1, SeqList, ConcatList DEF Decoding
<1> HIDE DEF d
<1>2. {"ok", "fields", "rest"} \subseteq DOMAIN r /\ r.fields = IF d.ok THEN <<d.field>> \o st.fields ELSE st.fields
  BY DEF FieldTaken
<1>3. FieldPass(st, table, class) = st \/ FieldPass(st, table, class) = r
  BY DEF FieldPass, d
<1> HIDE DEF r
<1>4. Decoding(r)
  BY <1>1, <1>2 DEF Decoding
<1> QED
  BY <1>3, <1>4

\* The n-th value of the recursion in decode_xid_block.
BlockStep(g, fields, octets, table, class, n) ==
  IF n = 0 THEN [ok |-> octets # <<>>, fields |-> fields, rest |-> octets] ELSE FieldPass(g[n - 1], table, class)
LEMMA BlockExists ==
  ASSUME NEW fields, NEW octets, NEW table, NEW class
  PROVE  \A m \in Nat : \E g : g = [n \in 0..m |-> BlockStep(g, fields, octets, table, class, n)]
<1> DEFINE I == {m \in Nat : \E g : g = [n \in 0..m |-> BlockStep(g, fields, octets, table, class, n)]}
<1>1. 0 \in I
  <2> DEFINE z == [n \in 0..0 |-> [ok |-> octets # <<>>, fields |-> fields, rest |-> octets]]
  <2>1. z = [n \in 0..0 |-> BlockStep(z, fields, octets, table, class, n)]
    BY DEF BlockStep
  <2> QED
    BY <2>1
<1>2. ASSUME NEW m \in Nat, m \in I PROVE m + 1 \in I
  <2>1. PICK g : g = [n \in 0..m |-> BlockStep(g, fields, octets, table, class, n)]
    BY <1>2
  <2> DEFINE h == [n \in 0..(m + 1) |-> IF n = m + 1 THEN BlockStep(g, fields, octets, table, class, n) ELSE g[n]]
  <2>2. ASSUME NEW n \in 0..(m + 1) PROVE h[n] = BlockStep(h, fields, octets, table, class, n)
    <3>1. n # 0 => h[n - 1] = g[n - 1]
      OBVIOUS
    <3>2. n # m + 1 => g[n] = BlockStep(g, fields, octets, table, class, n)
      BY <2>1
    <3>3. BlockStep(h, fields, octets, table, class, n) = BlockStep(g, fields, octets, table, class, n)
      BY <3>1 DEF BlockStep
    <3> QED
      BY <3>2, <3>3
  <2>3. h = [n \in 0..(m + 1) |-> BlockStep(h, fields, octets, table, class, n)]
    BY <2>2
  <2> HIDE DEF h
  <2> QED
    BY <2>3
<1> HIDE DEF I
<1>3. \A m \in Nat : m \in I
  BY <1>1, <1>2, SetInduction
<1> QED
  BY <1>3 DEF I

\* A block.
LEMMA BlockList ==
  ASSUME NEW fields, IsList(fields), NEW octets, NEW table, NEW class
  PROVE  Decoding(decode_xid_block(fields, octets, table, class))
<1> DEFINE M == 2 * MAX_ENTITIES + 1
           h == CHOOSE g : g = [n \in 0..M |-> BlockStep(g, fields, octets, table, class, n)]
<1>0. M \in Nat
  BY DEF MAX_ENTITIES
<1>1. decode_xid_block(fields, octets, table, class) = AllTaken(h[M])
  BY DEF decode_xid_block, BlockStep
<1> HIDE DEF M
<1>2. h = [n \in 0..M |-> BlockStep(h, fields, octets, table, class, n)]
  BY <1>0, BlockExists
<1> HIDE DEF h
<1> DEFINE I == {n \in Nat : n <= M => Decoding(h[n])}
<1>3. 0 \in I
  <2>1. h[0] = [ok |-> octets # <<>>, fields |-> fields, rest |-> octets]
    BY <1>0, <1>2 DEF BlockStep
  <2> QED
    BY <2>1 DEF Decoding
<1>4. ASSUME NEW n \in Nat, n \in I PROVE n + 1 \in I
  <2>1. SUFFICES ASSUME n + 1 <= M PROVE Decoding(h[n + 1])
    OBVIOUS
  <2>2. h[n + 1] = FieldPass(h[n], table, class)
    <3>1. n + 1 \in 0..M /\ n + 1 # 0 /\ (n + 1) - 1 = n
      BY <1>0, <2>1
    <3>2. h[n + 1] = BlockStep(h, fields, octets, table, class, n + 1)
      BY <1>2, <3>1
    <3> QED
      BY <3>1, <3>2 DEF BlockStep
  <2>3. Decoding(h[n])
    BY <1>0, <1>4, <2>1
  <2> QED
    BY <2>2, <2>3, FieldPassList
<1> HIDE DEF I
<1>5. \A n \in Nat : n \in I
  BY <1>3, <1>4, SetInduction
<1>6. Decoding(h[M])
  BY <1>0, <1>5 DEF I
<1>7. Decoding(AllTaken(h[M]))
  BY <1>6 DEF AllTaken, Decoding
<1> QED
  BY <1>1, <1>7

\* What is decoded of a message is a list of fields, completed or not.
LEMMA ParsedList == ASSUME NEW octets, NEW req PROVE IsList(gprs_sndcp_parse_xid(octets, req).fields)
<1> DEFINE table == gprs_sndcp_fill_table(req)
           d == gprs_sndcp_decode_xid(octets, table)
<1>1. ASSUME NEW st, Decoding(st), NEW first PROVE Decoding(TlvPass(st, table, first))
  <2> DEFINE b == IF st.rest[1] \notin {1, 2} THEN st
                  ELSE decode_xid_block(st.fields, SubSeq(st.rest, 3, 2 + st.rest[2]), table,
                                        IF st.rest[1] = 1 THEN "dcomp" ELSE "pcomp")
             r == BlockTaken(st, b)
  <2>1. Decoding(b)
    BY <1>1, BlockList DEF Decoding
  <2>2. TlvPass(st, table, first) = st \/ TlvPass(st, table, first) = r
    BY DEF TlvPass
  <2> HIDE DEF b
  <2>3. Decoding(r)
    BY <2>1 DEF Decoding, BlockTaken
  <2> HIDE DEF r
  <2> QED
    BY <1>1, <2>2, <2>3
<1>2. IsList(d.fields)
  <2> DEFINE nul == [ok |-> TRUE, fields |-> <<>>, rest |-> octets]
             one == TlvPass(nul, table, TRUE)
             two == TlvPass(one, table, FALSE)
             thr == TlvPass(two, table, FALSE)
  <2>1. Decoding(nul)
    BY DEF Decoding, IsList
  <2>2. d = XidTaken(thr)
    BY DEF gprs_sndcp_decode_xid
  <2> HIDE DEF nul, table, d
  <2>3. Decoding(one)
    BY <1>1, <2>1
  <2> HIDE DEF one
  <2>4. Decoding(two)
    BY <1>1, <2>3
  <2> HIDE DEF two
  <2>5. Decoding(thr)
    BY <1>1, <2>4
  <2> HIDE DEF thr
  <2> QED
    BY <2>2, <2>5 DEF XidTaken, Decoding
<1> DEFINE c == gprs_sndcp_complete_comp_fields(d.fields, req)
           e == Completed(c).fields
<1>3. IsList(e)
  <2>1. DOMAIN d.fields = 1..Len(d.fields) /\ Len(d.fields) \in Nat
    BY <1>2 DEF IsList
  <2> HIDE DEF d
  <2>2. DOMAIN c = 1..Len(d.fields)
    BY <2>1 DEF gprs_sndcp_complete_comp_fields
  <2> HIDE DEF c
  <2>3. e = [i \in 1..Len(d.fields) |-> e[i]]
    BY <2>2 DEF Completed
  <2> HIDE DEF e
  <2> QED
    BY <2>1, <2>3, FunList
<1>4. \/ gprs_sndcp_parse_xid(octets, req).fields = d.fields
      \/ gprs_sndcp_parse_xid(octets, req).fields = e
      \/ gprs_sndcp_parse_xid(octets, req).fields = <<>>
  BY DEF gprs_sndcp_parse_xid, Parsed
<1> HIDE DEF d, e
<1> QED
  BY <1>2, <1>3, <1>4 DEF IsList

\* An indication and a confirmation.
LEMMA IndEnts == ASSUME CompOK(comp), NEW l3 PROVE CompOK(sndcp_sn_xid_ind(l3).comp)
<1> DEFINE d == gprs_sndcp_parse_xid(l3, <<>>)
<1>1. Len(d.fields) \in Nat
  BY ParsedList DEF IsList
<1> HIDE DEF d
<1>2. CompOK(Handled(d.fields).comp)
  BY <1>1, HandledEnts
<1>3. sndcp_sn_xid_ind(l3).comp = comp \/ sndcp_sn_xid_ind(l3).comp = Handled(d.fields).comp
  BY DEF sndcp_sn_xid_ind, XidUnderstood, XidAnswer, d
<1> QED
  BY <1>2, <1>3
LEMMA ConfEnts == ASSUME CompOK(comp), NEW l3, NEW request PROVE CompOK(sndcp_sn_xid_conf(l3, request))
<1> DEFINE d == gprs_sndcp_parse_xid(l3, gprs_sndcp_parse_xid(request, <<>>).fields)
<1>1. Len(d.fields) \in Nat
  BY ParsedList DEF IsList
<1>2. sndcp_sn_xid_conf(l3, request) = XidConfirmed(d)
  BY DEF sndcp_sn_xid_conf
<1> HIDE DEF d
<1>3. CompOK(Handled(d.fields).comp)
  BY <1>1, HandledEnts
<1> QED
  BY <1>2, <1>3 DEF XidConfirmed

\* Every step keeps the lists.
LEMMA NextEnts == CompOK(comp) /\ [Next]_vars => CompOK(comp')
<1> SUFFICES ASSUME CompOK(comp), [Next]_vars PROVE CompOK(comp')
  OBVIOUS
<1>1. CASE Activate
  <2> DEFINE c == [proto |-> <<>>, data |-> <<>>, gen |-> comp.gen + 1]
  <2>1. comp' = c
    BY <1>1 DEF Activate, sndcp_sn_xid_req
  <2>2. EntList(<<>>)
    BY DEF EntList, IsList, Uniq
  <2>3. CompOK(c)
    BY <2>2 DEF CompOK
  <2> QED
    BY <2>1, <2>3
<1>2. CASE gprs_llc_process_xid_ind
  <2>1. comp' = comp \/ \E l3 : comp' = sndcp_sn_xid_ind(l3).comp
    BY <1>2 DEF gprs_llc_process_xid_ind, XidFieldsInd, XidL3Ind, XidReplied
  <2> QED
    BY <2>1, IndEnts
<1>3. CASE gprs_llc_process_xid_conf
  <2>1. comp' = comp \/ \E l3, request : comp' = sndcp_sn_xid_conf(l3, request)
    BY <1>3 DEF gprs_llc_process_xid_conf, XidL3Conf
  <2> QED
    BY <2>1, ConfEnts
<1>4. CASE sndcp_sm_deactivate_ind \/ cb_data_ind \/ rx_ui \/ rx_other
  BY <1>4 DEF sndcp_sm_deactivate_ind, cb_data_ind, rx_ui, rx_other
<1>5. CASE MsSend \/ MsOther \/ MsRestart \/ MsPropose \/ MsXid \/ MsUi \/ MsDm \/ LoseUp \/ LoseDown \/ DupUp
  BY <1>5 DEF MsSend, MsOther, MsRestart, MsPropose, MsXid, MsUi, MsDm, LoseUp, LoseDown, DupUp
<1>6. CASE UNCHANGED vars
  BY <1>6 DEF vars
<1> QED
  BY <1>1, <1>2, <1>3, <1>4, <1>5, <1>6 DEF Next
-----------------------------------------------------------------------------
(* The theorems.                                                           *)

\* The first state.
LEMMA InitInv == Init => Inv
<1> SUFFICES ASSUME Init PROVE Inv
  OBVIOUS
<1>0. NuMod \in Nat /\ NuMod > 1 /\ Scenarios \subseteq ScenarioType
  BY BearerAssumption
<1>1. CfgOK(cfg)
  <2>1. cfg \in ScenarioType
    BY <1>0 DEF Init
  <2> QED
    BY <2>1 DEF ScenarioType, CfgOK
<1>2. lle = NewLle /\ sne = [n \in Nsapis |-> NoSne] /\ up = <<>> /\ down = <<>> /\ ms = NewMs /\ obs = NewObs
  BY DEF Init
<1>3. LleOK(lle) /\ NextRecv(lle) = 0 /\ NextSent(lle) = 0
  <2>1. NewLle.xid = NoXid /\ NewLle \in [vu_send : 0..(NuMod - 1), oc_send : Nat, vu_recv : 0..(NuMod - 1), oc_recv : Nat,
            last : 0..(NuMod - 1), dups : {NewLle.dups}, xid : {NewLle.xid}]
    BY <1>0 DEF NewLle
  <2>2. NewLle.vu_recv = 0 /\ NewLle.oc_recv = 0 /\ NewLle.vu_send = 0 /\ NewLle.oc_send = 0
    BY DEF NewLle
  <2>3. Place(0, 0, "up") = 0 /\ Place(0, 0, "down") = 0
    BY <1>0 DEF Place
  <2> QED
    BY <1>2, <2>1, <2>2, <2>3 DEF LleOK, NextRecv, NextSent
<1>4. MsOK(ms) /\ MsNextRecv(ms) = 0 /\ MsNextSent(ms) = 0
  <2>1. NewMs.vur = 0 /\ NewMs.oc_recv = 0 /\ NewMs.vu = 0 /\ NewMs.oc_send = 0
    BY DEF NewMs
  <2>2. MsOK(NewMs)
    BY <1>0 DEF NewMs, MsOK
  <2>3. Place(0, 0, "up") = 0
    BY <1>0 DEF Place
  <2> QED
    BY <1>2, <2>1, <2>2, <2>3 DEF MsNextRecv, MsNextSent
<1>5. ObsOK(obs) /\ obs.refused = 0 /\ obs.ms_refused = {}
  BY <1>2 DEF NewObs, ObsOK
<1>6. SneOK(sne)
  BY <1>2 DEF SneOK, NoSne
<1>7. Frames(up) /\ Frames(down)
  BY <1>2 DEF Frames, IsList
<1>8. ASSUME NEW way PROVE InRow(<<>>, way, 0, 0)
  BY DEF InRow
<1>9. InStep(up, down, lle, ms, obs)
  BY <1>2, <1>3, <1>4, <1>5, <1>8 DEF InStep, UpRow, DownRow
<1> QED
  BY <1>1, <1>3, <1>4, <1>5, <1>6, <1>7, <1>9 DEF Inv

\* Every step keeps the invariant.
LEMMA NextInv == Inv /\ [Next]_vars => Inv'
<1> SUFFICES ASSUME Inv, [Next]_vars PROVE Inv'
  OBVIOUS
<1>1. CASE UNCHANGED vars
  BY <1>1 DEF vars, Inv
<1>2. CASE Activate \/ sndcp_sm_deactivate_ind \/ cb_data_ind \/ rx_ui \/ rx_other
  BY <1>2, ActivateStep, DeactivateStep, DataStep, RxUiStep, RxOtherStep
<1>3. CASE gprs_llc_process_xid_ind \/ gprs_llc_process_xid_conf \/ MsSend \/ MsOther \/ MsRestart
  BY <1>3, XidIndStep, XidConfStep, MsSendStep, MsOtherStep, MsRestartStep
<1>4. CASE MsPropose \/ MsXid \/ MsUi \/ MsDm \/ LoseUp \/ LoseDown \/ DupUp
  BY <1>4, MsProposeStep, MsXidStep, MsUiStep, MsDmStep, LoseUpStep, LoseDownStep, DupUpStep
<1> QED
  BY <1>1, <1>2, <1>3, <1>4 DEF Next

\* The counters of both ends (gprs_llc_tx_ui, gprs_llc_hdr_rx): the frames under way are the row
\* from the one that the receiver expects to the last one sent, as long as nothing is lost or
\* repeated, for every modulus, frame size and scenario.
THEOREM Invariance == Spec => []Inv
  BY InitInv, NextInv, PTL DEF Spec

\* Numbers and moduli (gprs_llc_tx_ui, gprs_llc_generate_xid, sndcp_send_ud_frag): V(U), V(UR)
\* and the N-PDU numbers stay below their moduli, and the saved request has its three fields.
THEOREM TypeCorrect == Spec => []TypeOK
<1>1. Inv => TypeOK
  BY DEF Inv, TypeOK, LleOK, SneOK
<1> QED
  BY <1>1, Invariance, PTL

\* Overflow counters (gprs_llc_tx_ui, gprs_llc_hdr_rx): with nothing lost or repeated, no frame of
\* an MS that goes on with its numbers is refused, and none of the SGSN but the last of a cycle.
THEOREM CipherCounters == Spec => []CipherInStep
<1>1. Inv => CipherInStep
  BY DEF Inv, CipherInStep, InStep, Undisturbed
<1> QED
  BY <1>1, Invariance, PTL

\* Compression entities (gprs_sndcp_comp_add, gprs_sndcp_comp_delete): no two of a list have one
\* number, so that a deletion that ends at the first deletes the only one, for every message of the MS.
THEOREM NumbersUnique == Spec => []EntitiesUnique
<1> DEFINE E == CompOK(comp)
<1>1. Init => E
  <2>1. EntList(<<>>)
    BY DEF EntList, IsList, Uniq
  <2> QED
    BY <2>1 DEF Init, CompOK
<1>2. E => EntitiesUnique
  BY DEF CompOK, EntList, Uniq, EntitiesUnique
<1>3. E /\ [Next]_vars => E'
  BY NextEnts
<1> HIDE DEF E
<1> QED
  BY <1>1, <1>2, <1>3, PTL DEF Spec
=============================================================================
