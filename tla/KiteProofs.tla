------------------------------- MODULE KiteProofs ------------------------------
(***************************************************************************)
(* The KITE router.  An entry of the pending table has one timer, which no    *)
(* earlier Interest left behind; the next hop of the trace table has one,     *)
(* which it owns; and pending Interests reach that next hop.                  *)
(***************************************************************************)
EXTENDS KiteRouter, FiniteSetTheorems, WellFoundedInduction, TLAPS

USE DEF NoTime, NoNonce, NoTimer

--------------------------------------------------------------------------------
(* The inductive invariant *)

Moment == Nat \cup {NoTime}
Entry == [live : BOOLEAN, in : Seq(InRecord), out : SUBSET OutRecord,
          unsatisfy : Moment, straggler : Moment, satisfied : BOOLEAN]

\* No two of the records R are of one face.
OneEach(R) == \A o, q \in R : o.face = q.face => o = q

\* A face has one record of each kind, and no in-record outlives a new Interest of its name.
RecordsInv(e, n, t) ==
    /\ \A i, j \in 1..Len(e.in) : e.in[i].face = e.in[j].face => i = j
    /\ OneEach(e.out)
    /\ \A i \in 1..Len(e.in) : e.in[i].expiry <= t + Lifetime(n)

\* An entry has one running timer, and the unsatisfy timer is not before its in-records.
TimersInv(e, t) ==
    /\ e.live => /\ e.unsatisfy # NoTime <=> e.straggler = NoTime
                 /\ e.unsatisfy # NoTime => e.unsatisfy >= t
                 /\ e.straggler # NoTime => e.straggler >= t
    /\ e.unsatisfy # NoTime =>
          \A i \in 1..Len(e.in) : e.in[i].expiry <= e.unsatisfy
    /\ ~e.live => e = NoEntry

EntryInv(e, n, t) == e \in Entry /\ RecordsInv(e, n, t) /\ TimersInv(e, t)

PitInv == pit \in [Name -> Entry] /\ \A n \in Name : EntryInv(pit[n], n, now)

\* The faces that asked for a trace are among those on which it was announced.
TraceInv ==
    /\ traceFaces \in [TraceSeq -> SUBSET Face]
    /\ \A n \in TraceName : \A i \in 1..Len(pit[n].in) :
          pit[n].in[i].face \in traceFaces[n[2]]

\* A next hop is a face of its trace, with a call of its own.
TibInv ==
    /\ tib \in [live : BOOLEAN, id : Nat, seq : TraceSeq \cup {0},
                hop : Face \cup {NoFace}, timer : Nat \cup {NoTimer}]
    /\ tib.hop # NoFace => /\ tib.live /\ tib.seq \in TraceSeq
                           /\ tib.hop \in traceFaces[tib.seq]
    /\ hopTimers \subseteq [uid : Nat, at : Nat, face : Face, entry : Nat]
    /\ HopTimerIsOwned

CallsInv == /\ now \in Nat /\ nextUid \in Nat
            /\ pulls \subseteq [at : Nat, name : ContentName, face : Face]

KiteInv == CallsInv /\ PitInv /\ TraceInv /\ TibInv
--------------------------------------------------------------------------------
(* Facts about the operators *)

\* The assumptions on the constants, as the proofs below use them.
LEMMA ConstantFacts ==
  /\ FibNextHops \subseteq Face /\ NoFace \notin Face
  /\ TraceSeq \subseteq Nat \ {0} /\ NoNonce \notin Nonce
  /\ \A n \in Name : Lifetime(n) \in Nat
  /\ StragglerTime \in Nat /\ ProlongTime \in Nat /\ TraceLifetime \in Nat
  /\ TraceName \subseteq Name /\ ContentName \subseteq Name
  /\ \A n \in TraceName : n[2] \in TraceSeq
BY KiteForwarderAssumption DEF Lifetime, Name, TraceName, ContentName

\* A record of a face that has one takes its place in the sequence.
LEMMA ReplacedRecord ==
  ASSUME NEW s \in Seq(InRecord), NEW r \in InRecord, NEW m \in Nat, r.expiry = m,
         \A i, j \in 1..Len(s) : s[i].face = s[j].face => i = j,
         \A i \in 1..Len(s) : s[i].expiry <= m,
         NEW k \in 1..Len(s), s[k].face = r.face,
         NEW q, q = [i \in 1..Len(s) |-> IF s[i].face = r.face THEN r ELSE s[i]]
  PROVE  /\ q \in Seq(InRecord) /\ Len(q) = Len(s)
         /\ \A i, j \in 1..Len(q) : q[i].face = q[j].face => i = j
         /\ \A i \in 1..Len(q) : q[i].expiry <= m /\ q[i].face = s[i].face
         /\ \E i \in 1..Len(q) : q[i] = r
<1>1. Len(s) \in Nat /\ \A i \in 1..Len(s) : s[i] \in InRecord
  OBVIOUS
<1>2. \A i \in 1..Len(s) : q[i] = IF s[i].face = r.face THEN r ELSE s[i]
  OBVIOUS
<1>3. q \in Seq(InRecord) /\ Len(q) = Len(s)
  BY <1>1
<1>4. \A i \in 1..Len(s) : q[i].face = s[i].face /\ q[i].expiry <= m
  <2> TAKE i \in 1..Len(s)
  <2>1. CASE s[i].face = r.face
    BY <1>2, <2>1
  <2>2. CASE s[i].face # r.face
    BY <1>2, <2>2
  <2> QED
    BY <2>1, <2>2
<1>5. q[k] = r
  BY <1>2
<1> QED
  BY <1>3, <1>4, <1>5

\* A record of a new face comes first.
LEMMA PrependedRecord ==
  ASSUME NEW s \in Seq(InRecord), NEW r \in InRecord, NEW m \in Nat, r.expiry = m,
         \A i, j \in 1..Len(s) : s[i].face = s[j].face => i = j,
         \A i \in 1..Len(s) : s[i].expiry <= m,
         \A i \in 1..Len(s) : s[i].face # r.face,
         NEW q, q = <<r>> \o s
  PROVE  /\ q \in Seq(InRecord) /\ Len(q) = Len(s) + 1
         /\ \A i, j \in 1..Len(q) : q[i].face = q[j].face => i = j
         /\ \A i \in 1..Len(q) : q[i].expiry <= m
         /\ q[1] = r /\ \A i \in 2..Len(q) : i - 1 \in 1..Len(s) /\ q[i] = s[i - 1]
<1>1. Len(s) \in Nat /\ \A i \in 1..Len(s) : s[i] \in InRecord
  OBVIOUS
<1>2. q \in Seq(InRecord) /\ Len(q) = Len(s) + 1
  OBVIOUS
<1>3. q[1] = r /\ \A i \in 2..Len(q) : i - 1 \in 1..Len(s) /\ q[i] = s[i - 1]
  BY <1>1, <1>2
<1>4. \A i \in 1..Len(q) : q[i].expiry <= m
  <2> TAKE i \in 1..Len(q)
  <2>1. CASE i = 1
    BY <1>3, <2>1
  <2>2. CASE i \in 2..Len(q)
    BY <1>3, <2>2
  <2> QED
    BY <1>1, <1>2, <2>1, <2>2
<1>5. \A i, j \in 1..Len(q) : q[i].face = q[j].face => i = j
  <2> SUFFICES ASSUME NEW i \in 1..Len(q), NEW j \in 1..Len(q), q[i].face = q[j].face
               PROVE  i = j
    OBVIOUS
  <2>1. CASE i = 1 /\ j \in 2..Len(q)
    BY <1>3, <2>1
  <2>2. CASE j = 1 /\ i \in 2..Len(q)
    BY <1>3, <2>2
  <2>3. CASE i \in 2..Len(q) /\ j \in 2..Len(q)
    <3>1. i - 1 = j - 1
      BY <1>3, <2>3
    <3> QED
      BY <3>1
  <2>4. CASE i = 1 /\ j = 1
    BY <2>4
  <2> QED
    BY <1>1, <1>2, <2>1, <2>2, <2>3, <2>4
<1> QED
  BY <1>2, <1>3, <1>4, <1>5

\* The records of a sequence, by their places.
LEMMA RecordsOfFaces ==
  ASSUME NEW e \in Entry
  PROVE  /\ DOMAIN e.in = 1..Len(e.in) /\ Len(e.in) \in Nat
         /\ \A i \in 1..Len(e.in) : e.in[i] \in InRecord
         /\ ToSet(e.in) = {e.in[i] : i \in 1..Len(e.in)}
         /\ InFaces(e) = {e.in[i].face : i \in 1..Len(e.in)}
<1>1. e.in \in Seq(InRecord)
  BY DEF Entry
<1>2. DOMAIN e.in = 1..Len(e.in) /\ Len(e.in) \in Nat /\ \A i \in 1..Len(e.in) : e.in[i] \in InRecord
  BY <1>1
<1>3. ToSet(e.in) = {e.in[i] : i \in 1..Len(e.in)}
  BY <1>2 DEF ToSet
<1> QED
  BY <1>2, <1>3 DEF InFaces

\* A record that has a place is in the entry.
LEMMA RecordIsIn ==
  ASSUME NEW e \in Entry, NEW i \in 1..Len(e.in)
  PROVE  e.in[i] \in ToSet(e.in) /\ e.in[i].expiry \in Nat
<1>1. e.in[i] \in InRecord /\ ToSet(e.in) = {e.in[k] : k \in 1..Len(e.in)}
  BY RecordsOfFaces
<1> QED
  BY <1>1 DEF InRecord

\* insertOrUpdateInRecord: the new record is the one that lasts longest, so that the
\* unsatisfy timer set after it lies at its expiry.
LEMMA InRecordAdded ==
  ASSUME now \in Nat, NEW n \in Name, NEW e \in Entry, RecordsInv(e, n, now),
         NEW f \in Face, NEW x \in Nonce
  PROVE  LET d == WithInRecord(e, n, f, x)
         IN  /\ d \in Entry /\ RecordsInv(d, n, now)
             /\ d.live = e.live /\ d.straggler = e.straggler /\ d.out = e.out
             /\ LastExpiry(d) = now + Lifetime(n)
             /\ \E i \in 1..Len(d.in) :
                   d.in[i].face = f /\ d.in[i].expiry = now + Lifetime(n)
             /\ InFaces(d) = InFaces(e) \cup {f}
<1> DEFINE r == [face |-> f, nonce |-> x, expiry |-> now + Lifetime(n)]
           m == now + Lifetime(n)
           q == IF f \in InFaces(e)
                THEN [i \in 1..Len(e.in) |-> IF e.in[i].face = f THEN r ELSE e.in[i]]
                ELSE <<r>> \o e.in
           d == WithInRecord(e, n, f, x)
<1>1. m \in Nat /\ r \in InRecord /\ r.expiry = m /\ r.face = f
  BY ConstantFacts DEF InRecord
<1>2. d = [e EXCEPT !.in = q]
  BY DEF WithInRecord
<1>3. e.in \in Seq(InRecord)
  BY DEF Entry
<1>4. /\ \A i, j \in 1..Len(e.in) : e.in[i].face = e.in[j].face => i = j
      /\ \A i \in 1..Len(e.in) : e.in[i].expiry <= m
  BY DEF RecordsInv
<1>5. f \in InFaces(e) <=> \E i \in 1..Len(e.in) : e.in[i].face = f
  BY RecordsOfFaces
<1>6. /\ q \in Seq(InRecord) /\ Len(q) \in Nat
      /\ \A i, j \in 1..Len(q) : q[i].face = q[j].face => i = j
      /\ \A i \in 1..Len(q) : q[i].expiry <= m
      /\ \E i \in 1..Len(q) : q[i] = r
      /\ {q[i].face : i \in 1..Len(q)} = {e.in[i].face : i \in 1..Len(e.in)} \cup {f}
  <2> HIDE DEF r, m
  <2>1. CASE f \in InFaces(e)
    <3>1. PICK k \in 1..Len(e.in) : e.in[k].face = f
      BY <1>5, <2>1
    <3>2. q = [i \in 1..Len(e.in) |-> IF e.in[i].face = r.face THEN r ELSE e.in[i]]
      BY <1>1, <2>1
    <3> HIDE DEF q
    <3>3. /\ q \in Seq(InRecord) /\ Len(q) = Len(e.in)
          /\ \A i, j \in 1..Len(q) : q[i].face = q[j].face => i = j
          /\ \A i \in 1..Len(q) : q[i].expiry <= m /\ q[i].face = e.in[i].face
          /\ \E i \in 1..Len(q) : q[i] = r
      BY <1>1, <1>3, <1>4, <3>1, <3>2, ReplacedRecord
    <3>4. {q[i].face : i \in 1..Len(q)} = {e.in[i].face : i \in 1..Len(e.in)}
      BY <3>3
    <3>5. f \in {e.in[i].face : i \in 1..Len(e.in)}
      BY <3>1
    <3> QED
      BY <1>3, <3>3, <3>4, <3>5
  <2>2. CASE f \notin InFaces(e)
    <3>1. \A i \in 1..Len(e.in) : e.in[i].face # r.face
      BY <1>1, <1>5, <2>2
    <3>2. q = <<r>> \o e.in
      BY <2>2
    <3> HIDE DEF q
    <3>3. /\ q \in Seq(InRecord) /\ Len(q) = Len(e.in) + 1
          /\ \A i, j \in 1..Len(q) : q[i].face = q[j].face => i = j
          /\ \A i \in 1..Len(q) : q[i].expiry <= m
          /\ q[1] = r /\ \A i \in 2..Len(q) : i - 1 \in 1..Len(e.in) /\ q[i] = e.in[i - 1]
      <4> DEFINE s == e.in
      <4>1. /\ s \in Seq(InRecord)
            /\ \A i, j \in 1..Len(s) : s[i].face = s[j].face => i = j
            /\ \A i \in 1..Len(s) : s[i].expiry <= m
            /\ \A i \in 1..Len(s) : s[i].face # r.face
            /\ q = <<r>> \o s
        BY <1>3, <1>4, <3>1, <3>2
      <4> HIDE DEF s
      <4>2. /\ q \in Seq(InRecord) /\ Len(q) = Len(s) + 1
            /\ \A i, j \in 1..Len(q) : q[i].face = q[j].face => i = j
            /\ \A i \in 1..Len(q) : q[i].expiry <= m
            /\ q[1] = r /\ \A i \in 2..Len(q) : i - 1 \in 1..Len(s) /\ q[i] = s[i - 1]
        BY <1>1, <4>1, PrependedRecord
      <4> QED
        BY <4>2 DEF s
    <3>4. Len(e.in) \in Nat
      BY <1>3
    <3>5. 1 \in 1..Len(q) /\ \A i \in 1..Len(q) : i = 1 \/ i \in 2..Len(q)
      BY <3>3, <3>4
    <3>6. {q[i].face : i \in 1..Len(q)} = {e.in[i].face : i \in 1..Len(e.in)} \cup {f}
      <4>1. \A i \in 1..Len(q) :
               q[i].face = f \/ \E j \in 1..Len(e.in) : q[i].face = e.in[j].face
        BY <1>1, <3>3, <3>5
      <4>2. \A j \in 1..Len(e.in) : j + 1 \in 2..Len(q) /\ q[j + 1] = e.in[j]
        <5> SUFFICES ASSUME NEW j \in 1..Len(e.in)
                     PROVE  j + 1 \in 2..Len(q) /\ q[j + 1] = e.in[j]
          OBVIOUS
        <5>1. j + 1 \in 2..Len(q) /\ (j + 1) - 1 = j
          BY <3>3, <3>4
        <5>2. \A i \in 2..Len(q) : q[i] = e.in[i - 1]
          BY <3>3
        <5>3. q[j + 1] = e.in[(j + 1) - 1]
          BY <5>1, <5>2
        <5> QED
          BY <5>1, <5>3
      <4>3. \A j \in 1..Len(e.in) : \E i \in 1..Len(q) : q[i].face = e.in[j].face
        BY <3>4, <4>2
      <4>4. \E i \in 1..Len(q) : q[i].face = f
        BY <1>1, <3>3, <3>5
      <4>5. ASSUME NEW y \in {q[i].face : i \in 1..Len(q)}
            PROVE  y \in {e.in[i].face : i \in 1..Len(e.in)} \cup {f}
        BY <4>1
      <4>6. ASSUME NEW y \in {e.in[i].face : i \in 1..Len(e.in)} \cup {f}
            PROVE  y \in {q[i].face : i \in 1..Len(q)}
        BY <4>3, <4>4
      <4> QED
        BY <4>5, <4>6
    <3>7. Len(q) \in Nat /\ \E i \in 1..Len(q) : q[i] = r
      BY <3>3, <3>4, <3>5
    <3> QED
      BY <3>3, <3>6, <3>7, Zenon
  <2> QED
    BY <2>1, <2>2
<1> HIDE DEF q
<1>7. d \in Entry /\ d.in = q /\ d.out = e.out /\ d.live = e.live /\ d.straggler = e.straggler
  BY <1>2, <1>6 DEF Entry
<1>a. InFaces(d) = InFaces(e) \cup {f}
  <2>1. InFaces(e) = {e.in[i].face : i \in 1..Len(e.in)}
    BY RecordsOfFaces
  <2> HIDE DEF d
  <2>2. InFaces(d) = {q[i].face : i \in 1..Len(q)}
    BY <1>7, RecordsOfFaces
  <2> QED
    BY <1>6, <2>1, <2>2
<1>b. \E i \in 1..Len(q) : q[i].face = f /\ q[i].expiry = m
  BY <1>1, <1>6
<1> HIDE DEF d, r
<1>8. RecordsInv(d, n, now)
  BY <1>6, <1>7 DEF RecordsInv
<1>9. LastExpiry(d) = m
  <2> DEFINE E == {g.expiry : g \in ToSet(d.in)}
  <2>1. E = {q[i].expiry : i \in 1..Len(q)}
    <3>1. ToSet(d.in) = {q[i] : i \in 1..Len(q)}
      BY <1>7, RecordsOfFaces
    <3> QED
      BY <3>1
  <2> HIDE DEF E, m
  <2>2. m \in E /\ \A y \in E : y \in Nat /\ m >= y
    <3>1. \A i \in 1..Len(q) : q[i].expiry \in Nat
      <4>1. \A i \in 1..Len(q) : q[i] \in InRecord
        BY <1>6
      <4> QED
        BY <4>1 DEF InRecord
    <3> QED
      BY <1>1, <1>6, <1>b, <2>1, <3>1
  <2>3. \A y \in E : (\A z \in E : y >= z) => y = m
    BY <1>1, <2>2
  <2>4. Max(E) = m
    <3>1. Max(E) \in E /\ \A z \in E : Max(E) >= z
      BY <2>2, Zenon DEF Max
    <3> QED
      BY <2>3, <3>1
  <2> QED
    BY <2>4 DEF LastExpiry, E
<1> QED
  BY <1>7, <1>8, <1>9, <1>a, <1>b DEF d

\* insertOrUpdateOutRecord: a face keeps one record.
LEMMA OutRecordsAdded ==
  ASSUME now \in Nat, NEW n \in Name, NEW e \in Entry, NEW F \in SUBSET Face,
         NEW x \in Nonce, OneEach(e.out),
         NEW d, d = WithOutRecords(e, n, F, x)
  PROVE  /\ d \in Entry /\ OneEach(d.out)
         /\ d.in = e.in /\ d.live = e.live
         /\ d.unsatisfy = e.unsatisfy /\ d.straggler = e.straggler
<1> DEFINE New(f) == [face |-> f, nonce |-> x, expiry |-> now + Lifetime(n),
                      nack |-> HeldNack(e, f)]
           old == {o \in e.out : o.face \notin F}
           new == {New(f) : f \in F}
<1>1. d = [e EXCEPT !.out = old \cup new]
  BY DEF WithOutRecords
<1>2. e.out \subseteq OutRecord
  BY DEF Entry
<1>3. \A f \in Face : HeldNack(e, f) \in Nonce \cup {NoNonce}
  <2> TAKE f \in Face
  <2>1. CASE \E o \in e.out : o.face = f
    <3>1. (CHOOSE o \in e.out : o.face = f) \in e.out
      BY <2>1
    <3>2. HeldNack(e, f) = (CHOOSE o \in e.out : o.face = f).nack
      BY <2>1 DEF HeldNack
    <3> QED
      BY <1>2, <3>1, <3>2 DEF OutRecord
  <2>2. CASE ~\E o \in e.out : o.face = f
    BY <2>2 DEF HeldNack
  <2> QED
    BY <2>1, <2>2
<1>4. new \subseteq OutRecord /\ \A f \in F : New(f).face = f
  BY <1>3, ConstantFacts DEF OutRecord
<1>5. old \subseteq OutRecord
  BY <1>2
<1>6. OneEach(old \cup new)
  <2> HIDE DEF New
  <2> SUFFICES ASSUME NEW o \in old \cup new, NEW q \in old \cup new, o.face = q.face
               PROVE  o = q
    BY DEF OneEach
  <2>1. CASE o \in old /\ q \in old
    BY <2>1 DEF OneEach
  <2>2. CASE o \in new /\ q \in new
    BY <1>4, <2>2
  <2>3. CASE (o \in new /\ q \in old) \/ (o \in old /\ q \in new)
    BY <1>4, <2>3
  <2> QED
    BY <2>1, <2>2, <2>3
<1> HIDE DEF old, new
<1>7. /\ d \in Entry /\ d.out = old \cup new /\ d.in = e.in /\ d.live = e.live
      /\ d.unsatisfy = e.unsatisfy /\ d.straggler = e.straggler
  BY <1>1, <1>4, <1>5 DEF Entry
<1> QED
  BY <1>6, <1>7

\* onOutgoingInterest touches the records of the faces that it sends to.
LEMMA OutRecordsOf ==
  ASSUME NEW n \in Name, NEW e \in Entry, NEW F, NEW x,
         NEW d, d = WithOutRecords(e, n, F, x), NEW o \in d.out
  PROVE  o.face \in F \/ o \in e.out
BY DEF WithOutRecords, Entry

\* The entry u of n has the records of e and that of f, whose Interest u waits for.
Joined(u, e, n, f) ==
    /\ u.out = e.out /\ u.straggler = NoTime /\ u.unsatisfy = now + Lifetime(n)
    /\ InFaces(u) = InFaces(e) \cup {f}
    /\ \E i \in 1..Len(u.in) : u.in[i].face = f /\ u.in[i].expiry = u.unsatisfy

\* onIncomingInterest with an in-record: the entry waits for the Interest that came.
LEMMA EntryWaits ==
  ASSUME now \in Nat, NEW n \in Name, NEW e, EntryInv(e, n, now),
         NEW f \in Face, NEW x \in Nonce, NEW u,
         u = WithUnsatisfyTimer(WithInRecord(Cancelled(Inserted(e)), n, f, x))
  PROVE  /\ EntryInv(u, n, now) /\ u.live = TRUE
         /\ Joined(u, e, n, f)
<1> DEFINE c == Cancelled(Inserted(e))
           d == WithInRecord(c, n, f, x)
<1>1. /\ c \in Entry /\ c.in = e.in /\ c.out = e.out /\ c.live = TRUE
      /\ c.straggler = NoTime
  BY DEF EntryInv, Entry, Inserted, Cancelled, Moment
<1>0. u = WithUnsatisfyTimer(d)
  OBVIOUS
<1> HIDE DEF c
<1>2. RecordsInv(c, n, now)
  BY <1>1 DEF EntryInv, RecordsInv
<1>3. /\ d \in Entry /\ RecordsInv(d, n, now) /\ d.live = TRUE /\ d.straggler = NoTime
      /\ LastExpiry(d) = now + Lifetime(n) /\ d.out = c.out
      /\ \E i \in 1..Len(d.in) : d.in[i].face = f /\ d.in[i].expiry = now + Lifetime(n)
      /\ InFaces(d) = InFaces(c) \cup {f}
  BY <1>1, <1>2, InRecordAdded
<1> HIDE DEF d
<1>4. u = [d EXCEPT !.unsatisfy = now + Lifetime(n)]
  BY <1>0, <1>3 DEF WithUnsatisfyTimer
<1>5. now + Lifetime(n) \in Nat /\ now + Lifetime(n) >= now
  BY ConstantFacts
<1>6. /\ u \in Entry /\ u.in = d.in /\ u.out = d.out /\ u.live = TRUE
      /\ u.straggler = NoTime /\ u.unsatisfy = now + Lifetime(n)
  BY <1>3, <1>4, <1>5 DEF Entry, Moment
<1>7. RecordsInv(u, n, now)
  BY <1>3, <1>6 DEF RecordsInv
<1>8. TimersInv(u, now)
  BY <1>5, <1>6, <1>7 DEF TimersInv, RecordsInv
<1>9. /\ EntryInv(u, n, now) /\ u.live = TRUE
      /\ u.out = e.out /\ u.straggler = NoTime /\ u.unsatisfy = now + Lifetime(n)
      /\ \E i \in 1..Len(u.in) : u.in[i].face = f /\ u.in[i].expiry = u.unsatisfy
  BY <1>1, <1>3, <1>6, <1>7, <1>8 DEF EntryInv
<1>10. InFaces(u) = InFaces(e) \cup {f}
  <2>1. InFaces(u) = InFaces(d) /\ InFaces(c) = InFaces(e)
    BY <1>1, <1>6 DEF InFaces
  <2> QED
    BY <1>3, <2>1
<1> QED
  BY <1>9, <1>10 DEF Joined

\* afterReceiveInterest: the strategy sends the Interest, or rejects it and the straggler
\* timer takes the place of the unsatisfy timer.
LEMMA EntryForwarded ==
  ASSUME now \in Nat, NEW n \in Name, NEW u, EntryInv(u, n, now), u.live = TRUE, NEW x \in Nonce,
         tib.hop \in Face \cup {NoFace}
  PROVE  LET a == AfterReceiveInterest(n, u, x).entry
         IN  EntryInv(a, n, now) /\ a.in = u.in /\ a.live = TRUE
<1> DEFINE F == ForwardTo(n, u)
           w == WithOutRecords(u, n, F, x)
           j == WithStragglerTimer(Cancelled(u), FALSE)
           a == AfterReceiveInterest(n, u, x).entry
<1>1. F \in SUBSET Face
  BY ConstantFacts DEF ForwardTo, Follows
<1>2. EntryInv(w, n, now) /\ w.in = u.in /\ w.live = TRUE
  <2>1. u \in Entry /\ OneEach(u.out)
    BY DEF EntryInv, RecordsInv
  <2>a. w = WithOutRecords(u, n, F, x)
    OBVIOUS
  <2> HIDE DEF F, w
  <2>2. /\ w \in Entry /\ OneEach(w.out)
        /\ w.in = u.in /\ w.live = u.live
        /\ w.unsatisfy = u.unsatisfy /\ w.straggler = u.straggler
    BY <1>1, <2>1, <2>a, OutRecordsAdded
  <2>3. RecordsInv(w, n, now)
    BY <2>2 DEF EntryInv, RecordsInv
  <2>4. TimersInv(w, now)
    BY <2>2 DEF EntryInv, TimersInv
  <2> QED
    BY <2>2, <2>3, <2>4 DEF EntryInv
<1>3. EntryInv(j, n, now) /\ j.in = u.in /\ j.live = TRUE
  <2>1. now + StragglerTime \in Nat /\ now + StragglerTime >= now
    BY ConstantFacts
  <2>2. /\ j \in Entry /\ j.in = u.in /\ j.out = u.out /\ j.live = u.live
        /\ j.unsatisfy = NoTime /\ j.straggler = now + StragglerTime
    BY <2>1 DEF EntryInv, Entry, Moment, Inserted, Cancelled, WithStragglerTimer
  <2> HIDE DEF j
  <2>3. RecordsInv(j, n, now)
    BY <2>2 DEF EntryInv, RecordsInv
  <2>4. TimersInv(j, now)
    BY <2>1, <2>2 DEF TimersInv
  <2> QED
    BY <2>2, <2>3, <2>4 DEF EntryInv
<1>4. a = u \/ a = w \/ a = j
  <2> HIDE DEF w, j
  <2>1. CASE HasPendingOutRecords(u)
    BY <2>1 DEF AfterReceiveInterest, a
  <2>2. CASE ~HasPendingOutRecords(u) /\ F # {}
    BY <2>2 DEF AfterReceiveInterest, w
  <2>3. CASE ~HasPendingOutRecords(u) /\ F = {}
    BY <2>3 DEF AfterReceiveInterest, j
  <2> QED
    BY <2>1, <2>2, <2>3
<1> HIDE DEF w, j, a
<1> QED
  BY <1>2, <1>3, <1>4 DEF a

\* An entry whose straggler timer was set in the place of all others.
LEMMA EntryStraggles ==
  ASSUME now \in Nat, NEW n \in Name, NEW e, EntryInv(e, n, now),
         NEW h \in Entry, h.live = TRUE,
         h.in = e.in \/ h.in = << >>, h.out \subseteq e.out,
         h.unsatisfy = NoTime, h.straggler = now + StragglerTime
  PROVE  EntryInv(h, n, now)
<1>1. now + StragglerTime \in Nat /\ now + StragglerTime >= now
  BY ConstantFacts
<1>2. RecordsInv(h, n, now)
  BY DEF EntryInv, RecordsInv, OneEach
<1>3. TimersInv(h, now)
  BY <1>1 DEF TimersInv
<1> QED
  BY <1>2, <1>3 DEF EntryInv

\* Content from the store leaves the records.
LEMMA EntryAnswered ==
  ASSUME now \in Nat, NEW n \in Name, NEW e, EntryInv(e, n, now)
  PROVE  LET h == WithStragglerTimer(Cancelled(Inserted(e)), TRUE)
         IN  EntryInv(h, n, now) /\ h.in = e.in /\ h.live = TRUE /\ h.out = e.out
<1> DEFINE h == WithStragglerTimer(Cancelled(Inserted(e)), TRUE)
<1>1. /\ h \in Entry /\ h.in = e.in /\ h.out = e.out /\ h.live = TRUE
      /\ h.unsatisfy = NoTime /\ h.straggler = now + StragglerTime
  <2>1. now + StragglerTime \in Nat
    BY ConstantFacts
  <2> QED
    BY <2>1 DEF EntryInv, Entry, Moment, Inserted, Cancelled, WithStragglerTimer
<1> HIDE DEF h
<1> QED
  BY <1>1, EntryStraggles DEF h

\* Data from f takes the in-records and the out-record of f.
LEMMA EntrySatisfied ==
  ASSUME now \in Nat, NEW n \in Name, NEW e, EntryInv(e, n, now), e.live = TRUE, NEW f
  PROVE  /\ EntryInv(Satisfied(e, f), n, now)
         /\ Satisfied(e, f).in = << >> /\ Satisfied(e, f).live = TRUE
         /\ Satisfied(e, f).out \subseteq e.out
<1> DEFINE h == Satisfied(e, f)
           rest == {o \in e.out : o.face # f}
           c == Cancelled(e)
           g == [c EXCEPT !.in = << >>, !.out = rest]
<1>1. rest \subseteq e.out /\ rest \subseteq OutRecord /\ << >> \in Seq(InRecord)
  BY DEF EntryInv, Entry
<1>2. /\ c \in Entry /\ c.in = e.in /\ c.out = e.out /\ c.live = e.live
      /\ c.unsatisfy = NoTime /\ c.straggler = NoTime
  BY DEF EntryInv, Entry, Moment, Cancelled
<1>3. h = WithStragglerTimer(g, TRUE)
  BY DEF Satisfied
<1> HIDE DEF rest, c
<1>4. /\ g \in Entry /\ g.in = << >> /\ g.out = rest /\ g.live = e.live
      /\ g.unsatisfy = NoTime /\ g.straggler = NoTime
  BY <1>1, <1>2 DEF Entry
<1> HIDE DEF g
<1>5. /\ h \in Entry /\ h.in = << >> /\ h.out = rest /\ h.live = TRUE
      /\ h.unsatisfy = NoTime /\ h.straggler = now + StragglerTime
  <2>1. now + StragglerTime \in Nat
    BY ConstantFacts
  <2> QED
    BY <1>3, <1>4, <2>1 DEF Entry, Moment, WithStragglerTimer
<1> HIDE DEF h
<1> QED
  BY <1>1, <1>5, EntryStraggles DEF h

\* onIncomingNack: the out-record of f keeps the Nack, and the in-records may go.
LEMMA EntryNacked ==
  ASSUME now \in Nat, NEW n \in Name, NEW e, EntryInv(e, n, now), e.live = TRUE,
         NEW f, NEW x \in Nonce, NEW d, d = WithNack(e, f, x)
  PROVE  EntryInv(d, n, now) /\ d.live = TRUE
<1> DEFINE Nacked(o) == IF o.face = f THEN [o EXCEPT !.nack = x] ELSE o
           out == {Nacked(o) : o \in e.out}
<1>1. \A o \in e.out : Nacked(o) \in OutRecord /\ Nacked(o).face = o.face
  <2>1. e.out \subseteq OutRecord
    BY DEF EntryInv, Entry
  <2> QED
    BY <2>1 DEF OutRecord
<1>2. OneEach(out)
  <2> HIDE DEF Nacked
  <2>1. OneEach(e.out)
    BY DEF EntryInv, RecordsInv
  <2> QED
    BY <1>1, <2>1 DEF OneEach
<1>3. out \subseteq OutRecord
  BY <1>1
<1>4. d = [e EXCEPT !.out = out]
  BY DEF WithNack
<1> HIDE DEF out
<1>5. /\ d \in Entry /\ d.in = e.in /\ d.out = out /\ d.live = e.live
      /\ d.unsatisfy = e.unsatisfy /\ d.straggler = e.straggler
  BY <1>3, <1>4 DEF EntryInv, Entry
<1>6. RecordsInv(d, n, now)
  BY <1>2, <1>5 DEF EntryInv, RecordsInv
<1>7. TimersInv(d, now)
  BY <1>5 DEF EntryInv, TimersInv
<1> QED
  BY <1>5, <1>6, <1>7 DEF EntryInv

\* afterReceiveNack: the in-records are gone, and the timer still runs.
LEMMA EntryEmptied ==
  ASSUME now \in Nat, NEW n \in Name, NEW e, EntryInv(e, n, now), e.live = TRUE,
         NEW d, d = [e EXCEPT !.in = << >>]
  PROVE  EntryInv(d, n, now) /\ d.in = << >> /\ d.live = TRUE
<1>1. << >> \in Seq(InRecord)
  OBVIOUS
<1>2. /\ d \in Entry /\ d.in = << >> /\ d.out = e.out /\ d.live = e.live
      /\ d.unsatisfy = e.unsatisfy /\ d.straggler = e.straggler
  BY <1>1 DEF EntryInv, Entry
<1>3. RecordsInv(d, n, now)
  BY <1>2 DEF EntryInv, RecordsInv
<1>4. TimersInv(d, now)
  BY <1>2 DEF EntryInv, TimersInv
<1> QED
  BY <1>2, <1>3, <1>4 DEF EntryInv

\* onInterestFinalize leaves no entry.
LEMMA EntryAbsent ==
  ASSUME now \in Nat, NEW n \in Name
  PROVE  NoEntry \in Entry /\ EntryInv(NoEntry, n, now)
BY DEF NoEntry, Entry, Moment, EntryInv, RecordsInv, OneEach, TimersInv

\* An entry whose timers are not due when the clock moves on.
LEMMA EntryLater ==
  ASSUME now \in Nat, NEW n \in Name, NEW e, EntryInv(e, n, now),
         now # e.unsatisfy, now # e.straggler
  PROVE  EntryInv(e, n, now + 1)
<1>1. e \in Entry /\ Lifetime(n) \in Nat
  BY ConstantFacts DEF EntryInv
<1>2. \A i \in 1..Len(e.in) : e.in[i].expiry \in Nat
  BY <1>1, RecordsOfFaces DEF InRecord
<1>3. RecordsInv(e, n, now + 1)
  BY <1>1, <1>2 DEF EntryInv, RecordsInv, OneEach
<1>4. TimersInv(e, now + 1)
  <2>1. e.unsatisfy \in Moment /\ e.straggler \in Moment
    BY <1>1 DEF Entry
  <2> QED
    BY <2>1 DEF EntryInv, TimersInv, Moment
<1> QED
  BY <1>1, <1>3, <1>4 DEF EntryInv
--------------------------------------------------------------------------------
(* The steps *)

\* The least element of a set of numbers.
LEMMA LeastOf ==
  ASSUME NEW S \in SUBSET Nat, S # {}
  PROVE  Min(S) \in S
<1> DEFINE R == OpToRel(<, Nat)
<1>1. \E x \in S : \A y \in S : ~(<<y, x>> \in R)
  <2>1. IsWellFoundedOn(R, Nat)
    BY NatLessThanWellFounded
  <2> HIDE DEF R
  <2> QED
    BY <2>1, WFMin
<1>2. \A x, y \in Nat : <<y, x>> \in R <=> y < x
  BY DEF OpToRel
<1> HIDE DEF R
<1>3. PICK x \in S : \A y \in S : ~(<<y, x>> \in R)
  BY <1>1
<1>4. ASSUME NEW y \in S PROVE x <= y
  <2>1. x \in Nat /\ y \in Nat
    OBVIOUS
  <2>2. ~(y < x)
    BY <1>2, <1>3, <2>1, Zenon
  <2> QED
    BY <2>1, <2>2
<1> QED
  BY <1>4 DEF Min

\* The lesser of two numbers.
LEMMA LesserOf ==
  ASSUME NEW a \in Nat, NEW b \in Nat
  PROVE  Min({a, b}) = IF a <= b THEN a ELSE b
<1>1. \E x \in {a, b} : \A y \in {a, b} : x <= y
  OBVIOUS
<1>2. Min({a, b}) \in {a, b} /\ \A y \in {a, b} : Min({a, b}) <= y
  BY <1>1, Zenon DEF Min
<1> QED
  BY <1>2

\* The calls that updateTib schedules are for content of the prefix.
LEMMA PullsAreContent ==
  ASSUME now \in Nat, NEW f \in Face, NEW p \in PullOrders(f)
  PROVE  PullCalls(p, f) \subseteq [at : Nat, name : ContentName, face : Face]
<1>1. IsFiniteSet(ContentName)
  <2>1. IsFiniteSet({"content"}) /\ IsFiniteSet(Content)
    BY FS_Singleton, KiteForwarderAssumption
  <2> QED
    BY <2>1, FS_Product DEF ContentName
<1>2. PICK S \in SUBSET Pullable(f) : p \in SetToSeqs(S)
  BY DEF PullOrders, SetToAllKPermutations
<1>3. S \in SUBSET ContentName
  BY <1>2 DEF Pullable
<1>4. Cardinality(S) \in Nat
  BY <1>1, <1>3, FS_Subset, FS_CardinalityType
<1>5. p \in [1..Cardinality(S) -> S]
  BY <1>2 DEF SetToSeqs
<1>6. Len(p) = Cardinality(S) /\ \A i \in 1..Len(p) : p[i] \in ContentName
  BY <1>3, <1>4, <1>5
<1>7. \A i \in 1..Len(p) : now + i - 1 \in Nat
  BY <1>4, <1>6
<1>8. 1..Min({MaxPullSends, Len(p)}) \subseteq 1..Len(p)
  BY <1>4, <1>6, LesserOf, KiteForwarderAssumption
<1> DEFINE m == Min({MaxPullSends, Len(p)})
<1>9. PullCalls(p, f) = {[at |-> now + i - 1, name |-> p[i], face |-> f] :
                            i \in {j \in 1..m : LastExpiry(pit[p[j]]) > now}}
  BY DEF PullCalls
<1>10. \A i \in 1..m : i \in 1..Len(p)
  BY <1>8
<1> HIDE DEF m
<1> QED
  BY <1>6, <1>7, <1>9, <1>10

\* A step changes one entry, and traces are announced on more faces.
LEMMA EntryChanged ==
  ASSUME KiteInv, now' = now, NEW n \in Name, NEW d, EntryInv(d, n, now),
         pit' = [pit EXCEPT ![n] = d],
         traceFaces' \in [TraceSeq -> SUBSET Face],
         \A s \in TraceSeq : traceFaces[s] \subseteq traceFaces'[s],
         n \in TraceName => \A i \in 1..Len(d.in) : d.in[i].face \in traceFaces'[n[2]]
  PROVE  PitInv' /\ TraceInv'
<1>1. d \in Entry
  BY DEF EntryInv
<1>2. pit' \in [Name -> Entry]
  BY <1>1 DEF KiteInv, PitInv
<1>3. \A m \in Name : pit'[m] = IF m = n THEN d ELSE pit[m]
  BY DEF KiteInv, PitInv
<1>4. ASSUME NEW m \in Name PROVE EntryInv(pit'[m], m, now')
  <2>1. EntryInv(pit[m], m, now)
    BY DEF KiteInv, PitInv
  <2> QED
    BY <1>3, <2>1
<1>5. ASSUME NEW m \in TraceName, NEW i \in 1..Len(pit'[m].in)
      PROVE  pit'[m].in[i].face \in traceFaces'[m[2]]
  <2>1. m \in Name /\ m[2] \in TraceSeq
    BY ConstantFacts
  <2>2. CASE m = n
    BY <1>3, <2>1, <2>2
  <2>3. CASE m # n
    BY <1>3, <2>1, <2>3 DEF KiteInv, TraceInv
  <2> QED
    BY <2>2, <2>3
<1>6. PitInv'
  BY <1>2, <1>4 DEF PitInv
<1> QED
  BY <1>5, <1>6 DEF TraceInv

\* No entry is changed.
LEMMA EntriesKept ==
  ASSUME KiteInv, now' = now, pit' = pit, traceFaces' \in [TraceSeq -> SUBSET Face],
         \A s \in TraceSeq : traceFaces[s] \subseteq traceFaces'[s]
  PROVE  PitInv' /\ TraceInv'
<1>1. PitInv'
  BY DEF KiteInv, PitInv
<1>2. \A m \in TraceName : m[2] \in TraceSeq
  BY ConstantFacts
<1>3. ASSUME NEW m \in TraceName, NEW i \in 1..Len(pit[m].in)
      PROVE  pit[m].in[i].face \in traceFaces'[m[2]]
  BY <1>2 DEF KiteInv, TraceInv
<1> QED
  BY <1>1, <1>3 DEF TraceInv

\* The trace table is left as it is.
LEMMA TibKept ==
  ASSUME KiteInv, tib' = tib, hopTimers' = hopTimers,
         \A s \in TraceSeq : traceFaces[s] \subseteq traceFaces'[s]
  PROVE  TibInv'
BY DEF KiteInv, TibInv, HopTimerIsOwned

\* The only call of onTibEntryNextHopTimeout is the one that the next hop knows.
LEMMA NoOtherTimer ==
  ASSUME KiteInv
  PROVE  ReplacedTimers = {}
BY DEF KiteInv, TibInv, HopTimerIsOwned, ReplacedTimers

\* removeNextHop takes the entry and its call.
LEMMA TibRemoved ==
  ASSUME tib' = NoTib, hopTimers' = {}
  PROVE  TibInv'
BY DEF TibInv, HopTimerIsOwned, NoTib

\* addNextHop and m_prolongTrace: the entry gets a hop with a call of its own.
LEMMA TibSet ==
  ASSUME KiteInv, NEW id \in Nat, NEW s \in TraceSeq, NEW f \in Face, NEW d \in Nat,
         f \in traceFaces[s], traceFaces' = traceFaces,
         tib' = [live |-> TRUE, id |-> id, seq |-> s, hop |-> f, timer |-> nextUid],
         hopTimers' = {HopTimer(id, f, d)}
  PROVE  TibInv'
<1>1. nextUid \in Nat /\ now + d \in Nat
  BY DEF KiteInv, CallsInv
<1>2. HopTimer(id, f, d) \in [uid : Nat, at : Nat, face : Face, entry : Nat]
  BY <1>1 DEF HopTimer
<1>3. /\ HopTimer(id, f, d).uid = nextUid /\ HopTimer(id, f, d).face = f
      /\ HopTimer(id, f, d).entry = id
  BY DEF HopTimer
<1>4. /\ tib'.live = TRUE /\ tib'.id = id /\ tib'.seq = s /\ tib'.hop = f
      /\ tib'.timer = nextUid
  OBVIOUS
<1>5. HopTimerIsOwned'
  BY <1>3, <1>4 DEF HopTimerIsOwned
<1>6. tib' \in [live : BOOLEAN, id : Nat, seq : TraceSeq \cup {0},
                hop : Face \cup {NoFace}, timer : Nat \cup {NoTimer}]
  BY <1>1
<1> QED
  BY <1>2, <1>4, <1>5, <1>6 DEF TibInv

\* A new router has no entries, no trace and no calls.
LEMMA RouterInitially == RouterInit => KiteInv
<1> SUFFICES ASSUME RouterInit PROVE KiteInv
  OBVIOUS
<1>1. now = 0 /\ nextUid = 0 /\ pulls = {} /\ hopTimers = {} /\ tib = NoTib
  BY DEF RouterInit, KiteInit, SimulatorInit
<1>2. pit = [n \in Name |-> NoEntry] /\ traceFaces = [s \in TraceSeq |-> {}]
  BY DEF RouterInit, KiteInit
<1>3. CallsInv
  BY <1>1 DEF CallsInv
<1>4. PitInv
  <2>1. \A n \in Name : NoEntry \in Entry /\ EntryInv(NoEntry, n, now)
    BY <1>1, EntryAbsent
  <2> QED
    BY <1>2, <2>1 DEF PitInv
<1>5. TraceInv
  <2>1. \A n \in TraceName : pit[n].in = << >>
    BY <1>2, ConstantFacts DEF NoEntry
  <2> QED
    BY <1>2, <2>1 DEF TraceInv
<1>6. TibInv
  BY <1>1 DEF TibInv, HopTimerIsOwned, NoTib
<1> QED
  BY <1>3, <1>4, <1>5, <1>6 DEF KiteInv

\* The Interest n from f is accepted, as ReceiveInterest has it.
Missed(f, n, x) ==
    /\ OnContentStoreMiss(f, n, x) /\ HoldBack(n)
    /\ traceFaces' = IF n \in TraceName THEN [traceFaces EXCEPT ![n[2]] = @ \cup {f}]
                                        ELSE traceFaces

\* onIncomingInterest: a loop, an answer from the store, or an entry that waits.
LEMMA InterestKeepsInv ==
  ASSUME KiteInv, now' = now, NEW f \in Face, NEW n \in Name, NEW x \in Nonce,
         ReceiveInterest(f, n, x)
  PROVE  KiteInv'
<1>2. /\ now \in Nat /\ EntryInv(pit[n], n, now) /\ pit \in [Name -> Entry]
      /\ n \in TraceName => n[2] \in TraceSeq
      /\ traceFaces \in [TraceSeq -> SUBSET Face] /\ tib.hop \in Face \cup {NoFace}
  BY ConstantFacts DEF KiteInv, CallsInv, PitInv, TraceInv, TibInv
<1>3. /\ nextUid' = nextUid /\ tib' = tib /\ hopTimers' = hopTimers /\ pulls' = pulls
  BY DEF ReceiveInterest, OnInterestLoop, OnContentStoreHit, OnContentStoreMiss, routerVars
<1>4. /\ traceFaces' \in [TraceSeq -> SUBSET Face]
      /\ \A s \in TraceSeq : traceFaces[s] \subseteq traceFaces'[s]
  <2>1. \/ traceFaces' = traceFaces
        \/ /\ n \in TraceName
           /\ traceFaces' = [traceFaces EXCEPT ![n[2]] = traceFaces[n[2]] \cup {f}]
    BY DEF ReceiveInterest
  <2> QED
    BY <1>2, <2>1
<1>9. n \in TraceName /\ Missed(f, n, x) => f \in traceFaces'[n[2]]
  <2> SUFFICES ASSUME n \in TraceName, Missed(f, n, x) PROVE f \in traceFaces'[n[2]]
    OBVIOUS
  <2>1. traceFaces' = [traceFaces EXCEPT ![n[2]] = traceFaces[n[2]] \cup {f}]
    BY DEF Missed
  <2> QED
    BY <1>2, <2>1
<1>5. n \in TraceName =>
         \A i \in 1..Len(pit[n].in) : pit[n].in[i].face \in traceFaces'[n[2]]
  BY <1>2, <1>4 DEF KiteInv, TraceInv
<1>6. PitInv' /\ TraceInv'
  <2>1. CASE OnInterestLoop(f, n, x)
    <3>1. pit' = pit
      BY <2>1 DEF OnInterestLoop, routerVars
    <3> QED
      BY <1>4, <3>1, EntriesKept
  <2>2. CASE OnContentStoreHit(f, n, x)
    <3> DEFINE h == WithStragglerTimer(Cancelled(Inserted(pit[n])), TRUE)
    <3>1. pit' = [pit EXCEPT ![n] = h]
      BY <2>2 DEF OnContentStoreHit
    <3>2. EntryInv(h, n, now) /\ h.in = pit[n].in
      BY <1>2, EntryAnswered
    <3> HIDE DEF h
    <3> QED
      BY <1>4, <1>5, <3>1, <3>2, EntryChanged
  <2>3. CASE Missed(f, n, x)
    <3> DEFINE u == WithUnsatisfyTimer(
                       WithInRecord(Cancelled(Inserted(pit[n])), n, f, x))
               a == AfterReceiveInterest(n, u, x).entry
    <3>1. pit' = [pit EXCEPT ![n] = a]
      BY <2>3 DEF Missed, OnContentStoreMiss
    <3>a. u = WithUnsatisfyTimer(
                 WithInRecord(Cancelled(Inserted(pit[n])), n, f, x))
      OBVIOUS
    <3> HIDE DEF u
    <3>b. now \in Nat /\ EntryInv(pit[n], n, now)
      BY <1>2
    <3>2. EntryInv(u, n, now) /\ u.live = TRUE /\ Joined(u, pit[n], n, f)
      BY <3>a, <3>b, EntryWaits
    <3>3. EntryInv(a, n, now) /\ a.in = u.in
      BY <1>2, <3>2, EntryForwarded
    <3> HIDE DEF a
    <3>4. ASSUME n \in TraceName, NEW i \in 1..Len(a.in)
          PROVE  a.in[i].face \in traceFaces'[n[2]]
      <4>1. u \in Entry /\ pit[n] \in Entry
        BY <1>2, <3>2 DEF EntryInv
      <4>2. a.in[i].face \in InFaces(pit[n]) \cup {f}
        BY <3>2, <3>3, <4>1, RecordsOfFaces DEF Joined
      <4>3. InFaces(pit[n]) \subseteq traceFaces'[n[2]]
        BY <1>5, <3>4, <4>1, RecordsOfFaces
      <4> QED
        BY <1>9, <2>3, <3>4, <4>2, <4>3
    <3> QED
      BY <1>4, <3>1, <3>3, <3>4, EntryChanged
  <2> QED
    BY <2>1, <2>2, <2>3 DEF ReceiveInterest, Missed
<1>7. TibInv'
  BY <1>3, <1>4, TibKept
<1>8. CallsInv'
  BY <1>3 DEF KiteInv, CallsInv
<1> QED
  BY <1>6, <1>7, <1>8 DEF KiteInv

\* onIncomingData for content: the entry is satisfied, and the hop may be prolonged.
LEMMA ContentKeepsInv ==
  ASSUME KiteInv, now' = now, traceFaces' = traceFaces, NEW f \in Face, NEW n \in Name,
         OnContentData(f, n)
  PROVE  KiteInv'
<1>1. /\ now \in Nat /\ EntryInv(pit[n], n, now) /\ nextUid \in Nat
      /\ traceFaces \in [TraceSeq -> SUBSET Face]
  BY DEF KiteInv, CallsInv, PitInv, TraceInv
<1>2. PitInv' /\ TraceInv'
  <2> DEFINE h == Satisfied(pit[n], f)
  <2>1. pit' = [pit EXCEPT ![n] = h] /\ pit[n].live = TRUE
    BY <1>1 DEF OnContentData, EntryInv, Entry
  <2>2. EntryInv(h, n, now) /\ h.in = << >>
    BY <1>1, <2>1, EntrySatisfied
  <2> HIDE DEF h
  <2>3. \A i \in 1..Len(h.in) : h.in[i].face \in traceFaces'[n[2]]
    BY <2>2
  <2> QED
    BY <1>1, <2>1, <2>2, <2>3, EntryChanged
<1>3. TibInv' /\ nextUid' \in Nat
  <2>1. CASE Prolongs(f)
    <3>1. /\ tib.hop = f /\ f # NoFace /\ tib.live /\ tib.seq \in TraceSeq
          /\ f \in traceFaces[tib.seq] /\ tib.id \in Nat
          /\ tib \in [live : BOOLEAN, id : Nat, seq : TraceSeq \cup {0},
                      hop : Face \cup {NoFace}, timer : Nat \cup {NoTimer}]
      BY <2>1, ConstantFacts DEF Prolongs, KiteInv, TibInv
    <3>2. /\ hopTimers' = ReplacedTimers \cup {HopTimer(tib.id, f, ProlongTime)}
          /\ tib' = [tib EXCEPT !.timer = nextUid]
          /\ nextUid' = nextUid + 4
      BY <2>1 DEF OnContentData, TakeUids
    <3>3. hopTimers' = {HopTimer(tib.id, f, ProlongTime)}
      BY <3>2, NoOtherTimer
    <3>4. tib.live = TRUE
      BY <3>1
    <3>5. tib' = [live |-> TRUE, id |-> tib.id, seq |-> tib.seq, hop |-> f,
                  timer |-> nextUid]
      BY <3>1, <3>2, <3>4
    <3>6. TibInv'
      BY <3>1, <3>3, <3>5, TibSet, ConstantFacts
    <3> QED
      BY <1>1, <3>2, <3>6
  <2>2. CASE ~Prolongs(f)
    <3>1. UNCHANGED <<nextUid, tib, hopTimers>>
      BY <2>2 DEF OnContentData
    <3> QED
      BY <1>1, <3>1, TibKept
  <2> QED
    BY <2>1, <2>2
<1>4. CallsInv'
  <2>1. pulls' = pulls
    BY DEF OnContentData
  <2> QED
    BY <1>3, <2>1 DEF KiteInv, CallsInv
<1> QED
  BY <1>2, <1>3, <1>4 DEF KiteInv

\* onIncomingData for a trace: the hop is the face of a record that has not expired.
LEMMA TraceKeepsInv ==
  ASSUME KiteInv, now' = now, traceFaces' = traceFaces, NEW f \in Face, NEW n \in Name,
         OnTraceData(f, n)
  PROVE  KiteInv'
<1>1. /\ now \in Nat /\ EntryInv(pit[n], n, now) /\ nextUid \in Nat
      /\ traceFaces \in [TraceSeq -> SUBSET Face] /\ pit[n] \in Entry
      /\ n \in TraceName /\ n[2] \in TraceSeq
  BY ConstantFacts DEF KiteInv, CallsInv, PitInv, TraceInv, OnTraceData
<1>2. PitInv' /\ TraceInv'
  <2> DEFINE h == Satisfied(pit[n], f)
  <2>1. pit' = [pit EXCEPT ![n] = h] /\ pit[n].live = TRUE
    BY <1>1 DEF OnTraceData, Entry
  <2>2. EntryInv(h, n, now) /\ h.in = << >>
    BY <1>1, <2>1, EntrySatisfied
  <2> HIDE DEF h
  <2>3. \A i \in 1..Len(h.in) : h.in[i].face \in traceFaces'[n[2]]
    BY <2>2
  <2> QED
    BY <1>1, <2>1, <2>2, <2>3, EntryChanged
<1>3. CASE Askers(n) = {}
  <2>1. UNCHANGED <<nextUid, tib, hopTimers, pulls>>
    BY <1>3 DEF OnTraceData
  <2>2. TibInv'
    BY <2>1, TibKept
  <2>3. CallsInv'
    BY <2>1 DEF KiteInv, CallsInv
  <2> QED
    BY <1>2, <2>2, <2>3 DEF KiteInv
<1>4. CASE Askers(n) # {}
  <2> DEFINE hop == TraceFace(n, f)
             id == IF tib.live THEN tib.id ELSE nextUid
  <2>1. hop \in traceFaces[n[2]] /\ hop \in Face
    <3>1. Askers(n) \in SUBSET (1..Len(pit[n].in)) /\ Askers(n) \in SUBSET Nat
      BY <1>1 DEF Askers
    <3>2. Min(Askers(n)) \in 1..Len(pit[n].in)
      BY <1>4, <3>1, LeastOf
    <3>3. hop = pit[n].in[Min(Askers(n))].face
      BY DEF TraceFace
    <3>4. hop \in traceFaces[n[2]]
      BY <1>1, <3>2, <3>3 DEF KiteInv, TraceInv
    <3> QED
      BY <1>1, <3>4
  <2>2. /\ UpdateTib(n[2], hop)
        /\ IF DoPull /\ IsNewer(n[2])
           THEN \E p \in PullOrders(hop) : pulls' = pulls \cup PullCalls(p, hop)
           ELSE UNCHANGED pulls
    BY <1>4 DEF OnTraceData
  <2>3. id \in Nat
    BY <1>1 DEF KiteInv, TibInv
  <2> HIDE DEF hop, id
  <2>4. pulls' \subseteq [at : Nat, name : ContentName, face : Face]
    <3>1. pulls \subseteq [at : Nat, name : ContentName, face : Face]
      BY DEF KiteInv, CallsInv
    <3>2. CASE pulls' = pulls
      BY <3>1, <3>2
    <3>3. CASE \E p \in PullOrders(hop) : pulls' = pulls \cup PullCalls(p, hop)
      <4>1. PICK p \in PullOrders(hop) : pulls' = pulls \cup PullCalls(p, hop)
        BY <3>3
      <4>2. PullCalls(p, hop) \subseteq [at : Nat, name : ContentName, face : Face]
        BY <1>1, <2>1, PullsAreContent
      <4> QED
        BY <3>1, <4>1, <4>2
    <3> QED
      BY <2>2, <3>2, <3>3
  <2>5. TibInv' /\ nextUid' \in Nat
    <3>1. CASE IsNewer(n[2])
      <4>1. /\ tib' = [live |-> TRUE, id |-> id, seq |-> n[2], hop |-> hop, timer |-> nextUid]
            /\ hopTimers' = ReplacedTimers \cup {HopTimer(id, hop, TraceLifetime)}
            /\ nextUid' = nextUid + 4
        BY <2>2, <3>1 DEF UpdateTib, TakeUids, id
      <4>2. hopTimers' = {HopTimer(id, hop, TraceLifetime)}
        BY <4>1, NoOtherTimer
      <4>3. TibInv'
        BY <1>1, <2>1, <2>3, <4>1, <4>2, TibSet, ConstantFacts
      <4> QED
        BY <1>1, <4>1, <4>3
    <3>2. CASE ~IsNewer(n[2])
      <4>1. UNCHANGED <<nextUid, tib, hopTimers>>
        BY <2>2, <3>2 DEF UpdateTib
      <4> QED
        BY <1>1, <4>1, TibKept
    <3> QED
      BY <3>1, <3>2
  <2>6. CallsInv'
    BY <1>1, <2>4, <2>5 DEF CallsInv
  <2> QED
    BY <1>2, <2>5, <2>6 DEF KiteInv
<1> QED
  BY <1>3, <1>4

\* onIncomingNack: the trace that it removes takes its call with it.
LEMMA NackKeepsInv ==
  ASSUME KiteInv, now' = now, NEW f \in Face, NEW n \in Name, NEW x \in Nonce,
         NEW reason, ReceiveNack(f, n, x, reason)
  PROVE  KiteInv'
<1>1. /\ now \in Nat /\ EntryInv(pit[n], n, now) /\ pit[n] \in Entry
      /\ traceFaces \in [TraceSeq -> SUBSET Face]
      /\ traceFaces' = traceFaces /\ nextUid' = nextUid /\ pulls' = pulls
      /\ n \in TraceName => \A i \in 1..Len(pit[n].in) : pit[n].in[i].face \in traceFaces[n[2]]
  BY DEF KiteInv, CallsInv, PitInv, TraceInv, ReceiveNack, OnIncomingNack
<1>2. pit[n].live = TRUE
  <2>1. pit[n].out # {}
    BY DEF ReceiveNack, OnIncomingNack
  <2>2. pit[n].live \in BOOLEAN /\ (~pit[n].live => pit[n] = NoEntry)
    BY <1>1 DEF EntryInv, Entry, TimersInv
  <2> QED
    BY <2>1, <2>2 DEF NoEntry
<1> DEFINE removes == RemoveTraceOnNack /\ reason = "NoRoute"
           d == WithNack(pit[n], f, x)
           g == [d EXCEPT !.in = << >>]
<1>3. /\ pit' = [pit EXCEPT ![n] = IF removes /\ tib.hop = f THEN g ELSE d]
      /\ IF removes THEN RemoveNextHop(f) ELSE UNCHANGED <<tib, hopTimers>>
  BY DEF ReceiveNack, OnIncomingNack
<1>4. EntryInv(d, n, now) /\ d.live = TRUE
  BY <1>1, <1>2, EntryNacked
<1>9. d.in = pit[n].in
  BY <1>1 DEF WithNack, Entry
<1> HIDE DEF d
<1>5. EntryInv(g, n, now)
  BY <1>1, <1>4, EntryEmptied
<1>10. g.in = << >>
  BY <1>4 DEF EntryInv, Entry
<1> HIDE DEF g, removes
<1>6. PitInv' /\ TraceInv'
  <2>1. CASE removes /\ tib.hop = f
    <3>1. pit' = [pit EXCEPT ![n] = g]
      BY <1>3, <2>1
    <3>2. \A i \in 1..Len(g.in) : g.in[i].face \in traceFaces'[n[2]]
      BY <1>10
    <3> QED
      BY <1>1, <1>5, <3>1, <3>2, EntryChanged
  <2>2. CASE ~(removes /\ tib.hop = f)
    <3>1. pit' = [pit EXCEPT ![n] = d]
      BY <1>3, <2>2
    <3> QED
      BY <1>1, <1>4, <1>9, <3>1, EntryChanged
  <2> QED
    BY <2>1, <2>2
<1>7. TibInv'
  <2>1. CASE removes /\ tib.hop = f
    BY <1>3, <2>1, NoOtherTimer, TibRemoved DEF RemoveNextHop
  <2>2. CASE ~(removes /\ tib.hop = f)
    <3>1. tib' = tib /\ hopTimers' = hopTimers
      BY <1>3, <2>2 DEF RemoveNextHop
    <3> QED
      BY <1>1, <3>1, TibKept
  <2> QED
    BY <2>1, <2>2
<1>8. CallsInv'
  BY <1>1 DEF KiteInv, CallsInv
<1> QED
  BY <1>6, <1>7, <1>8 DEF KiteInv

\* A call of the simulator: an entry ends, the next hop ends, or a pulled Interest is sent.
LEMMA CallKeepsInv ==
  ASSUME KiteInv, RunCall
  PROVE  KiteInv'
<1>1. /\ now \in Nat /\ now' = now /\ traceFaces' = traceFaces
      /\ traceFaces \in [TraceSeq -> SUBSET Face]
  BY DEF KiteInv, CallsInv, TraceInv, RunCall
<1>2. ASSUME NEW n \in Name, OnInterestUnsatisfied(n) \/ OnStraggler(n)
      PROVE  KiteInv'
  <2>1. /\ pit' = [pit EXCEPT ![n] = NoEntry]
        /\ UNCHANGED <<nextUid, tib, hopTimers, pulls>>
    BY <1>2 DEF OnInterestUnsatisfied, OnStraggler, Finalize
  <2>2. EntryInv(NoEntry, n, now) /\ NoEntry.in = << >>
    BY <1>1, EntryAbsent DEF NoEntry
  <2>3. \A i \in 1..Len(NoEntry.in) : NoEntry.in[i].face \in traceFaces'[n[2]]
    BY <2>2
  <2>4. PitInv' /\ TraceInv'
    BY <1>1, <2>1, <2>2, <2>3, EntryChanged
  <2>5. TibInv'
    BY <1>1, <2>1, TibKept
  <2>6. CallsInv'
    BY <1>1, <2>1 DEF KiteInv, CallsInv
  <2> QED
    BY <2>4, <2>5, <2>6 DEF KiteInv
<1>3. ASSUME NEW t \in hopTimers, OnTibEntryNextHopTimeout(t)
      PROVE  KiteInv'
  <2>1. tib.hop = t.face
    BY DEF KiteInv, TibInv, HopTimerIsOwned
  <2>2. /\ tib' = NoTib /\ hopTimers' = {}
        /\ UNCHANGED <<nextUid, pit, pulls>>
    BY <1>3, <2>1, NoOtherTimer DEF OnTibEntryNextHopTimeout
  <2>3. PitInv' /\ TraceInv'
    BY <1>1, <2>2, EntriesKept
  <2>4. TibInv'
    BY <2>2, TibRemoved
  <2>5. CallsInv'
    BY <1>1, <2>2 DEF KiteInv, CallsInv
  <2> QED
    BY <2>3, <2>4, <2>5 DEF KiteInv
<1>4. ASSUME NEW p \in pulls, SendPulled(p)
      PROVE  KiteInv'
  <2>1. pulls' = pulls \ {p} /\ UNCHANGED <<nextUid, pit, tib, hopTimers>>
    BY <1>4 DEF SendPulled
  <2>2. PitInv' /\ TraceInv'
    BY <1>1, <2>1, EntriesKept
  <2>3. TibInv'
    BY <1>1, <2>1, TibKept
  <2>4. CallsInv'
    BY <1>1, <2>1 DEF KiteInv, CallsInv
  <2> QED
    BY <2>2, <2>3, <2>4 DEF KiteInv
<1>5. ASSUME NEW n \in Name, CsEvict(n)
      PROVE  KiteInv'
  <2>1. UNCHANGED <<nextUid, pit, tib, hopTimers, pulls>>
    BY <1>5 DEF CsEvict
  <2>2. PitInv' /\ TraceInv'
    BY <1>1, <2>1, EntriesKept
  <2>3. TibInv'
    BY <1>1, <2>1, TibKept
  <2>4. CallsInv'
    BY <1>1, <2>1 DEF KiteInv, CallsInv
  <2> QED
    BY <2>2, <2>3, <2>4 DEF KiteInv
<1> QED
  BY <1>2, <1>3, <1>4, <1>5 DEF RunCall

\* The clock moves on past no timer.
LEMMA TickKeepsInv ==
  ASSUME KiteInv, RouterTick
  PROVE  KiteInv'
<1>1. /\ now \in Nat /\ now' = now + 1 /\ nextUid' = nextUid
      /\ UNCHANGED <<pit, tib, hopTimers, pulls, traceFaces>>
  BY DEF KiteInv, CallsInv, RouterTick, Advance, routerVars
<1>2. ASSUME NEW n \in Name PROVE EntryInv(pit[n], n, now + 1)
  <2>1. EntryInv(pit[n], n, now)
    BY DEF KiteInv, PitInv
  <2>2. now # pit[n].unsatisfy /\ now # pit[n].straggler
    BY DEF RouterTick, TimerAtNow
  <2> QED
    BY <1>1, <2>1, <2>2, EntryLater
<1>3. PitInv'
  <2>1. pit' \in [Name -> Entry]
    BY <1>1 DEF KiteInv, PitInv
  <2> QED
    BY <1>1, <1>2, <2>1 DEF PitInv
<1>4. TraceInv'
  BY <1>1 DEF KiteInv, TraceInv
<1>5. TibInv'
  BY <1>1, TibKept
<1>6. CallsInv'
  BY <1>1 DEF KiteInv, CallsInv
<1> QED
  BY <1>3, <1>4, <1>5, <1>6 DEF KiteInv

\* Every step of the router and its network.
LEMMA RouterStep ==
  ASSUME KiteInv, [RouterNext]_kiteVars
  PROVE  KiteInv'
<1>1. CASE Receive
  <2>1. now' = now
    BY <1>1 DEF Receive
  <2>2. ASSUME NEW f \in Face, NEW n \in Name, NEW x \in Nonce, ReceiveInterest(f, n, x)
        PROVE  KiteInv'
    BY <2>1, <2>2, InterestKeepsInv
  <2>3. ASSUME NEW f \in Face, NEW n \in Name, ReceiveData(f, n)
        PROVE  KiteInv'
    <3>1. traceFaces' = traceFaces
      BY <2>3 DEF ReceiveData
    <3>2. CASE OnDataUnsolicited(f, n)
      <4>1. UNCHANGED <<nextUid, pit, tib, hopTimers, pulls>>
        BY <3>2 DEF OnDataUnsolicited, routerVars
      <4>2. traceFaces \in [TraceSeq -> SUBSET Face]
        BY DEF KiteInv, TraceInv
      <4>3. PitInv' /\ TraceInv'
        BY <2>1, <3>1, <4>1, <4>2, EntriesKept
      <4>4. TibInv'
        BY <3>1, <4>1, TibKept
      <4>5. CallsInv'
        BY <2>1, <4>1 DEF KiteInv, CallsInv
      <4> QED
        BY <4>3, <4>4, <4>5 DEF KiteInv
    <3>3. CASE OnContentData(f, n)
      BY <2>1, <3>1, <3>3, ContentKeepsInv
    <3>4. CASE OnTraceData(f, n)
      BY <2>1, <3>1, <3>4, TraceKeepsInv
    <3> QED
      BY <2>3, <3>2, <3>3, <3>4 DEF ReceiveData
  <2>4. ASSUME NEW f \in Face, NEW n \in Name, NEW x \in Nonce, NEW reason,
               ReceiveNack(f, n, x, reason)
        PROVE  KiteInv'
    BY <2>1, <2>4, NackKeepsInv
  <2> QED
    BY <1>1, <2>2, <2>3, <2>4 DEF Receive
<1>2. CASE RunCall
  BY <1>2, CallKeepsInv
<1>3. CASE RouterTick
  BY <1>3, TickKeepsInv
<1>4. CASE UNCHANGED kiteVars
  <2>1. UNCHANGED <<now, nextUid, pit, tib, hopTimers, pulls, traceFaces>>
    BY <1>4 DEF kiteVars, routerVars
  <2> QED
    BY <2>1 DEF KiteInv, CallsInv, PitInv, TraceInv, TibInv, HopTimerIsOwned
<1> QED
  BY <1>1, <1>2, <1>3, <1>4 DEF RouterNext

--------------------------------------------------------------------------------
(* The theorems *)

\* No packet takes an entry away: what arrives leaves it or makes it live.
LEMMA PacketsKeepEntries ==
  ASSUME KiteInv, Receive, NEW n \in Name, pit[n].live = TRUE
  PROVE  pit'[n].live = TRUE
<1>1. /\ now \in Nat /\ pit \in [Name -> Entry] /\ tib.hop \in Face \cup {NoFace}
      /\ \A m \in Name : EntryInv(pit[m], m, now)
  BY DEF KiteInv, CallsInv, PitInv, TibInv
<1>2. ASSUME NEW m \in Name, NEW d, pit' = [pit EXCEPT ![m] = d], d.live = TRUE
      PROVE  pit'[n].live = TRUE
  <2>1. pit'[n] = IF m = n THEN d ELSE pit[n]
    BY <1>1, <1>2
  <2> QED
    BY <1>2, <2>1
<1>3. ASSUME NEW f \in Face, NEW m \in Name, NEW x \in Nonce, ReceiveInterest(f, m, x)
      PROVE  pit'[n].live = TRUE
  <2>2. CASE OnInterestLoop(f, m, x)
    BY <2>2 DEF OnInterestLoop, routerVars
  <2>3. CASE OnContentStoreHit(f, m, x)
    <3> DEFINE h == WithStragglerTimer(Cancelled(Inserted(pit[m])), TRUE)
    <3>1. pit' = [pit EXCEPT ![m] = h]
      BY <2>3 DEF OnContentStoreHit
    <3>2. h.live = TRUE
      BY <1>1, EntryAnswered
    <3> HIDE DEF h
    <3> QED
      BY <1>2, <3>1, <3>2
  <2>4. CASE OnContentStoreMiss(f, m, x)
    <3> DEFINE u == WithUnsatisfyTimer(
                       WithInRecord(Cancelled(Inserted(pit[m])), m, f, x))
               a == AfterReceiveInterest(m, u, x).entry
    <3>1. pit' = [pit EXCEPT ![m] = a]
      BY <2>4 DEF OnContentStoreMiss
    <3>a. u = WithUnsatisfyTimer(
                 WithInRecord(Cancelled(Inserted(pit[m])), m, f, x))
      OBVIOUS
    <3> HIDE DEF u
    <3>2. EntryInv(u, m, now) /\ u.live = TRUE
      BY <1>1, <3>a, EntryWaits
    <3>3. a.live = TRUE
      BY <1>1, <3>2, EntryForwarded
    <3> HIDE DEF a
    <3> QED
      BY <1>2, <3>1, <3>3
  <2> QED
    BY <1>3, <2>2, <2>3, <2>4 DEF ReceiveInterest
<1>4. ASSUME NEW f \in Face, NEW m \in Name, ReceiveData(f, m)
      PROVE  pit'[n].live = TRUE
  <2>1. CASE OnDataUnsolicited(f, m)
    BY <2>1 DEF OnDataUnsolicited, routerVars
  <2>2. CASE OnContentData(f, m) \/ OnTraceData(f, m)
    <3>1. pit' = [pit EXCEPT ![m] = Satisfied(pit[m], f)] /\ pit[m].live
      BY <2>2 DEF OnContentData, OnTraceData
    <3>2. pit[m].live = TRUE
      BY <1>1, <3>1 DEF Entry
    <3>3. Satisfied(pit[m], f).live = TRUE
      BY <1>1, <3>2, EntrySatisfied
    <3> QED
      BY <1>2, <3>1, <3>3
  <2> QED
    BY <1>4, <2>1, <2>2 DEF ReceiveData
<1>5. ASSUME NEW f \in Face, NEW m \in Name, NEW x \in Nonce, NEW reason,
             ReceiveNack(f, m, x, reason)
      PROVE  pit'[n].live = TRUE
  <2>1. EntryInv(pit[m], m, now)
    BY <1>1
  <2>2. pit[m].live = TRUE
    <3>1. pit[m].out # {}
      BY <1>5 DEF ReceiveNack, OnIncomingNack
    <3>2. pit[m].live \in BOOLEAN /\ (~pit[m].live => pit[m] = NoEntry)
      BY <2>1 DEF EntryInv, Entry, TimersInv
    <3> QED
      BY <3>1, <3>2 DEF NoEntry
  <2> DEFINE d == WithNack(pit[m], f, x)
             g == [d EXCEPT !.in = << >>]
  <2>3. pit' = [pit EXCEPT ![m] = g] \/ pit' = [pit EXCEPT ![m] = d]
    BY <1>5 DEF ReceiveNack, OnIncomingNack
  <2>4. EntryInv(d, m, now) /\ d.live = TRUE
    BY <1>1, <2>1, <2>2, EntryNacked
  <2> HIDE DEF d
  <2>5. g.live = TRUE
    BY <1>1, <2>1, <2>4, EntryEmptied
  <2> HIDE DEF g
  <2> QED
    BY <1>2, <2>1, <2>3, <2>4, <2>5
<1> QED
  BY <1>3, <1>4, <1>5 DEF Receive

\* The counted form of "one record for each face".
LEMMA EntryCounts ==
  ASSUME NEW n \in Name, NEW t, NEW e, EntryInv(e, n, t)
  PROVE  /\ ToSet(e.in) \subseteq InRecord /\ e.out \subseteq OutRecord
         /\ \A f \in Face : Cardinality({o \in e.out : o.face = f}) <= 1
         /\ Len(e.in) = Cardinality({r.face : r \in ToSet(e.in)})
         /\ ~e.live => e = NoEntry
<1>1. e \in Entry /\ e.in \in Seq(InRecord) /\ e.out \subseteq OutRecord /\ OneEach(e.out)
  BY DEF EntryInv, Entry, RecordsInv
<1>2. ToSet(e.in) \subseteq InRecord
  <2>1. /\ ToSet(e.in) = {e.in[i] : i \in 1..Len(e.in)}
        /\ \A i \in 1..Len(e.in) : e.in[i] \in InRecord
    BY <1>1, RecordsOfFaces
  <2> QED
    BY <2>1
<1>3. ASSUME NEW f \in Face PROVE Cardinality({o \in e.out : o.face = f}) <= 1
  <2> DEFINE S == {o \in e.out : o.face = f}
  <2>1. CASE S = {}
    <3>1. Cardinality(S) = 0
      BY <2>1, FS_EmptySet
    <3> QED
      BY <3>1
  <2>2. CASE S # {}
    <3>1. PICK o \in S : TRUE
      BY <2>2
    <3>2. S = {o}
      BY <1>1, <3>1 DEF OneEach
    <3>3. Cardinality(S) = 1
      BY <3>2, FS_Singleton
    <3> QED
      BY <3>3
  <2> QED
    BY <2>1, <2>2
<1>4. Len(e.in) = Cardinality({r.face : r \in ToSet(e.in)})
  <2> DEFINE T == {r.face : r \in ToSet(e.in)}
             m == Len(e.in)
             face == [i \in 1..m |-> e.in[i].face]
  <2>1. m \in Nat
    BY <1>1
  <2>2. T = {e.in[i].face : i \in 1..m}
    BY <1>1, RecordsOfFaces DEF InFaces
  <2>3. \A i, j \in 1..m : e.in[i].face = e.in[j].face => i = j
    BY DEF EntryInv, RecordsInv
  <2> HIDE DEF T, m
  <2>4. face \in Bijection(1..m, T)
    BY <2>2, <2>3 DEF Bijection, Injection, Surjection, IsInjective
  <2>5. ExistsBijection(1..m, T)
    BY <2>4 DEF ExistsBijection
  <2>6. Cardinality(T) = m
    BY <2>1, <2>5, FS_CountingElements
  <2> QED
    BY <2>6 DEF T, m
<1> QED
  BY <1>1, <1>2, <1>3, <1>4 DEF EntryInv, TimersInv

\* KiteInv is inductive, whatever arrives on whatever face.
LEMMA RouterInvariant == RouterSpec => []KiteInv
<1>1. RouterInit => KiteInv
  BY RouterInitially
<1>2. KiteInv /\ [RouterNext]_kiteVars => KiteInv'
  BY RouterStep
<1> QED
  BY <1>1, <1>2, PTL DEF RouterSpec

\* Whatever the order of packets and timers, an entry of the pending table has exactly one
\* running timer: cancelUnsatisfyAndStragglerTimer leaves none of an earlier Interest.
THEOREM EntriesHaveOneTimer == RouterSpec => []EntryHasOneTimer
<1>1. KiteInv => EntryHasOneTimer
  <2> SUFFICES ASSUME KiteInv PROVE EntryHasOneTimer
    OBVIOUS
  <2>1. KiteTypeOK
    <3>1. \A n \in Name :
             /\ ToSet(pit[n].in) \subseteq InRecord /\ pit[n].out \subseteq OutRecord
             /\ \A f \in Face : Cardinality({o \in pit[n].out : o.face = f}) <= 1
             /\ Len(pit[n].in) = Cardinality({r.face : r \in ToSet(pit[n].in)})
             /\ ~pit[n].live => pit[n] = NoEntry
      BY EntryCounts DEF KiteInv, PitInv
    <3>2. /\ tib.hop \in Face \cup {NoFace} /\ tib.seq \in TraceSeq \cup {0}
          /\ hopTimers \subseteq [uid : Nat, at : Nat, face : Face, entry : Nat]
          /\ pulls \subseteq [at : Nat, name : ContentName, face : Face]
      BY DEF KiteInv, TibInv, CallsInv
    <3> QED
      BY <3>1, <3>2, Zenon DEF KiteTypeOK
  <2>2. \A n \in Name : TimersInv(pit[n], now)
    BY DEF KiteInv, PitInv, EntryInv
  <2> QED
    BY <2>1, <2>2 DEF EntryHasOneTimer, TimersInv
<1> QED
  BY <1>1, RouterInvariant, PTL

\* Every scheduled onTibEntryNextHopTimeout belongs to the entry in the table and to its
\* present hop, so that the pointers that it holds are never stale.
THEOREM HopTimersAreOwned == RouterSpec => []HopTimerIsOwned
<1>1. KiteInv => HopTimerIsOwned
  BY DEF KiteInv, TibInv
<1> QED
  BY <1>1, RouterInvariant, PTL

\* updateTib points the prefix only to a face on which the trace was announced.
THEOREM HopsFollowTraces == RouterSpec => []HopFollowsTrace
<1>1. KiteInv => HopFollowsTrace
  BY DEF KiteInv, TibInv, HopFollowsTrace
<1> QED
  BY <1>1, RouterInvariant, PTL

\* onInterestFinalize never takes an entry before the Interests that wait in it expire.
THEOREM EntriesOutliveRequests == RouterSpec => PendingOutlivesTimers
<1> DEFINE Ends == \A n \in Name : pit[n].live /\ ~pit'[n].live /\ pit[n].unsatisfy # NoTime =>
                      \A r \in ToSet(pit[n].in) : r.expiry <= now
<1>1. KiteInv /\ [RouterNext]_kiteVars => [Ends]_kiteVars
  <2> SUFFICES ASSUME KiteInv, RouterNext,
                      NEW n \in Name, pit[n].live, ~pit'[n].live, pit[n].unsatisfy # NoTime
               PROVE  \A r \in ToSet(pit[n].in) : r.expiry <= now
    OBVIOUS
  <2>1. pit[n] \in Entry /\ TimersInv(pit[n], now) /\ now \in Nat
    BY DEF KiteInv, PitInv, EntryInv, CallsInv
  <2>2. pit[n].unsatisfy = now
    <3>1. pit[n].live = TRUE
      BY <2>1 DEF Entry
    <3>2. RunCall
      <4>1. CASE Receive
        BY <3>1, <4>1, PacketsKeepEntries
      <4>2. CASE RouterTick
        BY <4>2 DEF RouterTick, routerVars
      <4> QED
        BY <4>1, <4>2 DEF RouterNext
    <3>3. PICK m \in Name : OnInterestUnsatisfied(m) \/ OnStraggler(m)
      BY <3>2 DEF RunCall, OnTibEntryNextHopTimeout, SendPulled, CsEvict
    <3>4. m = n
      BY <3>3 DEF OnInterestUnsatisfied, OnStraggler, Finalize, KiteInv, PitInv
    <3>5. CASE OnStraggler(n)
      BY <2>1, <3>1, <3>5 DEF OnStraggler, TimersInv
    <3> QED
      BY <3>3, <3>4, <3>5 DEF OnInterestUnsatisfied
  <2>3. \A i \in 1..Len(pit[n].in) : pit[n].in[i].expiry <= now
    BY <2>1, <2>2 DEF TimersInv
  <2> QED
    BY <2>1, <2>3, RecordsOfFaces
<1> QED
  BY <1>1, RouterInvariant, PTL DEF RouterSpec, PendingOutlivesTimers
--------------------------------------------------------------------------------
(* Pending Interests reach the next hop *)

\* The Interest of an out-record is under way: hasPendingOutRecords for the record o.
Pends(o, t) == o.expiry >= t /\ o.nack = NoNonce
NonePends(R, t) == \A o \in R : ~Pends(o, t)

\* An entry that was rejected waits for nothing, the timer of one that was not is that of an
\* Interest in it, and S, the faces that it was sent to, are all those of its records.
SendInv(e, S, t) ==
    /\ e.straggler # NoTime /\ e.in # << >> => NonePends(e.out, t)
    /\ e.in # << >> /\ e.unsatisfy # NoTime =>
          \E i \in 1..Len(e.in) : e.in[i].expiry = e.unsatisfy
    /\ \A o \in e.out : o.face \in S

\* PendingReachesHop for the entry e of n, the hop h and the scheduled pulls P.
Reaches(n, e, h, S, P, t) ==
    /\ h # NoFace /\ h \notin InFaces(e)
    /\ e.straggler = NoTime
    /\ \E r \in ToSet(e.in) : r.expiry > t
    => h \in S \/ \E p \in P : p.name = n /\ p.face = h

PullInv ==
    /\ sent \in [Name -> SUBSET Face]
    /\ \A n \in ContentName :
          /\ SendInv(pit[n], sent[n], now)
          /\ n \in heldBack \/ Reaches(n, pit[n], tib.hop, sent[n], pulls, now)

\* With no limit in the way, every pending Interest that can be pulled is.
LEMMA EveryPullableIsPulled ==
  ASSUME now \in Nat, Cardinality(Content) <= MaxPullCnt,
         Cardinality(Content) <= MaxPullSends, NEW f \in Face,
         NEW p \in PullOrders(f), NEW n \in Pullable(f), LastExpiry(pit[n]) > now
  PROVE  \E c \in PullCalls(p, f) : c.name = n /\ c.face = f
<1>1. IsFiniteSet(ContentName) /\ Cardinality(ContentName) = Cardinality(Content)
  <2>1. /\ IsFiniteSet({"content"}) /\ Cardinality({"content"}) = 1
        /\ IsFiniteSet(Content)
    BY FS_Singleton, KiteForwarderAssumption
  <2>2. Cardinality(Content) \in Nat
    BY <2>1, FS_CardinalityType
  <2>3. IsFiniteSet(ContentName) /\ Cardinality(ContentName) = 1 * Cardinality(Content)
    BY <2>1, FS_Product DEF ContentName
  <2> QED
    BY <2>2, <2>3
<1> DEFINE Q == Pullable(f)
<1>2. /\ IsFiniteSet(Q) /\ Cardinality(Q) \in Nat /\ Cardinality(Content) \in Nat
      /\ Cardinality(Q) <= Cardinality(Content)
  <2>1. Q \in SUBSET ContentName
    BY DEF Pullable
  <2>2. IsFiniteSet(Q) /\ Cardinality(Q) <= Cardinality(ContentName)
    BY <1>1, <2>1, FS_Subset
  <2>3. Cardinality(Q) \in Nat /\ Cardinality(ContentName) \in Nat
    BY <1>1, <2>2, FS_CardinalityType
  <2> QED
    BY <1>1, <2>2, <2>3
<1>3. Len(p) = Min({MaxPullCnt, Cardinality(Q)}) /\ p \in SetToAllKPermutations(Q)
  BY DEF PullOrders
<1> HIDE DEF Q
<1>4. Len(p) = Cardinality(Q)
  <2>1. MaxPullCnt \in Nat
    BY KiteForwarderAssumption
  <2> DEFINE c == Cardinality(Q)
  <2>2. c \in Nat /\ c <= MaxPullCnt
    BY <1>2, <2>1
  <2>3. Len(p) = Min({MaxPullCnt, c})
    BY <1>3
  <2> HIDE DEF c
  <2>4. Min({MaxPullCnt, c}) = c
    BY <2>1, <2>2, LesserOf
  <2> QED
    BY <2>3, <2>4 DEF c
<1>5. PICK S \in SUBSET Q : p \in SetToSeqs(S)
  BY <1>3 DEF SetToAllKPermutations
<1>6. IsFiniteSet(S) /\ Cardinality(S) \in Nat
  BY <1>2, <1>5, FS_Subset, FS_CardinalityType
<1>7. p \in [1..Cardinality(S) -> S] /\ \A i, j \in 1..Cardinality(S) : i # j => p[i] # p[j]
  BY <1>5 DEF SetToSeqs
<1>8. Len(p) = Cardinality(S)
  BY <1>6, <1>7
<1>9. S = Q
  BY <1>2, <1>4, <1>5, <1>8, FS_Subset
<1>10. \E i \in 1..Len(p) : p[i] = n
  <2> DEFINE k == Cardinality(S)
  <2>1. p \in Injection(1..k, S)
    BY <1>7 DEF Injection, IsInjective
  <2>2. Cardinality(1..k) = Cardinality(S)
    <3>1. k \in Nat /\ k \in Int /\ 1 \in Int
      BY <1>6
    <3> HIDE DEF k
    <3>2. Cardinality(1..k) = IF 1 > k THEN 0 ELSE k - 1 + 1
      BY <3>1, FS_Interval
    <3>3. Cardinality(1..k) = k
      BY <3>1, <3>2
    <3> QED
      BY <3>3 DEF k
  <2>3. p \in Surjection(1..k, S)
    BY <1>6, <2>1, <2>2, FS_Injection
  <2>4. n \in S
    BY <1>9 DEF Q
  <2> QED
    BY <1>8, <2>3, <2>4 DEF Surjection
<1>11. PICK i \in 1..Len(p) : p[i] = n
  BY <1>10
<1>12. i \in {j \in 1..Min({MaxPullSends, Len(p)}) : LastExpiry(pit[p[j]]) > now}
  <2>1. MaxPullSends \in Nat /\ Len(p) \in Nat /\ Len(p) <= MaxPullSends
    BY <1>2, <1>4, KiteForwarderAssumption
  <2>2. Min({MaxPullSends, Len(p)}) = Len(p)
    BY <2>1, LesserOf
  <2> QED
    BY <1>11, <2>2
<1>13. [at |-> now + i - 1, name |-> p[i], face |-> f] \in PullCalls(p, f)
  BY <1>12 DEF PullCalls
<1> QED
  BY <1>11, <1>13

\* The last Interest of an entry that is not rejected expires with its timer.
LEMMA LastIsUnsatisfy ==
  ASSUME NEW n, NEW t, NEW e, EntryInv(e, n, t),
         e.unsatisfy # NoTime, NEW i \in 1..Len(e.in), e.in[i].expiry = e.unsatisfy
  PROVE  LastExpiry(e) = e.unsatisfy
<1> DEFINE E == {g.expiry : g \in ToSet(e.in)}
           m == e.unsatisfy
<1>1. e \in Entry /\ m \in Nat
  BY DEF EntryInv, Entry, Moment
<1>2. ToSet(e.in) = {e.in[j] : j \in 1..Len(e.in)} /\ \A j \in 1..Len(e.in) : e.in[j] \in InRecord
  BY <1>1, RecordsOfFaces
<1>3. \A y \in E : y \in Nat /\ m >= y
  <2>1. \A j \in 1..Len(e.in) : e.in[j].expiry \in Nat /\ m >= e.in[j].expiry
    BY <1>1, <1>2 DEF InRecord, EntryInv, TimersInv
  <2> QED
    BY <1>2, <2>1
<1>4. m \in E
  BY <1>2
<1> HIDE DEF E, m
<1>5. Max(E) = m
  <2>1. Max(E) \in E /\ \A z \in E : Max(E) >= z
    BY <1>3, <1>4, Zenon DEF Max
  <2>2. \A y \in E : (\A z \in E : y >= z) => y = m
    BY <1>1, <1>3, <1>4
  <2> QED
    BY <2>1, <2>2
<1> QED
  BY <1>5 DEF LastExpiry, E, m

\* afterReceiveInterest: what is not sent to the hop waits for it already, or is held back.
LEMMA InterestReaches ==
  ASSUME KiteInv, PullInv, ~TimerAtNow, NEW n \in ContentName, NEW f \in Face, NEW x \in Nonce,
         HoldBack(n), NEW u, EntryInv(u, n, now), u.live = TRUE, u.out = pit[n].out,
         u.straggler = NoTime, u.unsatisfy = now + Lifetime(n), Joined(u, pit[n], n, f),
         NEW a, a = AfterReceiveInterest(n, u, x)
  PROVE  /\ a.to \in SUBSET Face
         /\ SendInv(a.entry, sent[n] \cup a.to, now)
         /\ n \in heldBack' \/ Reaches(n, a.entry, tib.hop, sent[n] \cup a.to, pulls, now)
<1> DEFINE e == pit[n]
           F == ForwardTo(n, u)
           w == WithOutRecords(u, n, F, x)
           j == WithStragglerTimer(Cancelled(u), FALSE)
<1>1. /\ now \in Nat /\ n \in Name /\ e \in Entry /\ EntryInv(e, n, now) /\ u \in Entry
      /\ tib.hop \in Face \cup {NoFace} /\ now + Lifetime(n) \in Nat
  BY ConstantFacts DEF KiteInv, CallsInv, PitInv, TibInv, EntryInv
<1>2. /\ SendInv(e, sent[n], now)
      /\ n \in heldBack \/ Reaches(n, e, tib.hop, sent[n], pulls, now)
  BY DEF PullInv
<1>3. PICK k \in 1..Len(u.in) : u.in[k].face = f /\ u.in[k].expiry = now + Lifetime(n)
  BY DEF Joined
<1>4. u.in # << >>
  BY <1>1, <1>3, RecordsOfFaces
<1>5. F \in SUBSET Face
  BY ConstantFacts, <1>1 DEF ForwardTo, Follows
<1>6. HasPendingOutRecords(u) <=> ~NonePends(u.out, now)
  BY DEF HasPendingOutRecords, NonePends, Pends
<1>7. CASE HasPendingOutRecords(u)
  <2>1. a.entry = u /\ a.to = {}
    BY <1>7 DEF AfterReceiveInterest
  <2>2. ~NonePends(e.out, now)
    BY <1>6, <1>7
  <2>3. n \notin heldBack' =>
           e.in # << >> /\ e.straggler = NoTime /\ Reaches(n, e, tib.hop, sent[n], pulls, now)
    <3>1. HasPendingOutRecords(e)
      BY <2>2 DEF HasPendingOutRecords, NonePends, Pends
    <3>2. e.in = << >> => n \in heldBack'
      BY <3>1 DEF HoldBack
    <3>3. e.in # << >> => heldBack' = heldBack /\ e.straggler = NoTime
      BY <1>2, <2>2, <3>1 DEF HoldBack, SendInv
    <3> QED
      BY <1>2, <3>2, <3>3
  <2>4. SendInv(u, sent[n], now)
    <3>1. u.unsatisfy # NoTime => \E i \in 1..Len(u.in) : u.in[i].expiry = u.unsatisfy
      BY <1>3
    <3> QED
      BY <1>2, <1>4, <3>1 DEF SendInv
  <2>5. n \in heldBack' \/ Reaches(n, u, tib.hop, sent[n], pulls, now)
    <3> SUFFICES ASSUME n \notin heldBack', tib.hop # NoFace, tib.hop \notin InFaces(u)
                 PROVE  tib.hop \in sent[n] \/ \E p \in pulls : p.name = n /\ p.face = tib.hop
      BY DEF Reaches
    <3>1. tib.hop \notin InFaces(e)
      BY DEF Joined
    <3>2. e.live
      BY <1>1, <2>3 DEF EntryInv, TimersInv, NoEntry
    <3>3. e.unsatisfy # NoTime /\ e.unsatisfy \in Nat /\ e.unsatisfy >= now
      BY <1>1, <2>3, <3>2 DEF EntryInv, TimersInv, Entry, Moment
    <3>4. e.unsatisfy # now
      BY <1>1 DEF TimerAtNow
    <3>5. PICK i \in 1..Len(e.in) : e.in[i].expiry = e.unsatisfy
      BY <1>2, <2>3, <3>3 DEF SendInv
    <3>6. e.in[i] \in ToSet(e.in) /\ e.in[i].expiry > now
      <4>1. e.in[i] \in ToSet(e.in)
        BY <1>1, RecordIsIn
      <4>2. e.unsatisfy > now
        BY <1>1, <3>3, <3>4
      <4> QED
        BY <3>5, <4>1, <4>2
    <3> QED
      BY <2>3, <3>1, <3>6 DEF Reaches
  <2>6. sent[n] \cup a.to = sent[n]
    BY <2>1
  <2> QED
    BY <2>1, <2>4, <2>5, <2>6
<1>8. CASE ~HasPendingOutRecords(u) /\ F # {}
  <2>1. a.entry = w /\ a.to = F
    BY <1>8 DEF AfterReceiveInterest
  <2>2. OneEach(u.out)
    BY DEF EntryInv, RecordsInv
  <2>3. w = WithOutRecords(u, n, F, x)
    OBVIOUS
  <2> HIDE DEF w, F
  <2>4. /\ w \in Entry /\ OneEach(w.out)
        /\ w.in = u.in /\ w.live = u.live
        /\ w.unsatisfy = u.unsatisfy /\ w.straggler = u.straggler
    BY <1>1, <1>5, <2>2, <2>3, OutRecordsAdded
  <2>5. \A o \in w.out : o.face \in F \/ o \in u.out
    BY <1>1, <2>3, OutRecordsOf
  <2>7. \A o \in w.out : o.face \in sent[n] \cup F
    BY <1>2, <2>5 DEF SendInv
  <2>8. SendInv(w, sent[n] \cup F, now)
    <3>1. w.unsatisfy # NoTime => \E i \in 1..Len(w.in) : w.in[i].expiry = w.unsatisfy
      BY <1>3, <2>4
    <3> QED
      BY <1>4, <2>4, <2>7, <3>1 DEF SendInv
  <2>9. Reaches(n, w, tib.hop, sent[n] \cup F, pulls, now)
    <3> SUFFICES ASSUME tib.hop # NoFace, tib.hop \notin InFaces(w)
                 PROVE  tib.hop \in sent[n] \cup F
      BY DEF Reaches
    <3>1. InFaces(w) = InFaces(u)
      BY <2>4 DEF InFaces
    <3>2. CASE Follows(n, u)
      BY <3>2 DEF F, ForwardTo
    <3>3. CASE ~Follows(n, u)
      <4>1. ~CanForwardTo(u, tib.hop)
        BY <3>3 DEF Follows
      <4>2. u.in[k] \in ToSet(u.in) /\ u.in[k].expiry >= now
        <5>1. u.in[k] \in ToSet(u.in)
          BY <1>1, RecordIsIn
        <5>2. Lifetime(n) \in Nat
          BY <1>1, ConstantFacts
        <5> QED
          BY <1>1, <1>3, <5>1, <5>2
      <4>3. u.in[k].face # tib.hop
        BY <1>3, <3>1 DEF Joined
      <4>4. \E o \in u.out : o.face = tib.hop
        BY <4>1, <4>2, <4>3 DEF CanForwardTo
      <4> QED
        BY <1>2, <4>4 DEF SendInv
    <3> QED
      BY <3>2, <3>3
  <2> QED
    BY <1>5, <2>1, <2>8, <2>9
<1>9. CASE ~HasPendingOutRecords(u) /\ F = {}
  <2>1. a.entry = j /\ a.to = {}
    BY <1>9 DEF AfterReceiveInterest
  <2>2. now + StragglerTime \in Nat
    BY <1>1, ConstantFacts
  <2>3. /\ j \in Entry /\ j.in = u.in /\ j.out = u.out
        /\ j.unsatisfy = NoTime /\ j.straggler = now + StragglerTime
    BY <1>1, <2>2 DEF Entry, Moment, Cancelled, WithStragglerTimer
  <2> HIDE DEF j
  <2>4. NonePends(j.out, now)
    BY <1>6, <1>9, <2>3
  <2>5. SendInv(j, sent[n], now)
    BY <1>2, <1>4, <2>3, <2>4 DEF SendInv
  <2>6. Reaches(n, j, tib.hop, sent[n], pulls, now)
    BY <2>2, <2>3 DEF Reaches
  <2>7. sent[n] \cup a.to = sent[n]
    BY <2>1
  <2> QED
    BY <2>1, <2>5, <2>6, <2>7
<1> QED
  BY <1>7, <1>8, <1>9

\* A step that changes one entry, and takes or keeps the hop.
LEMMA ReachChanged ==
  ASSUME KiteInv, PullInv, now' = now, NEW n \in Name, NEW d, NEW S \in SUBSET Face,
         pit' = [pit EXCEPT ![n] = d], sent' = [sent EXCEPT ![n] = S],
         \A m \in Name : m # n => (m \in heldBack' <=> m \in heldBack),
         tib'.hop \in {tib.hop, NoFace}, pulls \subseteq pulls',
         n \in ContentName => /\ SendInv(d, S, now)
                              /\ n \in heldBack' \/ Reaches(n, d, tib'.hop, S, pulls', now)
  PROVE  PullInv'
<1>1. pit \in [Name -> Entry] /\ sent \in [Name -> SUBSET Face] /\ ContentName \subseteq Name
  BY ConstantFacts DEF KiteInv, PitInv, PullInv
<1>2. sent' \in [Name -> SUBSET Face]
  BY <1>1
<1>3. ASSUME NEW m \in ContentName
      PROVE  /\ SendInv(pit'[m], sent'[m], now')
             /\ m \in heldBack' \/ Reaches(m, pit'[m], tib'.hop, sent'[m], pulls', now')
  <2>1. m \in Name
    BY <1>1
  <2>2. CASE m = n
    <3>1. pit'[m] = d /\ sent'[m] = S
      BY <1>1, <2>1, <2>2
    <3> QED
      BY <2>2, <3>1
  <2>3. CASE m # n
    <3>1. pit'[m] = pit[m] /\ sent'[m] = sent[m] /\ (m \in heldBack' <=> m \in heldBack)
      BY <1>1, <2>1, <2>3
    <3>2. /\ SendInv(pit[m], sent[m], now)
          /\ m \in heldBack \/ Reaches(m, pit[m], tib.hop, sent[m], pulls, now)
      BY DEF PullInv
    <3>3. Reaches(m, pit[m], tib.hop, sent[m], pulls, now)
             => Reaches(m, pit[m], tib'.hop, sent[m], pulls', now)
      BY DEF Reaches
    <3> QED
      BY <3>1, <3>2, <3>3
  <2> QED
    BY <2>2, <2>3
<1> QED
  BY <1>2, <1>3 DEF PullInv

\* onIncomingInterest, whose three ends keep pending Interests on their way to the hop.
LEMMA InterestKeepsReach ==
  ASSUME KiteInv, PullInv, ~TimerAtNow, now' = now,
         NEW f \in Face, NEW n \in Name, NEW x \in Nonce, ReceiveInterest(f, n, x)
  PROVE  PullInv'
<1>1. /\ now \in Nat /\ pit \in [Name -> Entry] /\ EntryInv(pit[n], n, now)
      /\ sent \in [Name -> SUBSET Face] /\ sent[n] \in SUBSET Face
      /\ tib.hop \in Face \cup {NoFace}
  BY DEF KiteInv, CallsInv, PitInv, TibInv, PullInv
<1>2. tib' = tib /\ pulls' = pulls
  BY DEF ReceiveInterest, OnInterestLoop, OnContentStoreHit, OnContentStoreMiss, routerVars
<1>4. n \in ContentName => SendInv(pit[n], sent[n], now)
  BY DEF PullInv
<1>5. CASE OnInterestLoop(f, n, x) /\ heldBack' = heldBack
  <2>1. pit' = pit /\ sent' = sent
    BY <1>5 DEF OnInterestLoop, routerVars
  <2> QED
    BY <1>2, <1>5, <2>1 DEF PullInv
<1>6. CASE OnContentStoreHit(f, n, x) /\ heldBack' = heldBack
  <2> DEFINE h == WithStragglerTimer(Cancelled(Inserted(pit[n])), TRUE)
  <2>1. /\ pit' = [pit EXCEPT ![n] = h] /\ sent' = sent
        /\ pit[n].in = << >>
    BY <1>6 DEF OnContentStoreHit
  <2>2. h.in = pit[n].in /\ h.out = pit[n].out
    BY <1>1, EntryAnswered
  <2> HIDE DEF h
  <2>3. sent' = [sent EXCEPT ![n] = sent[n]]
    BY <1>1, <2>1
  <2>4. ToSet(h.in) = {}
    BY <2>1, <2>2 DEF ToSet
  <2>5. n \in ContentName => /\ SendInv(h, sent[n], now)
                             /\ Reaches(n, h, tib'.hop, sent[n], pulls', now)
    BY <1>2, <1>4, <2>1, <2>2, <2>4 DEF SendInv, Reaches
  <2> QED
    BY <1>1, <1>2, <1>6, <2>1, <2>3, <2>5, ReachChanged
<1>7. CASE Missed(f, n, x)
  <2> DEFINE u == WithUnsatisfyTimer(WithInRecord(Cancelled(Inserted(pit[n])), n, f, x))
             a == AfterReceiveInterest(n, u, x)
  <2>1. /\ pit' = [pit EXCEPT ![n] = a.entry] /\ sent' = [sent EXCEPT ![n] = sent[n] \cup a.to]
        /\ HoldBack(n)
    BY <1>7 DEF Missed, OnContentStoreMiss
  <2>2. u = WithUnsatisfyTimer(WithInRecord(Cancelled(Inserted(pit[n])), n, f, x))
    OBVIOUS
  <2>3. a = AfterReceiveInterest(n, u, x)
    OBVIOUS
  <2> HIDE DEF u, a
  <2>4. f \in Face /\ now \in Nat /\ EntryInv(pit[n], n, now)
    BY <1>1
  <2>5. /\ EntryInv(u, n, now) /\ u.live = TRUE
        /\ u.out = pit[n].out /\ u.straggler = NoTime /\ u.unsatisfy = now + Lifetime(n)
        /\ Joined(u, pit[n], n, f)
    <3>1. EntryInv(u, n, now) /\ u.live = TRUE /\ Joined(u, pit[n], n, f)
      BY <2>2, <2>4, EntryWaits
    <3> QED
      BY <3>1 DEF Joined
  <2>6. a.to \in SUBSET Face
    <3>1. ForwardTo(n, u) \in SUBSET Face
      BY ConstantFacts, <1>1 DEF ForwardTo, Follows
    <3>2. a.to = {} \/ a.to = ForwardTo(n, u)
      <4>1. CASE HasPendingOutRecords(u)
        BY <2>3, <4>1 DEF AfterReceiveInterest
      <4>2. CASE ~HasPendingOutRecords(u) /\ ForwardTo(n, u) # {}
        BY <2>3, <4>2 DEF AfterReceiveInterest
      <4>3. CASE ~HasPendingOutRecords(u) /\ ForwardTo(n, u) = {}
        BY <2>3, <4>3 DEF AfterReceiveInterest
      <4> QED
        BY <4>1, <4>2, <4>3
    <3> QED
      BY <3>1, <3>2
  <2>7. ASSUME n \in ContentName
        PROVE  /\ SendInv(a.entry, sent[n] \cup a.to, now)
               /\ n \in heldBack' \/ Reaches(n, a.entry, tib.hop, sent[n] \cup a.to, pulls, now)
    BY <2>1, <2>3, <2>4, <2>5, <2>7, InterestReaches
  <2>8. sent[n] \cup a.to \in SUBSET Face
    BY <1>1, <2>6
  <2>9. \A m \in Name : m # n => (m \in heldBack' <=> m \in heldBack)
    BY <2>1 DEF HoldBack
  <2> QED
    BY <1>1, <1>2, <2>1, <2>7, <2>8, <2>9, ReachChanged
<1> QED
  BY <1>5, <1>6, <1>7 DEF ReceiveInterest, Missed

\* Data for content: nobody waits any more.
LEMMA ContentKeepsReach ==
  ASSUME KiteInv, PullInv, now' = now, heldBack' = heldBack,
         NEW f \in Face, NEW n \in Name, OnContentData(f, n)
  PROVE  PullInv'
<1>1. /\ now \in Nat /\ pit \in [Name -> Entry] /\ EntryInv(pit[n], n, now)
      /\ sent \in [Name -> SUBSET Face] /\ sent[n] \in SUBSET Face
      /\ tib \in [live : BOOLEAN, id : Nat, seq : TraceSeq \cup {0},
                  hop : Face \cup {NoFace}, timer : Nat \cup {NoTimer}]
  BY DEF KiteInv, CallsInv, PitInv, TibInv, PullInv
<1> DEFINE h == Satisfied(pit[n], f)
<1>2. /\ pit' = [pit EXCEPT ![n] = h] /\ pit[n].live = TRUE /\ sent' = sent /\ pulls' = pulls
      /\ n \in ContentName
  BY <1>1 DEF OnContentData, EntryInv, Entry
<1>3. tib'.hop = tib.hop
  BY <1>1 DEF OnContentData
<1>4. h.in = << >> /\ h.out \subseteq pit[n].out
  <2>1. pit[n] \in Entry
    BY <1>1
  <2> QED
    BY <2>1 DEF Satisfied, WithStragglerTimer, Cancelled, Entry
<1> HIDE DEF h
<1>5. sent' = [sent EXCEPT ![n] = sent[n]]
  BY <1>1, <1>2
<1>6. ToSet(h.in) = {}
  BY <1>4 DEF ToSet
<1>7. SendInv(h, sent[n], now) /\ Reaches(n, h, tib'.hop, sent[n], pulls', now)
  <2>1. SendInv(pit[n], sent[n], now)
    BY <1>2 DEF PullInv
  <2> QED
    BY <1>2, <1>4, <1>6, <2>1 DEF SendInv, Reaches
<1> QED
  BY <1>1, <1>2, <1>3, <1>5, <1>7, ReachChanged

\* Data for a trace: the pending Interests are pulled to the new hop.
LEMMA TraceKeepsReach ==
  ASSUME DoPull, Cardinality(Content) <= MaxPullCnt, Cardinality(Content) <= MaxPullSends,
         KiteInv, PullInv, now' = now, heldBack' = IF tib'.seq # tib.seq THEN {} ELSE heldBack,
         NEW f \in Face, NEW n \in Name, OnTraceData(f, n)
  PROVE  PullInv'
<1>1. /\ now \in Nat /\ pit \in [Name -> Entry]
      /\ sent' = sent /\ n \in TraceName
      /\ pit' = [pit EXCEPT ![n] = Satisfied(pit[n], f)]
  BY DEF KiteInv, CallsInv, PitInv, OnTraceData
<1>2. \A m \in ContentName : m \in Name /\ m # n /\ pit'[m] = pit[m]
  <2>1. \A m \in ContentName : m \in Name /\ m # n
    BY <1>1, ConstantFacts DEF ContentName, TraceName
  <2> QED
    BY <1>1, <2>1
<1>3. ASSUME NEW m \in ContentName
      PROVE  m \in heldBack' \/ Reaches(m, pit[m], tib'.hop, sent[m], pulls', now)
  <2>1. /\ SendInv(pit[m], sent[m], now)
        /\ m \in heldBack \/ Reaches(m, pit[m], tib.hop, sent[m], pulls, now)
        /\ EntryInv(pit[m], m, now) /\ pit[m] \in Entry
    BY <1>2 DEF PullInv, KiteInv, PitInv
  <2>2. CASE tib' = tib /\ pulls' = pulls
    BY <2>1, <2>2
  <2>3. CASE Askers(n) # {} /\ IsNewer(n[2])
    <3> DEFINE hop == TraceFace(n, f)
    <3>1. PICK p \in PullOrders(hop) : pulls' = pulls \cup PullCalls(p, hop)
      BY <2>3 DEF OnTraceData
    <3>2. tib'.hop = hop
      BY <2>3 DEF OnTraceData, UpdateTib
    <3>3. hop \in Face
      <4>1. /\ pit[n] \in Entry
            /\ Askers(n) \in SUBSET (1..Len(pit[n].in)) /\ Askers(n) \in SUBSET Nat
        BY <1>1 DEF Askers
      <4>2. Min(Askers(n)) \in 1..Len(pit[n].in)
        BY <2>3, <4>1, LeastOf
      <4>3. pit[n].in[Min(Askers(n))] \in InRecord
        BY <4>1, <4>2, RecordsOfFaces
      <4> QED
        BY <4>3 DEF TraceFace, InRecord
    <3> HIDE DEF hop
    <3> SUFFICES ASSUME hop \notin InFaces(pit[m]), pit[m].straggler = NoTime,
                        NEW r \in ToSet(pit[m].in), r.expiry > now
                 PROVE  \/ hop \in sent[m]
                        \/ \E c \in pulls' : c.name = m /\ c.face = hop
      BY <3>2 DEF Reaches
    <3>4. CASE \E o \in pit[m].out : o.face = hop
      BY <2>1, <3>4 DEF SendInv
    <3>5. CASE ~\E o \in pit[m].out : o.face = hop
      <4>1. pit[m].in # << >>
        BY DEF ToSet
      <4>2. m \in Pullable(hop)
        BY <3>5, <4>1 DEF Pullable
      <4>3. pit[m].live
        BY <2>1, <4>1 DEF EntryInv, TimersInv, NoEntry
      <4>4. pit[m].unsatisfy # NoTime
        BY <2>1, <4>3 DEF EntryInv, TimersInv
      <4>5. PICK i \in 1..Len(pit[m].in) : pit[m].in[i].expiry = pit[m].unsatisfy
        BY <2>1, <4>1, <4>4 DEF SendInv
      <4>6. LastExpiry(pit[m]) = pit[m].unsatisfy
        BY <2>1, <4>4, <4>5, LastIsUnsatisfy
      <4>7. pit[m].unsatisfy > now
        <5>a. ToSet(pit[m].in) = {pit[m].in[k] : k \in 1..Len(pit[m].in)}
          BY <2>1, RecordsOfFaces
        <5>1. PICK k \in 1..Len(pit[m].in) : r = pit[m].in[k]
          BY <5>a
        <5>2. r.expiry \in Nat
          BY <2>1, <5>1, RecordIsIn
        <5>3. r.expiry <= pit[m].unsatisfy /\ pit[m].unsatisfy \in Nat
          BY <2>1, <4>4, <5>1 DEF EntryInv, TimersInv, Entry, Moment
        <5> QED
          BY <1>1, <5>2, <5>3
      <4>8. \E c \in PullCalls(p, hop) : c.name = m /\ c.face = hop
        BY <1>1, <3>1, <3>3, <4>2, <4>6, <4>7, EveryPullableIsPulled
      <4> QED
        BY <3>1, <4>8
    <3> QED
      BY <3>4, <3>5
  <2> QED
    BY <2>2, <2>3 DEF OnTraceData, UpdateTib
<1>4. \A m \in ContentName : SendInv(pit[m], sent[m], now)
  BY DEF PullInv
<1> QED
  BY <1>1, <1>2, <1>3, <1>4 DEF PullInv

\* setIncomingNack: every record is as it was, but for the Nack of the record of f.
LEMMA NackedRecords ==
  ASSUME NEW e \in Entry, NEW f, NEW x, NEW d, d = WithNack(e, f, x), NEW o \in d.out
  PROVE  \/ o.face = f /\ o.nack = x /\ \E q \in e.out : q.face = f
         \/ o.face # f /\ o \in e.out
<1> DEFINE Nacked(q) == IF q.face = f THEN [q EXCEPT !.nack = x] ELSE q
<1>1. e.out \subseteq OutRecord
  BY DEF Entry
<1>2. d.out = {Nacked(q) : q \in e.out}
  BY DEF WithNack, Entry
<1>3. PICK q \in e.out : o = Nacked(q)
  BY <1>2
<1>4. q \in OutRecord
  BY <1>1
<1>5. CASE q.face = f
  <2>1. o = [q EXCEPT !.nack = x]
    BY <1>3, <1>5
  <2>2. o.face = f /\ o.nack = x
    BY <1>4, <1>5, <2>1 DEF OutRecord
  <2> QED
    BY <1>5, <2>2
<1>6. CASE q.face # f
  BY <1>3, <1>6
<1> QED
  BY <1>5, <1>6

\* A Nack: it leaves the in-records, or takes the hop with them.
LEMMA NackKeepsReach ==
  ASSUME KiteInv, PullInv, now' = now, NEW f \in Face, NEW n \in Name, NEW x \in Nonce,
         NEW reason, ReceiveNack(f, n, x, reason)
  PROVE  PullInv'
<1>1. /\ now \in Nat /\ pit[n] \in Entry /\ EntryInv(pit[n], n, now)
      /\ sent \in [Name -> SUBSET Face] /\ sent[n] \in SUBSET Face
      /\ pulls' = pulls /\ sent' = sent /\ heldBack' = heldBack
  BY DEF KiteInv, CallsInv, PitInv, PullInv, ReceiveNack, OnIncomingNack
<1>2. pit[n].live = TRUE
  <2>1. pit[n].out # {}
    BY DEF ReceiveNack, OnIncomingNack
  <2>2. pit[n].live \in BOOLEAN /\ (~pit[n].live => pit[n] = NoEntry)
    BY <1>1 DEF EntryInv, Entry, TimersInv
  <2> QED
    BY <2>1, <2>2 DEF NoEntry
<1> DEFINE removes == RemoveTraceOnNack /\ reason = "NoRoute"
           d == WithNack(pit[n], f, x)
           g == [d EXCEPT !.in = << >>]
<1>3. /\ pit' = [pit EXCEPT ![n] = IF removes /\ tib.hop = f THEN g ELSE d]
      /\ IF removes THEN RemoveNextHop(f) ELSE UNCHANGED <<tib, hopTimers>>
  BY DEF ReceiveNack, OnIncomingNack
<1>4. EntryInv(d, n, now) /\ d.live = TRUE /\ d.in = pit[n].in
  <2>1. EntryInv(d, n, now) /\ d.live = TRUE
    BY <1>1, <1>2, EntryNacked
  <2>2. d.in = pit[n].in
    BY <1>1 DEF WithNack, Entry
  <2> QED
    BY <2>1, <2>2
<1>5. d.unsatisfy = pit[n].unsatisfy /\ d.straggler = pit[n].straggler
  BY <1>1 DEF WithNack, Entry
<1>6. \A o \in d.out : \/ o.face = f /\ o.nack = x /\ \E q \in pit[n].out : q.face = f
                       \/ o.face # f /\ o \in pit[n].out
  BY <1>1, NackedRecords
<1>7. n \in ContentName =>
         /\ SendInv(pit[n], sent[n], now)
         /\ n \in heldBack \/ Reaches(n, pit[n], tib.hop, sent[n], pulls, now)
  BY DEF PullInv
<1>8. sent' = [sent EXCEPT ![n] = sent[n]]
  BY <1>1
<1>9. x # NoNonce
  BY KiteForwarderAssumption
<1> HIDE DEF d, removes
<1>10. \A o \in d.out : Pends(o, now) => o.face # f /\ o \in pit[n].out
  BY <1>6, <1>9 DEF Pends
<1>11. ASSUME n \in ContentName PROVE SendInv(d, sent[n], now)
  <2>1. \A o \in d.out : o.face \in sent[n]
    BY <1>6, <1>7, <1>11 DEF SendInv
  <2>2. NonePends(pit[n].out, now) => NonePends(d.out, now)
    BY <1>10 DEF NonePends
  <2> QED
    BY <1>4, <1>5, <1>7, <1>11, <2>1, <2>2 DEF SendInv
<1>12. CASE removes /\ tib.hop = f
  <2>1. d \in Entry
    BY <1>4 DEF EntryInv
  <2>2. g.in = << >> /\ g.out = d.out
    BY <2>1 DEF Entry
  <2>3. pit' = [pit EXCEPT ![n] = g] /\ tib' = NoTib
    BY <1>3, <1>12 DEF RemoveNextHop
  <2> HIDE DEF g
  <2>4. tib'.hop = NoFace
    BY <2>3 DEF NoTib
  <2>5. n \in ContentName => SendInv(g, sent[n], now)
    BY <1>11, <2>2 DEF SendInv
  <2>6. Reaches(n, g, tib'.hop, sent[n], pulls, now)
    BY <2>4 DEF Reaches
  <2> QED
    BY <1>1, <1>8, <2>3, <2>4, <2>5, <2>6, ReachChanged
<1>13. CASE ~(removes /\ tib.hop = f)
  <2>1. pit' = [pit EXCEPT ![n] = d] /\ tib' = tib
    BY <1>3, <1>13 DEF RemoveNextHop
  <2>2. n \in ContentName =>
           n \in heldBack \/ Reaches(n, d, tib.hop, sent[n], pulls, now)
    BY <1>4, <1>5, <1>7 DEF Reaches, InFaces
  <2> QED
    BY <1>1, <1>8, <1>11, <2>1, <2>2, ReachChanged
<1> QED
  BY <1>12, <1>13

\* The calls: an entry that ends waits for nobody, a hop that ends is none, and a pull that
\* was under way has sent its Interest.
LEMMA CallKeepsReach ==
  ASSUME KiteInv, PullInv, RunCall
  PROVE  PullInv'
<1>1. /\ now \in Nat /\ now' = now /\ heldBack' = heldBack
      /\ pit \in [Name -> Entry] /\ sent \in [Name -> SUBSET Face]
      /\ ContentName \subseteq Name
  BY ConstantFacts DEF KiteInv, CallsInv, PitInv, PullInv, RunCall
<1>2. ASSUME NEW n \in Name, OnInterestUnsatisfied(n) \/ OnStraggler(n)
      PROVE  PullInv'
  <2>1. /\ pit' = [pit EXCEPT ![n] = NoEntry] /\ sent' = [sent EXCEPT ![n] = {}]
        /\ UNCHANGED <<tib, pulls>>
    BY <1>2 DEF OnInterestUnsatisfied, OnStraggler, Finalize
  <2>2. NoEntry.in = << >> /\ NoEntry.out = {} /\ ToSet(NoEntry.in) = {}
    BY DEF NoEntry, ToSet
  <2>3. SendInv(NoEntry, {}, now) /\ Reaches(n, NoEntry, tib.hop, {}, pulls, now)
    BY <2>2 DEF SendInv, Reaches
  <2>4. {} \in SUBSET Face
    OBVIOUS
  <2> QED
    BY <1>1, <2>1, <2>3, <2>4, ReachChanged
<1>3. ASSUME NEW t \in hopTimers, OnTibEntryNextHopTimeout(t)
      PROVE  PullInv'
  <2>1. tib.hop = t.face
    BY DEF KiteInv, TibInv, HopTimerIsOwned
  <2>2. tib' = NoTib /\ UNCHANGED <<pit, pulls, sent>>
    BY <1>3, <2>1 DEF OnTibEntryNextHopTimeout
  <2>3. tib'.hop = NoFace
    BY <2>2 DEF NoTib
  <2> QED
    BY <1>1, <2>2, <2>3 DEF PullInv, Reaches
<1>4. ASSUME NEW p \in pulls, SendPulled(p)
      PROVE  PullInv'
  <2>1. pulls' = pulls \ {p} /\ UNCHANGED <<pit, tib>>
    BY <1>4 DEF SendPulled
  <2>2. p \in [at : Nat, name : ContentName, face : Face]
    BY DEF KiteInv, CallsInv
  <2>3. p.name \in ContentName /\ p.name \in Name /\ p.face \in Face
    BY <1>1, <2>2
  <2>4. /\ sent' \in [Name -> SUBSET Face]
        /\ \A m \in Name : sent[m] \subseteq sent'[m]
        /\ pit[p.name].live => p.face \in sent'[p.name]
    <3>1. CASE pit[p.name].live
      <4>1. sent' = [sent EXCEPT ![p.name] = sent[p.name] \cup {p.face}]
        BY <1>4, <3>1 DEF SendPulled
      <4> QED
        BY <1>1, <2>3, <4>1
    <3>2. CASE ~pit[p.name].live
      <4>1. sent' = sent
        BY <1>4, <3>2 DEF SendPulled
      <4> QED
        BY <1>1, <3>2, <4>1
    <3> QED
      BY <3>1, <3>2
  <2>5. ASSUME NEW m \in ContentName
        PROVE  SendInv(pit[m], sent'[m], now)
    <3>1. m \in Name /\ SendInv(pit[m], sent[m], now)
      BY <1>1 DEF PullInv
    <3> QED
      BY <2>4, <3>1 DEF SendInv
  <2>6. ASSUME NEW m \in ContentName
        PROVE  m \in heldBack \/ Reaches(m, pit[m], tib.hop, sent'[m], pulls', now)
    <3> SUFFICES ASSUME m \notin heldBack, tib.hop # NoFace, tib.hop \notin InFaces(pit[m]),
                        pit[m].straggler = NoTime,
                        NEW r \in ToSet(pit[m].in), r.expiry > now
                 PROVE  \/ tib.hop \in sent'[m]
                        \/ \E c \in pulls' : c.name = m /\ c.face = tib.hop
      BY DEF Reaches
    <3>1. m \in Name /\ Reaches(m, pit[m], tib.hop, sent[m], pulls, now)
      BY <1>1 DEF PullInv
    <3>2. tib.hop \in sent[m] \/ \E c \in pulls : c.name = m /\ c.face = tib.hop
      BY <3>1 DEF Reaches
    <3>3. pit[m].live
      <4>1. pit[m].in # << >>
        BY DEF ToSet
      <4>2. EntryInv(pit[m], m, now)
        BY <3>1 DEF KiteInv, PitInv
      <4> QED
        BY <4>1, <4>2 DEF EntryInv, TimersInv, NoEntry
    <3>4. CASE tib.hop \in sent[m]
      BY <2>4, <3>1, <3>4
    <3>5. CASE \E c \in pulls : c.name = m /\ c.face = tib.hop
      BY <2>1, <2>4, <3>3, <3>5
    <3> QED
      BY <3>2, <3>4, <3>5
  <2> QED
    BY <1>1, <2>1, <2>4, <2>5, <2>6 DEF PullInv
<1>5. ASSUME NEW n \in Name, CsEvict(n)
      PROVE  PullInv'
  <2>1. UNCHANGED <<pit, tib, pulls, sent>>
    BY <1>5 DEF CsEvict
  <2> QED
    BY <1>1, <2>1 DEF PullInv
<1> QED
  BY <1>2, <1>3, <1>4, <1>5 DEF RunCall

\* The clock: what expires no longer waits, on either side.
LEMMA TickKeepsReach ==
  ASSUME KiteInv, PullInv, RouterTick
  PROVE  PullInv'
<1>1. /\ now \in Nat /\ now' = now + 1
      /\ UNCHANGED <<pit, tib, pulls, sent, heldBack>>
  BY DEF KiteInv, CallsInv, RouterTick, Advance, routerVars
<1>2. ASSUME NEW n \in ContentName
      PROVE  /\ SendInv(pit[n], sent[n], now + 1)
             /\ n \in heldBack \/ Reaches(n, pit[n], tib.hop, sent[n], pulls, now + 1)
  <2>1. /\ SendInv(pit[n], sent[n], now)
        /\ n \in heldBack \/ Reaches(n, pit[n], tib.hop, sent[n], pulls, now)
        /\ pit[n] \in Entry
    BY ConstantFacts DEF PullInv, KiteInv, PitInv
  <2>2. \A o \in pit[n].out : o.expiry \in Nat
    BY <2>1 DEF Entry, OutRecord
  <2>3. \A o \in pit[n].out : Pends(o, now + 1) => Pends(o, now)
    BY <1>1, <2>2 DEF Pends
  <2>4. ToSet(pit[n].in) = {pit[n].in[k] : k \in 1..Len(pit[n].in)}
        /\ \A k \in 1..Len(pit[n].in) : pit[n].in[k] \in InRecord
    BY <2>1, RecordsOfFaces
  <2>5. \A r \in ToSet(pit[n].in) : r.expiry \in Nat
    BY <2>4 DEF InRecord
  <2>6. \A r \in ToSet(pit[n].in) : r.expiry > now + 1 => r.expiry > now
    BY <1>1, <2>5
  <2>7. SendInv(pit[n], sent[n], now + 1)
    BY <2>1, <2>3 DEF SendInv, NonePends
  <2>8. n \in heldBack \/ Reaches(n, pit[n], tib.hop, sent[n], pulls, now + 1)
    BY <2>1, <2>6 DEF Reaches
  <2> QED
    BY <2>7, <2>8
<1> QED
  BY <1>1, <1>2 DEF PullInv

\* No Interest was sent yet.
LEMMA ReachesInitially == RouterInit => PullInv
<1> SUFFICES ASSUME RouterInit PROVE PullInv
  OBVIOUS
<1>1. sent = [n \in Name |-> {}] /\ pit = [n \in Name |-> NoEntry] /\ tib = NoTib
  BY DEF RouterInit, KiteInit
<1>2. tib.hop = NoFace
  BY <1>1 DEF NoTib
<1>3. NoEntry.in = << >> /\ NoEntry.out = {}
  BY DEF NoEntry
<1>4. \A n \in ContentName : pit[n] = NoEntry
  BY <1>1, ConstantFacts
<1> QED
  BY <1>1, <1>2, <1>3, <1>4 DEF PullInv, SendInv, Reaches

\* Every step of the router and its network.
LEMMA ReachStep ==
  ASSUME DoPull, Cardinality(Content) <= MaxPullCnt, Cardinality(Content) <= MaxPullSends,
         KiteInv, PullInv, [RouterNext]_kiteVars
  PROVE  PullInv'
<1>1. CASE Receive
  <2>1. now' = now /\ ~TimerAtNow
    BY <1>1 DEF Receive
  <2>2. ASSUME NEW f \in Face, NEW n \in Name, NEW x \in Nonce, ReceiveInterest(f, n, x)
        PROVE  PullInv'
    BY <2>1, <2>2, InterestKeepsReach
  <2>3. ASSUME NEW f \in Face, NEW n \in Name, ReceiveData(f, n)
        PROVE  PullInv'
    <3>1. heldBack' = IF tib'.seq # tib.seq THEN {} ELSE heldBack
      BY <2>3 DEF ReceiveData
    <3>2. CASE OnDataUnsolicited(f, n)
      <4>1. UNCHANGED <<pit, tib, pulls, sent>>
        BY <3>2 DEF OnDataUnsolicited, routerVars
      <4> QED
        BY <2>1, <3>1, <4>1 DEF PullInv
    <3>3. CASE OnContentData(f, n)
      <4>1. tib'.seq = tib.seq
        BY <3>3 DEF OnContentData, KiteInv, TibInv
      <4> QED
        BY <2>1, <3>1, <3>3, <4>1, ContentKeepsReach
    <3>4. CASE OnTraceData(f, n)
      BY <2>1, <3>1, <3>4, TraceKeepsReach
    <3> QED
      BY <2>3, <3>2, <3>3, <3>4 DEF ReceiveData
  <2>4. ASSUME NEW f \in Face, NEW n \in Name, NEW x \in Nonce, NEW reason,
               ReceiveNack(f, n, x, reason)
        PROVE  PullInv'
    BY <2>1, <2>4, NackKeepsReach
  <2> QED
    BY <1>1, <2>2, <2>3, <2>4 DEF Receive
<1>2. CASE RunCall
  BY <1>2, CallKeepsReach
<1>3. CASE RouterTick
  BY <1>3, TickKeepsReach
<1>4. CASE UNCHANGED kiteVars
  <2>1. UNCHANGED <<now, pit, tib, pulls, sent, heldBack>>
    BY <1>4 DEF kiteVars, routerVars
  <2> QED
    BY <2>1 DEF PullInv
<1> QED
  BY <1>1, <1>2, <1>3, <1>4 DEF RouterNext

\* While one trace may pull every pending Interest, each of them has been sent to the present
\* next hop, or updateTib's pull of it is under way, whatever Interests, Data and Nacks came in
\* whatever order, unless it is held back by an Interest whose askers are gone.
THEOREM PendingInterestsReachHop ==
  ASSUME DoPull, Cardinality(Content) <= MaxPullCnt, Cardinality(Content) <= MaxPullSends
  PROVE  RouterSpec => []PendingReachesHop
<1>1. RouterInit => PullInv
  BY ReachesInitially
<1>2. KiteInv /\ PullInv /\ [RouterNext]_kiteVars => PullInv'
  BY ReachStep
<1>3. PullInv => PendingReachesHop
  BY DEF PullInv, Reaches, PendingReachesHop
<1> QED
  BY <1>1, <1>2, <1>3, RouterInvariant, PTL DEF RouterSpec
================================================================================
