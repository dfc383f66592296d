---------------------------- MODULE RemoteProofs ----------------------------
(***************************************************************************)
(* Theorems about the remote client: its message channel (RemoteChannel)   *)
(* and, at the end, its connection (RemoteState).                          *)
(*                                                                         *)
(* What an end of the channel has on its way to the other is one path: the *)
(* server's queue behind what the connection carries.  The threads of the  *)
(* server add to its path what they have to do.  First the types, then how *)
(* often a message is dispatched.                                          *)
(***************************************************************************)
EXTENDS RemoteChannel, RemoteState, SequenceTheorems, FiniteSetTheorems, WellFoundedInduction, TLAPS

\* The envelopes on their way from e, in the order in which they arrive.
Path(e) == IF e = Server THEN wire[Server] \o outgoing ELSE wire[Client]

\* An envelope that the receiver counts and acknowledges as message i.
Counted(m, i) == m.id = i /\ m.kind \notin {"flush", "started"}
Copies(s, i) == Cardinality({k \in DOMAIN s : Counted(s[k], i)})
Has(s, i) == \E k \in DOMAIN s : Counted(s[k], i)

Types ==
    /\ nextId \in [End -> 0..(MaxId + 1)]
    /\ maxReceived \in [End -> Ids]
    /\ buffer \in [End -> Seq(Envelope)]
    /\ wire \in [End -> Seq(Envelope)]
    /\ outgoing \in Seq(Envelope)
    /\ hand \in [Thread -> Holding \cup {Idle}]
    /\ todo \in [Thread -> Seq(Envelope)]
    /\ waiting \in [End -> SUBSET Ids]
    /\ starting \in [End -> BOOLEAN]
    /\ ready \in BOOLEAN /\ linkUp \in BOOLEAN
    /\ resync \in Ids \cup {None}
    /\ handling \in [End -> SUBSET (Ids \X Nat)]
    /\ sent \in [End -> SUBSET [id : Ids, re : Ids \cup {None}, outage : Nat]]
    /\ overtaken \in SUBSET Ids
    /\ received \in [End -> [Ids -> Nat]]
    /\ disconnects \in Nat

-----------------------------------------------------------------------------
(* Sequences of envelopes and the copies of a message in them.             *)

LEMMA Ends ==
    /\ End = {"client", "server"} /\ Client \in End /\ Server \in End /\ Client # Server
    /\ \A e \in End : Peer(e) \in End /\ Peer(e) # e /\ Peer(Peer(e)) = e
    /\ Peer(Client) = Server /\ Peer(Server) = Client
  BY DEF End, Client, Server, Peer

LEMMA NoneIsNoId == None \notin Ids /\ Ids \subseteq Nat /\ \A i \in Ids : None < i
  BY BoundsAssumption DEF None, Ids

LEMMA Indices ==
    ASSUME NEW s \in Seq(Envelope)
    PROVE  /\ Len(s) \in Nat /\ DOMAIN s = 1..Len(s)
           /\ \A k \in DOMAIN s : s[k] \in Envelope
  BY LenProperties

LEMMA Joined ==
    ASSUME NEW s \in Seq(Envelope), NEW t \in Seq(Envelope)
    PROVE  /\ s \o t \in Seq(Envelope)
           /\ DOMAIN (s \o t) = 1..(Len(s) + Len(t))
           /\ \A k \in DOMAIN s : k \in DOMAIN (s \o t) /\ (s \o t)[k] = s[k]
           /\ \A k \in DOMAIN t : Len(s) + k \in DOMAIN (s \o t) /\ (s \o t)[Len(s) + k] = t[k]
           /\ \A k \in DOMAIN (s \o t) : k \in DOMAIN s \/ \E l \in DOMAIN t : k = Len(s) + l
  <1>1. /\ s \o t \in Seq(Envelope) /\ Len(s \o t) = Len(s) + Len(t)
        /\ \A k \in 1..Len(s) + Len(t) :
              (s \o t)[k] = IF k <= Len(s) THEN s[k] ELSE t[k - Len(s)]
    BY ConcatProperties
  <1>2. /\ Len(s) \in Nat /\ Len(t) \in Nat
        /\ DOMAIN s = 1..Len(s) /\ DOMAIN t = 1..Len(t)
        /\ DOMAIN (s \o t) = 1..(Len(s) + Len(t))
    BY <1>1, LenProperties
  <1>3. ASSUME NEW k \in DOMAIN t
        PROVE  Len(s) + k \in DOMAIN (s \o t) /\ (s \o t)[Len(s) + k] = t[k]
    <2>1. Len(s) + k \in 1..(Len(s) + Len(t)) /\ ~(Len(s) + k <= Len(s)) /\ (Len(s) + k) - Len(s) = k
      BY <1>2
    <2>. QED
      BY <1>1, <1>2, <2>1
  <1>4. ASSUME NEW k \in DOMAIN (s \o t), k \notin DOMAIN s
        PROVE  \E l \in DOMAIN t : k = Len(s) + l
    <2>1. k - Len(s) \in DOMAIN t /\ k = Len(s) + (k - Len(s))
      BY <1>2, <1>4
    <2>. QED
      BY <2>1
  <1>. QED
    BY <1>1, <1>2, <1>3, <1>4

LEMMA JoinedElement ==
    ASSUME NEW s \in Seq(Envelope), NEW t \in Seq(Envelope), NEW k \in DOMAIN (s \o t)
    PROVE  \/ k \in DOMAIN s /\ (s \o t)[k] = s[k]
           \/ k \notin DOMAIN s /\ \E l \in DOMAIN t : k = Len(s) + l /\ (s \o t)[k] = t[l]
  <1>1. CASE k \in DOMAIN s
    BY <1>1, Joined
  <1>2. CASE k \notin DOMAIN s
    <2>1. PICK l \in DOMAIN t : k = Len(s) + l
      BY <1>2, Joined
    <2>2. (s \o t)[Len(s) + l] = t[l]
      BY Joined
    <2>. QED
      BY <1>2, <2>1, <2>2
  <1>. QED
    BY <1>1, <1>2

LEMMA Pieces ==
    ASSUME NEW s \in Seq(Envelope)
    PROVE  /\ \A m \in Envelope : <<m>> \in Seq(Envelope) /\ Append(s, m) = s \o <<m>>
           /\ <<>> \in Seq(Envelope) /\ s \o <<>> = s
           /\ s # <<>> => /\ Head(s) \in Envelope /\ Tail(s) \in Seq(Envelope)
                          /\ s = <<Head(s)>> \o Tail(s) /\ 1 \in DOMAIN s /\ Head(s) = s[1]
  <1>1. ASSUME NEW m \in Envelope
        PROVE  <<m>> \in Seq(Envelope) /\ Append(s, m) = s \o <<m>>
    OBVIOUS
  <1>2. <<>> \in Seq(Envelope) /\ s \o <<>> = s
    BY ConcatEmptySeq, EmptySeq
  <1>3. ASSUME s # <<>>
        PROVE  /\ Head(s) \in Envelope /\ Tail(s) \in Seq(Envelope)
               /\ s = <<Head(s)>> \o Tail(s) /\ 1 \in DOMAIN s /\ Head(s) = s[1]
    <2>1. /\ Head(s) \in Envelope /\ Tail(s) \in Seq(Envelope) /\ Len(Tail(s)) = Len(s) - 1
          /\ \A i \in 1..Len(Tail(s)) : Tail(s)[i] = s[i + 1]
      BY <1>3, HeadTailProperties
    <2>2. Len(s) \in Nat \ {0} /\ DOMAIN s = 1..Len(s) /\ Head(s) = s[1]
      BY <1>3, EmptySeq, LenProperties
    <2>3. /\ <<Head(s)>> \in Seq(Envelope) /\ Len(<<Head(s)>>) = 1 /\ <<Head(s)>>[1] = Head(s)
      BY <2>1
    <2>. DEFINE t == <<Head(s)>> \o Tail(s)
    <2>4. /\ t \in Seq(Envelope) /\ Len(t) = Len(s)
          /\ \A i \in 1..Len(s) : t[i] = IF i <= 1 THEN <<Head(s)>>[i] ELSE Tail(s)[i - 1]
      BY <2>1, <2>2, <2>3, ConcatProperties
    <2>5. ASSUME NEW i \in 1..Len(s) PROVE s[i] = t[i]
      <3>1. CASE i = 1
        BY <2>2, <2>3, <2>4, <3>1
      <3>2. CASE i # 1
        BY <2>1, <2>2, <2>4, <3>2
      <3>. QED
        BY <3>1, <3>2
    <2>. HIDE DEF t
    <2>6. s = t
      BY <2>4, <2>5, SeqEqual
    <2>. QED
      BY <2>1, <2>2, <2>6 DEF t
  <1>. QED
    BY <1>1, <1>2, <1>3

LEMMA PrefixedByOne ==
    ASSUME NEW m \in Envelope, NEW s \in Seq(Envelope)
    PROVE  <<m>> \o s # <<>> /\ Head(<<m>> \o s) = m /\ Tail(<<m>> \o s) = s
  <1>. DEFINE t == <<m>> \o s
  <1>1. /\ <<m>> \in Seq(Envelope) /\ Len(<<m>>) = 1 /\ <<m>>[1] = m /\ Len(s) \in Nat
    BY LenProperties
  <1>2. /\ t \in Seq(Envelope) /\ Len(t) = 1 + Len(s)
        /\ \A i \in 1..(1 + Len(s)) : t[i] = IF i <= 1 THEN <<m>>[i] ELSE s[i - 1]
    BY <1>1, ConcatProperties
  <1>. HIDE DEF t
  <1>3. t # <<>> /\ Head(t) = m
    BY <1>1, <1>2, EmptySeq
  <1>4. /\ Tail(t) \in Seq(Envelope) /\ Len(Tail(t)) = Len(s)
        /\ \A i \in 1..Len(s) : Tail(t)[i] = t[i + 1]
    BY <1>1, <1>2, <1>3, HeadTailProperties
  <1>5. \A i \in 1..Len(s) : Tail(t)[i] = s[i]
    BY <1>1, <1>2, <1>4
  <1>6. Tail(t) = s
    BY <1>4, <1>5, SeqEqual
  <1>. QED
    BY <1>3, <1>6 DEF t

LEMMA Regrouped == \A s, t, u \in Seq(Envelope) : s \o (t \o u) = (s \o t) \o u
  <1>1. ASSUME NEW s \in Seq(Envelope), NEW t \in Seq(Envelope), NEW u \in Seq(Envelope)
        PROVE  s \o (t \o u) = (s \o t) \o u
    BY ConcatAssociative, SMTT(30)
  <1>. QED
    BY <1>1

LEMMA CopiesType ==
    ASSUME NEW s \in Seq(Envelope), NEW i
    PROVE  /\ Copies(s, i) \in Nat
           /\ IsFiniteSet({k \in DOMAIN s : Counted(s[k], i)})
           /\ Copies(s, i) = 0 <=> ~Has(s, i)
  <1>1. DOMAIN s = 1..Len(s) /\ Len(s) \in Nat
    BY Indices
  <1>2. IsFiniteSet(DOMAIN s)
    BY <1>1, FS_Interval
  <1>3. IsFiniteSet({k \in DOMAIN s : Counted(s[k], i)})
    BY <1>2, FS_Subset
  <1>. QED
    BY <1>3, FS_CardinalityType, FS_EmptySet DEF Copies, Has

LEMMA HasJoined ==
    ASSUME NEW s \in Seq(Envelope), NEW t \in Seq(Envelope), NEW i
    PROVE  Has(s \o t, i) <=> Has(s, i) \/ Has(t, i)
  <1>1. ASSUME NEW k \in DOMAIN (s \o t), Counted((s \o t)[k], i) PROVE Has(s, i) \/ Has(t, i)
    BY <1>1, Joined DEF Has
  <1>2. ASSUME NEW k \in DOMAIN s, Counted(s[k], i) PROVE Has(s \o t, i)
    <2>1. k \in DOMAIN (s \o t) /\ (s \o t)[k] = s[k]
      BY Joined
    <2>. QED
      BY <1>2, <2>1 DEF Has
  <1>3. ASSUME NEW k \in DOMAIN t, Counted(t[k], i) PROVE Has(s \o t, i)
    <2>1. Len(s) + k \in DOMAIN (s \o t) /\ (s \o t)[Len(s) + k] = t[k]
      BY Joined
    <2>. QED
      BY <1>3, <2>1 DEF Has
  <1>. QED
    BY <1>1, <1>2, <1>3 DEF Has

LEMMA CopiesJoined ==
    ASSUME NEW s \in Seq(Envelope), NEW t \in Seq(Envelope), NEW i
    PROVE  Copies(s \o t, i) = Copies(s, i) + Copies(t, i)
  <1>. DEFINE A == {k \in DOMAIN s : Counted(s[k], i)}
              B == {k \in DOMAIN t : Counted(t[k], i)}
              C == {k \in DOMAIN (s \o t) : Counted((s \o t)[k], i)}
              f == [k \in B |-> Len(s) + k]
              D == {f[k] : k \in B}
  <1>0. Len(s) \in Nat /\ DOMAIN s = 1..Len(s) /\ Len(t) \in Nat /\ DOMAIN t = 1..Len(t)
    BY Indices
  <1>1. IsFiniteSet(A) /\ IsFiniteSet(B)
    BY CopiesType
  <1>2. C = A \cup D
    <2>1. \A k \in A : k \in C
      BY Joined
    <2>2. \A k \in B : Len(s) + k \in C
      BY Joined
    <2>3. ASSUME NEW k \in C, k \notin A PROVE k \in D
      <3>1. k \notin DOMAIN s
        BY <2>3, Joined
      <3>2. PICK l \in DOMAIN t : k = Len(s) + l
        BY <2>3, <3>1, Joined
      <3>3. l \in B
        BY <2>3, <3>2, Joined
      <3>. QED
        BY <3>2, <3>3
    <2>. QED
      BY <2>1, <2>2, <2>3
  <1>3. A \cap D = {}
    BY <1>0
  <1>4. f \in Bijection(B, D)
    <2>1. f \in [B -> D] /\ \A d \in D : \E k \in B : f[k] = d
      OBVIOUS
    <2>2. \A k, l \in B : f[k] = f[l] => k = l
      BY <1>0
    <2>. HIDE DEF f, B, D
    <2>. QED
      BY <2>1, <2>2 DEF Bijection, Injection, Surjection, IsInjective
  <1>5. IsFiniteSet(D) /\ Cardinality(D) = Cardinality(B)
    <2>. HIDE DEF f, D, B
    <2>1. ExistsBijection(B, D)
      BY <1>4 DEF ExistsBijection
    <2>. QED
      BY <1>1, <2>1, FS_Bijection
  <1>6. Cardinality(C) = Cardinality(A) + Cardinality(B)
    <2>. HIDE DEF A, B, C, D
    <2>1. Cardinality(A \cup D) = Cardinality(A) + Cardinality(D) - Cardinality(A \cap D)
      BY <1>1, <1>5, FS_Union
    <2>2. Cardinality({}) = 0 /\ Cardinality(A) \in Nat /\ Cardinality(B) \in Nat
      BY <1>1, FS_EmptySet, FS_CardinalityType
    <2>3. Cardinality(A \cap D) = 0
      BY <1>3, <2>2
    <2>4. Cardinality(A \cup D) = Cardinality(A) + Cardinality(B) - 0
      BY <1>5, <2>1, <2>3
    <2>. QED
      BY <1>2, <2>2, <2>4
  <1>. QED
    BY <1>6 DEF Copies

LEMMA CopiesOfOne ==
    ASSUME NEW m \in Envelope, NEW i
    PROVE  /\ Copies(<<m>>, i) = IF Counted(m, i) THEN 1 ELSE 0
           /\ Copies(<<>>, i) = 0
  <1>1. DOMAIN <<m>> = {1} /\ <<m>>[1] = m
    OBVIOUS
  <1>2. Counted(m, i) => {k \in DOMAIN <<m>> : Counted(<<m>>[k], i)} = {1}
    BY <1>1
  <1>3. ~Counted(m, i) => {k \in DOMAIN <<m>> : Counted(<<m>>[k], i)} = {}
    BY <1>1
  <1>4. Copies(<<>>, i) = 0
    BY FS_EmptySet DEF Copies
  <1>. QED
    BY <1>2, <1>3, <1>4, FS_EmptySet, FS_Singleton DEF Copies

\* What a step does to the copies on a path or in a buffer.
LEMMA CopiesMove ==
    ASSUME NEW s \in Seq(Envelope), NEW i
    PROVE  /\ \A m \in Envelope :
                 Copies(Append(s, m), i) = Copies(s, i) + IF Counted(m, i) THEN 1 ELSE 0
           /\ s # <<>> => Copies(s, i) = (IF Counted(Head(s), i) THEN 1 ELSE 0) + Copies(Tail(s), i)
  <1>1. ASSUME NEW m \in Envelope
        PROVE  Copies(Append(s, m), i) = Copies(s, i) + IF Counted(m, i) THEN 1 ELSE 0
    <2>1. <<m>> \in Seq(Envelope) /\ Append(s, m) = s \o <<m>>
      BY Pieces
    <2>2. Copies(s \o <<m>>, i) = Copies(s, i) + Copies(<<m>>, i)
      BY <2>1, CopiesJoined
    <2>. QED
      BY <2>1, <2>2, CopiesOfOne
  <1>2. ASSUME s # <<>>
        PROVE  Copies(s, i) = (IF Counted(Head(s), i) THEN 1 ELSE 0) + Copies(Tail(s), i)
    <2>1. /\ Head(s) \in Envelope /\ Tail(s) \in Seq(Envelope) /\ <<Head(s)>> \in Seq(Envelope)
          /\ s = <<Head(s)>> \o Tail(s)
      BY <1>2, Pieces
    <2>2. Copies(<<Head(s)>> \o Tail(s), i) = Copies(<<Head(s)>>, i) + Copies(Tail(s), i)
      BY <2>1, CopiesJoined
    <2>. QED
      BY <2>1, <2>2, CopiesOfOne
  <1>. QED
    BY <1>1, <1>2

\* The least index of a non-empty set of naturals.
LEMMA LeastOf == ASSUME NEW I \in SUBSET Nat, I # {} PROVE Min(I) \in I /\ \A k \in I : Min(I) <= k
  <1>. DEFINE R == {ss \in Nat \X Nat : ss[1] < ss[2]}
  <1>1. IsWellFoundedOn(R, Nat)
    BY NatLessThanWellFounded DEF OpToRel
  <1>2. PICK x \in I : \A y \in I : ~(<<y, x>> \in R)
    <2>. HIDE DEF R
    <2>. QED
      BY <1>1, WFMin
  <1>3. ASSUME NEW y \in I PROVE x <= y
    <2>1. x \in Nat /\ y \in Nat
      OBVIOUS
    <2>2. ~(y < x)
      BY <1>2, <2>1
    <2>. QED
      BY <2>1, <2>2
  <1>. QED
    BY <1>3 DEF Min

\* An acknowledgement takes a prefix off the buffer, in which no id is larger
\* than the acknowledged one.
LEMMA Acknowledging ==
    ASSUME NEW b \in Seq(Envelope), NEW ack \in Ids \cup {None}
    PROVE  LET u == Unacknowledged(b, ack) IN
           /\ u \in Seq(Envelope)
           /\ \E p \in Seq(Envelope) : /\ b = p \o u
                                       /\ \A k \in DOMAIN p : p[k].id <= ack
  <1>. DEFINE I == {k \in 1..Len(b) : b[k].id > ack}
              u == Unacknowledged(b, ack)
  <1>0. /\ Len(b) \in Nat /\ DOMAIN b = 1..Len(b) /\ \A k \in DOMAIN b : b[k] \in Envelope
        /\ \A k \in DOMAIN b : b[k].id \in Nat
        /\ ack \in Int
    <2>1. /\ Len(b) \in Nat /\ DOMAIN b = 1..Len(b) /\ \A k \in DOMAIN b : b[k] \in Envelope
      BY Indices
    <2>2. \A m \in Envelope : m.id \in Nat
      BY NoneIsNoId DEF Envelope
    <2>3. ack \in Int
      BY NoneIsNoId DEF None
    <2>. QED
      BY <2>1, <2>2, <2>3
  <1>1. CASE I = {}
    <2>1. u = <<>>
      BY <1>1 DEF Unacknowledged, SelectInSeq
    <2>2. b = b \o <<>> /\ <<>> \in Seq(Envelope)
      BY Pieces
    <2>3. \A k \in DOMAIN b : b[k].id <= ack
      BY <1>0, <1>1
    <2>. HIDE DEF u
    <2>. QED
      BY <2>1, <2>2, <2>3 DEF u
  <1>2. CASE I # {}
    <2>. DEFINE n == Min(I)
                p == SubSeq(b, 1, n - 1)
    <2>1. n \in I /\ \A k \in I : n <= k
      <3>1. I \in SUBSET Nat
        BY <1>0
      <3>. HIDE DEF I
      <3>. QED
        BY <1>2, <3>1, LeastOf
    <2>2. n \in 1..Len(b) /\ n # 0
      BY <2>1
    <2>3. u = SubSeq(b, n, Len(b))
      BY <1>2, <2>2 DEF Unacknowledged, SelectInSeq
    <2>. HIDE DEF n
    <2>4. /\ u \in Seq(Envelope) /\ Len(u) = Len(b) - n + 1
          /\ \A k \in 1..(Len(b) - n + 1) : u[k] = b[n + k - 1]
      BY <1>0, <2>2, <2>3, SubSeqProperties
    <2>5. /\ p \in Seq(Envelope) /\ Len(p) = n - 1
          /\ \A k \in 1..(n - 1) : p[k] = b[k]
      <3>1. /\ p \in Seq(Envelope)
            /\ Len(p) = IF 1 <= n - 1 THEN (n - 1) - 1 + 1 ELSE 0
            /\ \A k \in 1..((n - 1) - 1 + 1) : p[k] = b[1 + k - 1]
        BY <1>0, <2>2, SubSeqProperties
      <3>. HIDE DEF p
      <3>2. /\ (n - 1) - 1 + 1 = n - 1 /\ (\A k \in 1..(n - 1) : 1 + k - 1 = k)
            /\ (IF 1 <= n - 1 THEN (n - 1) - 1 + 1 ELSE 0) = n - 1
        BY <1>0, <2>2
      <3>3. Len(p) = n - 1
        BY <3>1, <3>2
      <3>4. \A k \in 1..(n - 1) : p[k] = b[k]
        BY <3>1, <3>2
      <3>. QED
        BY <3>1, <3>3, <3>4
    <2>. HIDE DEF u, p
    <2>6. b = p \o u
      <3>1. /\ p \o u \in Seq(Envelope) /\ Len(p \o u) = Len(p) + Len(u)
            /\ \A k \in 1..(Len(p) + Len(u)) :
                  (p \o u)[k] = IF k <= Len(p) THEN p[k] ELSE u[k - Len(p)]
        BY <2>4, <2>5, ConcatProperties
      <3>2. Len(p \o u) = Len(b)
        BY <1>0, <2>2, <2>4, <2>5, <3>1
      <3>3. ASSUME NEW k \in 1..Len(b) PROVE b[k] = (p \o u)[k]
        <4>1. CASE k <= n - 1
          BY <1>0, <2>2, <2>4, <2>5, <3>1, <4>1
        <4>2. CASE k > n - 1
          <5>1. k - (n - 1) \in 1..(Len(b) - n + 1) /\ n + (k - (n - 1)) - 1 = k
            BY <1>0, <2>2, <4>2
          <5>2. (p \o u)[k] = u[k - (n - 1)]
            BY <1>0, <2>2, <2>4, <2>5, <3>1, <4>2, SMTT(30)
          <5>. QED
            BY <2>4, <5>1, <5>2
        <4>3. k <= n - 1 \/ k > n - 1
          BY <1>0, <2>2
        <4>. QED
          BY <4>1, <4>2, <4>3
      <3>. QED
        BY <3>1, <3>2, <3>3, SeqEqual
    <2>7. ASSUME NEW k \in DOMAIN p PROVE p[k].id <= ack
      <3>1. k \in 1..(n - 1) /\ p[k] = b[k] /\ k \in 1..Len(b) /\ k < n
        BY <1>0, <2>2, <2>5, LenProperties
      <3>2. k \notin I
        BY <2>1, <3>1
      <3>. QED
        BY <1>0, <3>1, <3>2
    <2>. QED
      BY <2>4, <2>5, <2>6, <2>7 DEF u
  <1>. QED
    BY <1>1, <1>2

LEMMA CopiesKept ==
    ASSUME NEW b \in Seq(Envelope), NEW ack \in Ids \cup {None}, NEW i
    PROVE  Copies(Unacknowledged(b, ack), i) <= Copies(b, i)
  <1>. DEFINE u == Unacknowledged(b, ack)
  <1>1. u \in Seq(Envelope) /\ \E p \in Seq(Envelope) : b = p \o u
    BY Acknowledging
  <1>. HIDE DEF u
  <1>2. PICK p \in Seq(Envelope) : b = p \o u
    BY <1>1
  <1>3. /\ Copies(p \o u, i) = Copies(p, i) + Copies(u, i)
        /\ Copies(p, i) \in Nat /\ Copies(u, i) \in Nat
    BY <1>1, CopiesJoined, CopiesType
  <1>4. Copies(u, i) <= Copies(b, i)
    BY <1>2, <1>3
  <1>. QED
    BY <1>4 DEF u

-----------------------------------------------------------------------------
(* What the steps do to the paths, and the types they keep.                *)

\* Without a connection nothing is on it, and no resync waits for an answer.
DownEmpty ==
    ~linkUp => resync = None /\ disconnects > 0 /\ \A e \in End : wire[e] = <<>>

LEMMA Hands ==
    /\ Thread = {"foreground", "background"} /\ Foreground \in Thread /\ Background \in Thread
    /\ Foreground # Background /\ Idle.at = "idle" /\ Idle \notin Holding
    /\ \A h \in Holding : /\ h.at \in {"stamp", "buffer", "lock", "flush"} /\ h # Idle
                          /\ h.env \in Envelope /\ h.at # "idle"
  <1>1. \A h \in Holding : h.at \in {"stamp", "buffer", "lock", "flush"} /\ h.env \in Envelope
    BY DEF Holding
  <1>2. Idle.at = "idle"
    BY DEF Idle
  <1>. QED
    BY <1>1, <1>2 DEF Thread, Foreground, Background

Kinds == {"message", "request", "response", "flush", "ack", "started"}

LEMMA EnvType ==
    ASSUME NEW kind \in Kinds, NEW id \in Ids, NEW ack \in Ids \cup {None},
           NEW re \in Ids \cup {None}
    PROVE  /\ Env(kind, id, ack, re) \in Envelope
           /\ <<Env(kind, id, ack, re)>> \in Seq(Envelope)
           /\ Env(kind, id, ack, re).kind = kind /\ Env(kind, id, ack, re).id = id
           /\ Env(kind, id, ack, re).ack = ack /\ Env(kind, id, ack, re).re = re
  <1>1. Env(kind, id, ack, re) \in Envelope
    BY DEF Env, Envelope, Kinds
  <1>. QED
    BY <1>1 DEF Env

LEMMA EnvelopeParts ==
    ASSUME NEW m \in Envelope
    PROVE  m.kind \in Kinds /\ m.id \in Ids /\ m.ack \in Ids \cup {None} /\ m.re \in Ids \cup {None}
  BY DEF Envelope, Kinds

LEMMA ZeroIsId == 0 \in Ids /\ \A n \in 0..(MaxId + 1) : n \in Ids => n + 1 \in 0..(MaxId + 1)
  BY BoundsAssumption DEF Ids

\* Fields of a hand
LEMMA HandTypes ==
    ASSUME Types, NEW t \in Thread
    PROVE  /\ hand[t] = Idle \/ (hand[t] \in Holding /\ hand[t].env \in Envelope)
           /\ hand[t].at = "idle" <=> hand[t] = Idle
           /\ hand[t].at \in {"idle", "stamp", "buffer", "lock", "flush"}
           /\ todo[t] \in Seq(Envelope)
  <1>1. hand[t] \in Holding \cup {Idle} /\ todo[t] \in Seq(Envelope)
    BY DEF Types
  <1>. QED
    BY <1>1, Hands

\* What the client writes
LEMMA WrittenType ==
    ASSUME NEW ms \in Seq(Envelope), NEW w \in [End -> Seq(Envelope)],
           linkUp \/ \A e \in End : w[e] = <<>>
    PROVE  /\ Written(ms, w) \in [End -> Seq(Envelope)]
           /\ Written(ms, w)[Server] = w[Server]
           /\ linkUp => Written(ms, w)[Client] = w[Client] \o ms
           /\ ~linkUp => Written(ms, w) = w
  <1>1. w[Client] \o ms \in Seq(Envelope)
    BY Ends, Joined
  <1>. QED
    BY <1>1, Ends DEF Written

\* Reading takes the head of the peer's wire; the client writes at the end of its own.
LEMMA TakeEffect ==
    ASSUME Types, DownEmpty, NEW e \in End, NEW ms \in Seq(Envelope),
           wire[Peer(e)] # <<>>, Take(e, ms)
    PROVE  /\ wire' \in [End -> Seq(Envelope)] /\ outgoing' = outgoing
           /\ linkUp /\ linkUp' = linkUp
           /\ wire'[Peer(e)] = Tail(wire[Peer(e)])
           /\ wire'[e] = IF e = Client THEN wire[e] \o ms ELSE wire[e]
  <1>. DEFINE rest == [wire EXCEPT ![Peer(e)] = Tail(@)]
  <1>1. linkUp
    BY Ends DEF DownEmpty
  <1>2. wire[Peer(e)] \in Seq(Envelope) /\ Tail(wire[Peer(e)]) \in Seq(Envelope)
    BY Ends, Pieces DEF Types
  <1>3. /\ rest \in [End -> Seq(Envelope)] /\ rest[Peer(e)] = Tail(wire[Peer(e)])
        /\ rest[e] = wire[e]
    BY <1>2, Ends DEF Types
  <1>4. /\ wire' = IF e = Client THEN Written(ms, rest) ELSE rest
        /\ linkUp' = linkUp /\ outgoing' = outgoing
    BY DEF Take
  <1>. HIDE DEF rest
  <1>5. CASE e = Client
    <2>1. /\ wire' = Written(ms, rest) /\ Peer(e) = Server
      BY <1>4, <1>5, Ends
    <2>2. /\ wire' \in [End -> Seq(Envelope)] /\ wire'[Server] = rest[Server]
          /\ wire'[Client] = rest[Client] \o ms
      BY <1>1, <1>3, <2>1, WrittenType
    <2>. QED
      BY <1>1, <1>3, <1>4, <1>5, <2>1, <2>2
  <1>6. CASE e = Server
    BY <1>1, <1>3, <1>4, <1>6, Ends
  <1>. QED
    BY <1>5, <1>6, Ends

\* What reading an envelope gives the step to work with.
LEMMA ReadTypes ==
    ASSUME Types, NEW e \in End, NEW kinds, Reading(e, kinds)
    PROVE  /\ wire[Peer(e)] # <<>> /\ Incoming(e) \in Envelope
           /\ wire[Peer(e)] \in Seq(Envelope) /\ Incoming(e) = Head(wire[Peer(e)])
           /\ Incoming(e).id \in Ids /\ Incoming(e).ack \in Ids \cup {None}
           /\ Incoming(e).re \in Ids \cup {None} /\ Incoming(e).kind \in kinds
           /\ buffer[e] \in Seq(Envelope) /\ Kept(e) \in Seq(Envelope)
           /\ Kept(e) = Unacknowledged(buffer[e], Incoming(e).ack)
           /\ [buffer EXCEPT ![e] = Kept(e)] \in [End -> Seq(Envelope)]
           /\ (e = Server => hand[Foreground] = Idle /\ todo[Foreground] = <<>>)
  <1>1. wire[Peer(e)] # <<>> /\ wire[Peer(e)] \in Seq(Envelope) /\ Incoming(e).kind \in kinds
    BY Ends DEF Types, Reading
  <1>2. Incoming(e) \in Envelope
    BY <1>1, Pieces DEF Incoming
  <1>3. /\ Incoming(e).id \in Ids /\ Incoming(e).ack \in Ids \cup {None}
        /\ Incoming(e).re \in Ids \cup {None}
    BY <1>2, EnvelopeParts
  <1>4. buffer[e] \in Seq(Envelope)
    BY DEF Types
  <1>5. Kept(e) \in Seq(Envelope)
    BY <1>3, <1>4, Acknowledging DEF Kept
  <1>6. [buffer EXCEPT ![e] = Kept(e)] \in [End -> Seq(Envelope)]
    BY <1>5 DEF Types
  <1>. QED
    BY <1>1, <1>2, <1>3, <1>4, <1>5, <1>6 DEF Kept, Incoming, Reading, Free

LEMMA DrawTypes ==
    ASSUME Types, NEW e \in End, Draw(e)
    PROVE  /\ nextId' \in [End -> 0..(MaxId + 1)] /\ nextId[e] \in Ids
           /\ nextId'[e] = nextId[e] + 1 /\ \A d \in End \ {e} : nextId'[d] = nextId[d]
  BY ZeroIsId DEF Types, Draw

LEMMA PushTypes ==
    ASSUME Types, DownEmpty, NEW e \in End, NEW m \in Envelope, Push(e, m)
    PROVE  /\ buffer' \in [End -> Seq(Envelope)]
           /\ sent' \in [End -> SUBSET [id : Ids, re : Ids \cup {None}, outage : Nat]]
  <1>1. Append(buffer[e], m) \in Seq(Envelope)
    BY DEF Types
  <1>2. (IF e = Client /\ ~linkUp THEN disconnects - 1 ELSE disconnects) \in Nat
    BY DEF Types, DownEmpty
  <1>. DEFINE r == [id |-> m.id, re |-> m.re,
                    outage |-> IF e = Client /\ ~linkUp THEN disconnects - 1 ELSE disconnects]
  <1>3. r \in [id : Ids, re : Ids \cup {None}, outage : Nat]
    BY <1>2, EnvelopeParts
  <1>4. buffer' = [buffer EXCEPT ![e] = Append(@, m)] /\ sent' = [sent EXCEPT ![e] = @ \cup {r}]
    BY DEF Push
  <1>. HIDE DEF r
  <1>. QED
    BY <1>1, <1>3, <1>4 DEF Types

TypeStep == Types' /\ DownEmpty'

\* The foreground of an end sends: the client's message is buffered and on the
\* wire, the server's in the hand of its foreground.
ClientSends(m) ==
    /\ m \in Envelope /\ m.kind \in {"message", "request", "response"}
    /\ m.id = nextId[Client] /\ m.ack = maxReceived[Client]
    /\ Push(Client, m) /\ wire' = Written(<<m>>, wire) /\ hand' = hand
ServerSends(m) ==
    /\ m \in Envelope /\ m.kind \in {"message", "request", "response"}
    /\ m.id = nextId[Server] /\ m.ack = maxReceived[Server]
    /\ hand[Foreground] = Idle /\ todo[Foreground] = <<>>
    /\ hand' = [hand EXCEPT ![Foreground] = [at |-> "buffer", env |-> m]]
    /\ UNCHANGED <<buffer, sent, wire>>
Sends(e, m) ==
    /\ Draw(e)
    /\ (e = Client /\ ClientSends(m)) \/ (e = Server /\ ServerSends(m))
    /\ UNCHANGED <<todo, linkUp, outgoing, overtaken>>
    /\ UNCHANGED <<maxReceived, resync, disconnects, received, ready, starting>>

LEMMA BufferedSends ==
    ASSUME Types, NEW e \in End, Send(e) \/ Request(e) \/ Reply(e)
    PROVE  /\ \E m \in Envelope : Sends(e, m)
           /\ waiting' \in [End -> SUBSET Ids] /\ handling' \in [End -> SUBSET (Ids \X Nat)]
  <1>1. ASSUME NEW kind \in {"message", "request", "response"}, NEW re \in Ids \cup {None},
               Buffered(e, kind, re),
               UNCHANGED <<maxReceived, resync, disconnects, received, ready, starting>>
        PROVE  \E m \in Envelope : Sends(e, m)
    <2>1. Draw(e) /\ nextId[e] \in Ids /\ maxReceived[e] \in Ids
      BY <1>1 DEF Buffered, Draw, Types
    <2>2. PICK m \in Envelope : m = Env(kind, nextId[e], maxReceived[e], re)
      BY <1>1, <2>1, EnvType DEF Kinds
    <2>3. m.kind = kind /\ m.id = nextId[e] /\ m.ack = maxReceived[e]
      BY <2>2 DEF Env
    <2>4. (e = Client /\ ClientSends(m)) \/ (e = Server /\ ServerSends(m))
      BY <1>1, <2>2, <2>3 DEF Buffered, ClientSends, ServerSends, Free
    <2>. QED
      BY <1>1, <2>1, <2>4 DEF Buffered, Sends
  <1>2. CASE Send(e)
    <2>1. Buffered(e, "message", None)
      BY <1>2 DEF Send
    <2>2. UNCHANGED <<maxReceived, resync, disconnects, received, ready, starting, waiting, handling>>
      BY <1>2 DEF Send
    <2>. QED
      BY <1>1, <2>1, <2>2 DEF Types
  <1>3. CASE Request(e)
    <2>1. Buffered(e, "request", None)
      BY <1>3 DEF Request
    <2>2. /\ UNCHANGED <<maxReceived, resync, disconnects, received, ready, starting, handling>>
          /\ waiting' = [waiting EXCEPT ![e] = @ \cup {nextId[e]}]
      BY <1>3 DEF Request
    <2>3. nextId[e] \in Ids
      BY <2>1 DEF Buffered, Draw
    <2>4. waiting' \in [End -> SUBSET Ids]
      BY <2>2, <2>3 DEF Types
    <2>. QED
      BY <1>1, <2>1, <2>2, <2>4 DEF Types
  <1>4. CASE Reply(e)
    <2>1. PICK h \in handling[e] :
            /\ handling' = [handling EXCEPT ![e] = @ \ {h}]
            /\ Buffered(e, "response", h[1])
            /\ UNCHANGED <<maxReceived, waiting, starting, ready, resync, used, received>>
      BY <1>4 DEF Reply
    <2>2. h[1] \in Ids
      BY DEF Types
    <2>3. handling' \in [End -> SUBSET (Ids \X Nat)] /\ waiting' \in [End -> SUBSET Ids]
      BY <2>1 DEF Types
    <2>. QED
      BY <1>1, <2>1, <2>2, <2>3 DEF used
  <1>. QED
    BY <1>2, <1>3, <1>4

LEMMA SenderTypes ==
    ASSUME Types, DownEmpty, NEW e \in End, Send(e) \/ Request(e) \/ Reply(e)
    PROVE  TypeStep
  <1>1. PICK m \in Envelope : Sends(e, m)
    BY BufferedSends
  <1>2. waiting' \in [End -> SUBSET Ids] /\ handling' \in [End -> SUBSET (Ids \X Nat)]
    BY BufferedSends
  <1>3. nextId' \in [End -> 0..(MaxId + 1)]
    BY <1>1, DrawTypes DEF Sends
  <1>4. /\ UNCHANGED <<todo, linkUp, outgoing, overtaken>>
        /\ UNCHANGED <<maxReceived, resync, disconnects, received, ready, starting>>
    BY <1>1 DEF Sends
  <1>5. /\ buffer' \in [End -> Seq(Envelope)] /\ wire' \in [End -> Seq(Envelope)]
        /\ hand' \in [Thread -> Holding \cup {Idle}]
        /\ sent' \in [End -> SUBSET [id : Ids, re : Ids \cup {None}, outage : Nat]]
        /\ ~linkUp => wire' = wire
    <2>1. CASE e = Client
      <3>1. Push(Client, m) /\ wire' = Written(<<m>>, wire) /\ hand' = hand
        BY <1>1, <2>1, Ends DEF Sends, ClientSends
      <3>2. /\ wire \in [End -> Seq(Envelope)] /\ <<m>> \in Seq(Envelope)
            /\ linkUp \/ \A d \in End : wire[d] = <<>>
        BY DEF Types, DownEmpty
      <3>3. wire' \in [End -> Seq(Envelope)] /\ (~linkUp => wire' = wire)
        BY <3>1, <3>2, WrittenType
      <3>. QED
        BY <3>1, <3>3, PushTypes, Ends DEF Types
    <2>2. CASE e = Server
      <3>1. /\ hand' = [hand EXCEPT ![Foreground] = [at |-> "buffer", env |-> m]]
            /\ UNCHANGED <<buffer, sent, wire>>
        BY <1>1, <2>2, Ends DEF Sends, ServerSends
      <3>2. [at |-> "buffer", env |-> m] \in Holding
        BY DEF Holding
      <3>. QED
        BY <3>1, <3>2 DEF Types
    <2>. QED
      BY <2>1, <2>2, Ends
  <1>. QED
    BY <1>2, <1>3, <1>4, <1>5 DEF TypeStep, Types, DownEmpty

LEMMA ThreadTypes ==
    ASSUME Types, DownEmpty,
           DrawId \/ Stamp \/ Resend \/ AckFlush \/ \E t \in Thread : Buffer(t) \/ Queue(t)
    PROVE  TypeStep
  <1>1. CASE DrawId
    <2>1. Draw(Server)
      BY <1>1 DEF DrawId
    <2>2. nextId' \in [End -> 0..(MaxId + 1)] /\ nextId[Server] \in Ids
      BY <2>1, DrawTypes, Ends
    <2>3. [at |-> "stamp", env |-> Env("message", nextId[Server], None, None)] \in Holding
      BY <2>2, EnvType DEF Holding, Kinds
    <2>4. hand' \in [Thread -> Holding \cup {Idle}]
      BY <1>1, <2>3 DEF DrawId, Types
    <2>. QED
      BY <1>1, <2>2, <2>4 DEF DrawId, TypeStep, Types, DownEmpty, network, history
  <1>2. CASE Stamp
    <2>1. hand[Background].env \in Envelope /\ maxReceived[Server] \in Ids
      BY <1>2, HandTypes, Hands, Ends DEF Stamp, Types
    <2>2. [hand[Background].env EXCEPT !.ack = maxReceived[Server]] \in Envelope
      BY <2>1 DEF Envelope
    <2>3. PICK m \in Envelope : m = [hand[Background].env EXCEPT !.ack = maxReceived[Server]]
      BY <2>2
    <2>4. [at |-> "buffer", env |-> m] \in Holding
      BY DEF Holding
    <2>5. hand' = [hand EXCEPT ![Background] = [at |-> "buffer", env |-> m]]
      BY <1>2, <2>3, Hands DEF Stamp, Types
    <2>6. hand' \in [Thread -> Holding \cup {Idle}]
      BY <2>4, <2>5 DEF Types
    <2>. QED
      BY <1>2, <2>6 DEF Stamp, TypeStep, Types, DownEmpty, network, history, local, used
  <1>3. CASE Resend
    <2>1. hand[Foreground] \in Holding /\ hand[Foreground].env \in Envelope
      BY <1>3, HandTypes, Hands DEF Resend
    <2>2. [hand[Foreground] EXCEPT !.at = "flush"] \in Holding
      BY <2>1 DEF Holding
    <2>3. hand' \in [Thread -> Holding \cup {Idle}] /\ todo' \in [Thread -> Seq(Envelope)]
      BY <1>3, <2>2, Ends DEF Resend, Types
    <2>. QED
      BY <1>3, <2>3 DEF Resend, TypeStep, Types, DownEmpty, network, history, local, used
  <1>4. CASE AckFlush
    <2>1. Draw(Server) /\ hand[Foreground].env \in Envelope
      BY <1>4, HandTypes, Hands DEF AckFlush
    <2>2. nextId' \in [End -> 0..(MaxId + 1)] /\ nextId[Server] \in Ids
      BY <2>1, DrawTypes, Ends
    <2>3. [hand[Foreground].env EXCEPT !.id = nextId[Server]] \in Envelope
      BY <2>1, <2>2 DEF Envelope
    <2>5. PICK m \in Envelope : m = [hand[Foreground].env EXCEPT !.id = nextId[Server]]
      BY <2>3
    <2>6. <<m>> \in Seq(Envelope) /\ todo' = [todo EXCEPT ![Foreground] = <<m>>]
      BY <1>4, <2>5 DEF AckFlush
    <2>7. hand' = [hand EXCEPT ![Foreground] = Idle]
      BY <1>4 DEF AckFlush
    <2>4. hand' \in [Thread -> Holding \cup {Idle}] /\ todo' \in [Thread -> Seq(Envelope)]
      BY <2>6, <2>7 DEF Types
    <2>. QED
      BY <1>4, <2>2, <2>4 DEF AckFlush, TypeStep, Types, DownEmpty, network, history, used
  <1>5. CASE \E t \in Thread : Buffer(t)
    <2>1. PICK t \in Thread : Buffer(t)
      BY <1>5
    <2>2. hand[t].env \in Envelope
      BY <2>1, HandTypes, Hands DEF Buffer
    <2>3. PICK m \in Envelope : m = hand[t].env
      BY <2>2
    <2>4. Push(Server, m) /\ todo' = [todo EXCEPT ![t] = <<m>>] /\ hand' = [hand EXCEPT ![t] = Idle]
      BY <2>1, <2>3 DEF Buffer
    <2>5. hand' \in [Thread -> Holding \cup {Idle}] /\ todo' \in [Thread -> Seq(Envelope)]
      BY <2>4 DEF Types
    <2>6. /\ buffer' \in [End -> Seq(Envelope)]
          /\ sent' \in [End -> SUBSET [id : Ids, re : Ids \cup {None}, outage : Nat]]
      BY <2>4, PushTypes, Ends
    <2>. QED
      BY <2>1, <2>5, <2>6 DEF Buffer, TypeStep, Types, DownEmpty, network, used
  <1>6. CASE \E t \in Thread : Queue(t)
    <2>1. PICK t \in Thread : Queue(t)
      BY <1>6
    <2>2. todo[t] # <<>> /\ todo[t] \in Seq(Envelope) /\ outgoing \in Seq(Envelope)
      BY <2>1 DEF Queue, Types
    <2>3. Head(todo[t]) \in Envelope /\ Tail(todo[t]) \in Seq(Envelope)
      BY <2>2, Pieces
    <2>4. PICK m \in Envelope : m = Head(todo[t])
      BY <2>3
    <2>5. /\ outgoing' = Append(outgoing, m) /\ todo' = [todo EXCEPT ![t] = Tail(@)]
          /\ overtaken' = overtaken \/ overtaken' = overtaken \cup {m.id}
      BY <2>1, <2>4 DEF Queue
    <2>6. /\ outgoing' \in Seq(Envelope) /\ todo' \in [Thread -> Seq(Envelope)]
          /\ overtaken' \in SUBSET Ids
      <3>1. outgoing' \in Seq(Envelope)
        BY <2>2, <2>5
      <3>2. todo' \in [Thread -> Seq(Envelope)]
        BY <2>3, <2>5 DEF Types
      <3>3. m.id \in Ids
        BY EnvelopeParts
      <3>4. overtaken' \in SUBSET Ids
        BY <2>5, <3>3 DEF Types
      <3>. QED
        BY <3>1, <3>2, <3>4
    <2>. QED
      BY <2>1, <2>6 DEF Queue, TypeStep, Types, DownEmpty, local, used
  <1>. QED
    BY <1>1, <1>2, <1>3, <1>4, <1>5, <1>6

LEMMA HandlerTypes ==
    ASSUME Types, DownEmpty, NEW e \in End,
           (e = Server /\ HandleFlush) \/ HandleStarted(e) \/ HandleResponse(e) \/ HandleMessage(e)
    PROVE  TypeStep
  <1>1. CASE e = Server /\ HandleFlush
    <2>1. Reading(e, {"flush"}) /\ Take(e, <<>>)
      BY <1>1 DEF HandleFlush
    <2>2. wire' \in [End -> Seq(Envelope)] /\ outgoing' = outgoing /\ linkUp /\ linkUp' = linkUp
      BY <2>1, ReadTypes, TakeEffect, EmptySeq
    <2>3. Env("ack", 0, None, Incoming(e).id) \in Envelope
      BY <2>1, ReadTypes, EnvType, ZeroIsId DEF Kinds
    <2>4. [at |-> "lock", env |-> Env("ack", 0, None, Incoming(e).id)] \in Holding
      BY <2>3 DEF Holding
    <2>5. hand' \in [Thread -> Holding \cup {Idle}]
      BY <1>1, <2>4 DEF HandleFlush, Types
    <2>6. buffer' \in [End -> Seq(Envelope)]
      BY <1>1, <2>1, ReadTypes DEF HandleFlush
    <2>. QED
      BY <1>1, <2>2, <2>5, <2>6 DEF HandleFlush, TypeStep, Types, DownEmpty, history, used
  <1>2. CASE HandleStarted(e)
    <2>0. Reading(e, {"started"}) /\ Draw(e)
      BY <1>2 DEF HandleStarted
    <2>1. nextId' \in [End -> 0..(MaxId + 1)] /\ nextId[e] \in Ids
      BY <2>0, DrawTypes
    <2>2. PICK m \in Envelope : m = Env("ack", nextId[e], None, Incoming(e).id)
      BY <2>0, <2>1, ReadTypes, EnvType DEF Kinds
    <2>3. Take(e, <<m>>) /\ <<m>> \in Seq(Envelope)
          /\ todo' = IF e = Server THEN [todo EXCEPT ![Foreground] = <<m>>] ELSE todo
      BY <1>2, <2>2 DEF HandleStarted
    <2>4. wire' \in [End -> Seq(Envelope)] /\ outgoing' = outgoing /\ linkUp /\ linkUp' = linkUp
      BY <2>0, <2>3, ReadTypes, TakeEffect
    <2>5. todo' \in [Thread -> Seq(Envelope)] /\ ready' \in BOOLEAN
      BY <1>2, <2>3 DEF HandleStarted, Types
    <2>. QED
      BY <1>2, <2>1, <2>4, <2>5 DEF HandleStarted, TypeStep, Types, DownEmpty, history, used
  <1>3. CASE HandleResponse(e)
    <2>. DEFINE ms == IF e = Client /\ resync # None /\ Incoming(e).re = resync
                        THEN Kept(e) ELSE <<>>
    <2>1. Reading(e, {"response", "ack"}) /\ Take(e, ms) /\ Receipt(e)
      BY <1>3 DEF HandleResponse
    <2>2. ms \in Seq(Envelope)
      BY <2>1, ReadTypes, EmptySeq
    <2>. HIDE DEF ms
    <2>3. wire' \in [End -> Seq(Envelope)] /\ outgoing' = outgoing /\ linkUp /\ linkUp' = linkUp
      BY <2>1, <2>2, ReadTypes, TakeEffect
    <2>4. /\ maxReceived' \in [End -> Ids] /\ received' \in [End -> [Ids -> Nat]]
          /\ buffer' \in [End -> Seq(Envelope)] /\ waiting' \in [End -> SUBSET Ids]
          /\ resync' \in Ids \cup {None}
      BY <1>3, <2>1, ReadTypes, SMTT(30) DEF HandleResponse, Receipt, Types
    <2>. QED
      BY <1>3, <2>3, <2>4 DEF HandleResponse, TypeStep, Types, DownEmpty, used, threads, history
  <1>4. CASE HandleMessage(e)
    <2>1. Reading(e, {"message", "request"}) /\ Take(e, <<>>) /\ Receipt(e)
      BY <1>4 DEF HandleMessage
    <2>2. wire' \in [End -> Seq(Envelope)] /\ outgoing' = outgoing /\ linkUp /\ linkUp' = linkUp
      BY <2>1, ReadTypes, TakeEffect, EmptySeq
    <2>3. /\ maxReceived' \in [End -> Ids] /\ received' \in [End -> [Ids -> Nat]]
          /\ buffer' \in [End -> Seq(Envelope)] /\ handling' \in [End -> SUBSET (Ids \X Nat)]
      <3>1. Incoming(e).id \in Ids /\ buffer' = [buffer EXCEPT ![e] = Kept(e)]
        BY <1>4, <2>1, ReadTypes DEF HandleMessage
      <3>2. <<Incoming(e).id, received[e][Incoming(e).id]>> \in Ids \X Nat
        BY <3>1 DEF Types
      <3>3. handling' \in [End -> SUBSET (Ids \X Nat)]
        BY <1>4, <3>2 DEF HandleMessage, Types
      <3>4. maxReceived' \in [End -> Ids] /\ received' \in [End -> [Ids -> Nat]]
        BY <2>1, <3>1 DEF Receipt, Types
      <3>. QED
        BY <2>1, <3>1, <3>3, <3>4, ReadTypes
    <2>. QED
      BY <1>4, <2>2, <2>3 DEF HandleMessage, TypeStep, Types, DownEmpty, used, threads, history
  <1>. QED
    BY <1>1, <1>2, <1>3, <1>4

LEMMA LinkTypes ==
    ASSUME Types, DownEmpty,
           Transmit \/ Disconnect \/ Reconnect \/ (\E e \in End : StartHandling(e)) \/ UNCHANGED vars
    PROVE  TypeStep
  <1>1. CASE Transmit
    <2>1. /\ outgoing \in Seq(Envelope) /\ outgoing # <<>> /\ linkUp
          /\ wire' = [wire EXCEPT ![Server] = Append(@, Head(outgoing))]
          /\ outgoing' = Tail(outgoing)
      BY <1>1 DEF Transmit, Types
    <2>2. Head(outgoing) \in Envelope /\ Tail(outgoing) \in Seq(Envelope)
      BY <2>1, Pieces
    <2>3. PICK h \in Envelope : h = Head(outgoing)
      BY <2>2
    <2>4. Append(wire[Server], h) \in Seq(Envelope)
      BY Ends DEF Types
    <2>5. wire' \in [End -> Seq(Envelope)]
      BY <2>1, <2>3, <2>4, Ends DEF Types
    <2>. QED
      BY <1>1, <2>1, <2>2, <2>5 DEF Transmit, TypeStep, Types, DownEmpty, used, local, threads, history
  <1>2. CASE Disconnect
    <2>1. wire' \in [End -> Seq(Envelope)] /\ (\A d \in End : wire'[d] = <<>>)
      BY <1>2, EmptySeq DEF Disconnect
    <2>2. linkUp' \in BOOLEAN /\ disconnects' \in Nat /\ disconnects' > 0
      <3>1. linkUp' = FALSE
        BY <1>2 DEF Disconnect
      <3>2. disconnects' = disconnects + 1
        BY <1>2 DEF Disconnect
      <3>3. disconnects \in Nat
        BY DEF Types
      <3>4. disconnects' \in Nat /\ disconnects' > 0
        BY <3>2, <3>3
      <3>5. linkUp' \in BOOLEAN
        BY <3>1
      <3>. QED
        BY <3>4, <3>5
    <2>3. resync' = None
      BY <1>2 DEF Disconnect
    <2>4. UNCHANGED <<nextId, maxReceived, buffer, waiting, starting, ready, threads,
                      outgoing, handling, sent, overtaken, received>>
      BY <1>2 DEF Disconnect, history
    <2>5. Types'
      BY <2>1, <2>2, <2>3, <2>4 DEF Types, threads
    <2>. QED
      BY <1>2, <2>1, <2>2, <2>3, <2>4, <2>5 DEF Disconnect, TypeStep, DownEmpty, threads
  <1>3. CASE Reconnect
    <2>1. Draw(Client)
      BY <1>3 DEF Reconnect
    <2>2. nextId' \in [End -> 0..(MaxId + 1)] /\ nextId[Client] \in Ids
      BY <2>1, DrawTypes, Ends
    <2>3. PICK m \in Envelope : m = Env("flush", nextId[Client], maxReceived[Client], None)
      <3>1. maxReceived[Client] \in Ids /\ None \in Ids \cup {None} /\ "flush" \in Kinds
        BY Ends DEF Types, Kinds
      <3>2. Env("flush", nextId[Client], maxReceived[Client], None) \in Envelope
        BY <2>2, <3>1, EnvType
      <3>. QED
        BY <3>2
    <2>4. m.id \in Ids /\ <<m>> \in Seq(Envelope)
      BY EnvelopeParts
    <2>5. /\ linkUp' = TRUE /\ wire' = [wire EXCEPT ![Client] = <<m>>] /\ resync' = m.id
          /\ waiting' = [waiting EXCEPT ![Client] = @ \cup {m.id}]
          /\ starting' = [starting EXCEPT ![Client] = TRUE]
      BY <1>3, <2>3 DEF Reconnect
    <2>6. /\ wire' \in [End -> Seq(Envelope)]
          /\ waiting' \in [End -> SUBSET Ids] /\ starting' \in [End -> BOOLEAN]
      BY <2>4, <2>5 DEF Types
    <2>. QED
      BY <1>3, <2>2, <2>4, <2>5, <2>6 DEF Reconnect, TypeStep, Types, DownEmpty, used, threads, history
  <1>4. CASE \E e \in End : StartHandling(e)
    <2>1. PICK e \in End : StartHandling(e)
      BY <1>4
    <2>2. PICK m \in Envelope : m = Env("started", 0, None, None)
      BY EnvType, ZeroIsId DEF Kinds
    <2>3. /\ starting' \in [End -> BOOLEAN]
          /\ \/ e = Client /\ wire' = Written(<<m>>, wire) /\ UNCHANGED todo
             \/ todo' = [todo EXCEPT ![Foreground] = <<m>>] /\ UNCHANGED wire
      BY <2>1, <2>2 DEF StartHandling, Types
    <2>4. /\ wire \in [End -> Seq(Envelope)] /\ <<m>> \in Seq(Envelope)
          /\ linkUp \/ \A d \in End : wire[d] = <<>>
      BY DEF Types, DownEmpty
    <2>5. Written(<<m>>, wire) \in [End -> Seq(Envelope)] /\ (~linkUp => Written(<<m>>, wire) = wire)
      BY <2>4, WrittenType
    <2>6. /\ wire' \in [End -> Seq(Envelope)] /\ todo' \in [Thread -> Seq(Envelope)]
          /\ ~linkUp => wire' = wire
      <3>1. todo' \in [Thread -> Seq(Envelope)]
        BY <2>3, <2>4 DEF Types
      <3>. QED
        BY <2>3, <2>4, <2>5, <3>1
    <2>. QED
      BY <2>1, <2>3, <2>6 DEF StartHandling, TypeStep, Types, DownEmpty, used, history
  <1>5. CASE UNCHANGED vars
    BY <1>5 DEF vars, local, network, used, threads, history, TypeStep, Types, DownEmpty
  <1>. QED
    BY <1>1, <1>2, <1>3, <1>4, <1>5

LEMMA TypesStep == ASSUME Types, DownEmpty, [Next]_vars PROVE Types' /\ DownEmpty'
  BY SenderTypes, ThreadTypes, HandlerTypes, LinkTypes, Ends DEF Next, TypeStep

LEMMA TypesInit == Init => Types /\ DownEmpty
  <1>. SUFFICES ASSUME Init PROVE Types /\ DownEmpty
    OBVIOUS
  <1>1. /\ buffer \in [End -> Seq(Envelope)] /\ wire \in [End -> Seq(Envelope)]
        /\ outgoing \in Seq(Envelope) /\ todo \in [Thread -> Seq(Envelope)]
    BY EmptySeq DEF Init
  <1>2. nextId \in [End -> 0..(MaxId + 1)] /\ maxReceived \in [End -> Ids]
    BY BoundsAssumption, ZeroIsId DEF Init
  <1>3. received \in [End -> [Ids -> Nat]] /\ hand \in [Thread -> Holding \cup {Idle}]
    BY DEF Init
  <1>4. DownEmpty
    BY DEF Init, DownEmpty
  <1>. QED
    BY <1>1, <1>2, <1>3, <1>4 DEF Init, Types

-----------------------------------------------------------------------------
(* How often a message is dispatched.                                      *)

NoFlush(s) == \A k \in DOMAIN s : s[k].kind # "flush"
FlushAtHead(s) == \A k \in DOMAIN s : s[k].kind = "flush" => k = 1

\* Only the flush of the current connection is on it, in front; the envelopes
\* in a buffer are numbered messages.
FlushFirst ==
    /\ FlushAtHead(wire[Client])
    /\ \A e \in End : NoFlush(buffer[e])

\* A thread that holds a drawn id has nothing to queue; the two ids differ.
DrawnBy(t) == hand[t].at \in {"stamp", "buffer"}
HandsApart ==
    /\ \A t \in Thread : /\ DrawnBy(t) => /\ hand[t].env.id < nextId[Server]
                                          /\ hand[t].env.kind \notin {"flush", "started"}
                         /\ hand[t].at \in {"stamp", "buffer", "lock"} => todo[t] = <<>>
    /\ hand[Background].at \notin {"lock", "flush"}
    /\ DrawnBy(Foreground) /\ DrawnBy(Background) =>
         hand[Foreground].env.id # hand[Background].env.id

\* An id that no message of end e has been buffered or queued with.
Fresh(e, i) ==
    \/ i >= nextId[e]
    \/ e = Server /\ \E t \in Thread : DrawnBy(t) /\ hand[t].env.id = i

\* How often message i of end e has been dispatched or is on its way.
ToDo(i) == Copies(todo[Foreground], i) + Copies(todo[Background], i)
Count(e, i) ==
    received[Peer(e)][i] + Copies(Path(e), i) + IF e = Server THEN ToDo(i) ELSE 0

\* How often end e has yet to send its buffer again for the connections lost.
Flushing == ~NoFlush(wire[Client])
Pending(e) ==
    IF e = Client THEN IF ~linkUp \/ resync # None THEN 1 ELSE 0
    ELSE (IF ~linkUp \/ Flushing THEN 1 ELSE 0)
         + (IF hand[Foreground].at = "lock" THEN 1 ELSE 0)

Bounded(e) ==
    /\ Pending(e) <= disconnects
    /\ \A i \in Ids : /\ Fresh(e, i) => Count(e, i) = 0 /\ Copies(buffer[e], i) = 0
                      /\ Copies(buffer[e], i) <= 1
                      /\ Count(e, i) + Pending(e) <= 1 + disconnects

Redelivery == FlushFirst /\ HandsApart /\ \A e \in End : Bounded(e)

LEMMA Flushes ==
    ASSUME NEW s \in Seq(Envelope), NEW t \in Seq(Envelope)
    PROVE  /\ NoFlush(s \o t) <=> NoFlush(s) /\ NoFlush(t)
           /\ FlushAtHead(s) /\ NoFlush(t) => FlushAtHead(s \o t)
           /\ NoFlush(s) => FlushAtHead(s)
  <1>1. /\ \A k \in DOMAIN s : k \in DOMAIN (s \o t) /\ (s \o t)[k] = s[k]
        /\ \A k \in DOMAIN t : Len(s) + k \in DOMAIN (s \o t) /\ (s \o t)[Len(s) + k] = t[k]
        /\ \A k \in DOMAIN (s \o t) : k \in DOMAIN s \/ \E l \in DOMAIN t : k = Len(s) + l
    BY Joined
  <1>2. NoFlush(s \o t) => NoFlush(s) /\ NoFlush(t)
    BY <1>1 DEF NoFlush
  <1>3. ASSUME FlushAtHead(s), NoFlush(t), NEW k \in DOMAIN (s \o t), (s \o t)[k].kind = "flush"
        PROVE  k = 1 /\ ~NoFlush(s)
    <2>1. k \in DOMAIN s
      BY <1>1, <1>3 DEF NoFlush
    <2>. QED
      BY <1>1, <1>3, <2>1 DEF NoFlush, FlushAtHead
  <1>4. NoFlush(s) => FlushAtHead(s)
    BY DEF NoFlush, FlushAtHead
  <1>5. FlushAtHead(s) /\ NoFlush(t) => FlushAtHead(s \o t)
    BY <1>3 DEF FlushAtHead
  <1>6. NoFlush(s) /\ NoFlush(t) => NoFlush(s \o t)
    BY <1>3, <1>4 DEF NoFlush
  <1>. QED
    BY <1>2, <1>4, <1>5, <1>6

LEMMA FlushTaken ==
    ASSUME NEW s \in Seq(Envelope), s # <<>>, FlushAtHead(s)
    PROVE  NoFlush(Tail(s)) /\ (Head(s).kind # "flush" => NoFlush(s))
  <1>. DEFINE h == <<Head(s)>>
              t == Tail(s)
  <1>1. s = h \o t /\ h \in Seq(Envelope) /\ t \in Seq(Envelope) /\ Head(s) = s[1] /\ Len(h) = 1
    BY Pieces
  <1>. HIDE DEF h, t
  <1>2. ASSUME NEW k \in DOMAIN t PROVE t[k].kind # "flush"
    <2>0. Len(h) + k \in DOMAIN (h \o t) /\ (h \o t)[Len(h) + k] = t[k]
      BY <1>1, Joined, ZenonT(40)
    <2>1. 1 + k \in DOMAIN s /\ s[1 + k] = t[k]
      BY <1>1, <2>0
    <2>2. k \in Nat /\ k >= 1
      BY <1>1, Indices
    <2>3. 1 + k # 1
      BY <2>2
    <2>. QED
      BY <2>1, <2>3 DEF FlushAtHead
  <1>3. Head(s).kind # "flush" => NoFlush(s)
    BY <1>1 DEF FlushAtHead, NoFlush
  <1>. QED
    BY <1>2, <1>3 DEF NoFlush, t

LEMMA KeptNoFlush ==
    ASSUME NEW b \in Seq(Envelope), NEW ack \in Ids \cup {None}, NoFlush(b)
    PROVE  NoFlush(Unacknowledged(b, ack))
  <1>. DEFINE u == Unacknowledged(b, ack)
  <1>1. u \in Seq(Envelope) /\ \E p \in Seq(Envelope) : b = p \o u
    BY Acknowledging
  <1>. HIDE DEF u
  <1>2. NoFlush(u)
    BY <1>1, Flushes
  <1>. QED
    BY <1>2 DEF u

LEMMA PathType ==
    ASSUME Types
    PROVE  \A e \in End : Path(e) \in Seq(Envelope) /\ buffer[e] \in Seq(Envelope)
  <1>1. /\ wire[Server] \in Seq(Envelope) /\ wire[Client] \in Seq(Envelope) /\ outgoing \in Seq(Envelope)
        /\ \A e \in End : buffer[e] \in Seq(Envelope)
    BY Ends DEF Types
  <1>2. wire[Server] \o outgoing \in Seq(Envelope)
    BY <1>1, Joined
  <1>. QED
    BY <1>1, <1>2, Ends DEF Path

LEMMA CountType ==
    ASSUME Types
    PROVE  \A e \in End, i \in Ids :
             /\ Count(e, i) \in Nat /\ Copies(buffer[e], i) \in Nat /\ Copies(Path(e), i) \in Nat
             /\ received[Peer(e)][i] \in Nat /\ ToDo(i) \in Nat /\ Pending(e) \in Nat
             /\ \A t \in Thread : Copies(todo[t], i) \in Nat
  <1>. SUFFICES ASSUME NEW e \in End, NEW i \in Ids
                PROVE  /\ Count(e, i) \in Nat /\ Copies(buffer[e], i) \in Nat /\ Copies(Path(e), i) \in Nat
                       /\ received[Peer(e)][i] \in Nat /\ ToDo(i) \in Nat /\ Pending(e) \in Nat
                       /\ \A t \in Thread : Copies(todo[t], i) \in Nat
    OBVIOUS
  <1>1. received[Peer(e)][i] \in Nat
    BY Ends DEF Types
  <1>2. Copies(buffer[e], i) \in Nat /\ Copies(Path(e), i) \in Nat
    BY PathType, CopiesType
  <1>3. \A t \in Thread : Copies(todo[t], i) \in Nat
    BY HandTypes, CopiesType
  <1>4. ToDo(i) \in Nat
    BY <1>3, Hands DEF ToDo
  <1>5. Pending(e) \in Nat
    BY DEF Pending
  <1>. QED
    BY <1>1, <1>2, <1>3, <1>4, <1>5 DEF Count

LEMMA PathTypeAfter ==
    ASSUME Types'
    PROVE  \A e \in End : Path(e)' \in Seq(Envelope) /\ buffer'[e] \in Seq(Envelope)
  <1>1. /\ wire'[Server] \in Seq(Envelope) /\ wire'[Client] \in Seq(Envelope)
        /\ outgoing' \in Seq(Envelope) /\ \A e \in End : buffer'[e] \in Seq(Envelope)
    BY Ends DEF Types
  <1>2. wire'[Server] \o outgoing' \in Seq(Envelope)
    BY <1>1, Joined
  <1>. QED
    BY <1>1, <1>2, Ends DEF Path

LEMMA CountTypeAfter ==
    ASSUME Types'
    PROVE  \A e \in End, i \in Ids :
             Count(e, i)' \in Nat /\ Copies(buffer[e], i)' \in Nat /\ Pending(e)' \in Nat
  <1>. SUFFICES ASSUME NEW e \in End, NEW i \in Ids
                PROVE  Count(e, i)' \in Nat /\ Copies(buffer[e], i)' \in Nat /\ Pending(e)' \in Nat
    OBVIOUS
  <1>1. received'[Peer(e)][i] \in Nat
    BY Ends DEF Types
  <1>2. Copies(buffer'[e], i) \in Nat /\ Copies(Path(e)', i) \in Nat
    BY PathTypeAfter, CopiesType
  <1>3. \A t \in Thread : todo'[t] \in Seq(Envelope)
    BY DEF Types
  <1>4. Copies(todo'[Foreground], i) \in Nat /\ Copies(todo'[Background], i) \in Nat
    BY <1>3, CopiesType, Hands
  <1>5. Pending(e)' \in Nat
    BY DEF Pending
  <1>. QED
    BY <1>1, <1>2, <1>4, <1>5 DEF Count, ToDo

\* What a step may do to an end's messages: one new message gets its first copy,
\* or the buffer is sent again for a connection lost.
Effect(e, new, again) ==
    /\ \A i \in Ids :
         /\ Count(e, i)' <= Count(e, i) + (IF i \in new THEN 1 ELSE 0)
                                        + (IF again THEN Copies(buffer[e], i) ELSE 0)
         /\ Copies(buffer[e], i)' <= Copies(buffer[e], i) + (IF i \in new THEN 1 ELSE 0)
         /\ Fresh(e, i)' => Fresh(e, i) /\ i \notin new
    /\ \A i \in new : Fresh(e, i)
    /\ Pending(e)' + (IF again THEN 1 ELSE 0) + disconnects <= Pending(e) + disconnects'

LEMMA EffectKeeps ==
    ASSUME Types, Types', NEW e \in End, Bounded(e), NEW new \in SUBSET Ids, NEW again \in BOOLEAN,
           Effect(e, new, again)
    PROVE  Bounded(e)'
  <1>1. disconnects \in Nat /\ disconnects' \in Nat /\ 0 \in Ids
    BY ZeroIsId DEF Types
  <1>2. Pending(e) \in Nat
    BY <1>1, CountType
  <1>3. Pending(e)' \in Nat
    BY <1>1, CountTypeAfter
  <1>4. Pending(e)' <= disconnects'
    BY <1>1, <1>2, <1>3 DEF Effect, Bounded
  <1>5. ASSUME NEW i \in Ids
        PROVE  /\ Fresh(e, i)' => Count(e, i)' = 0 /\ Copies(buffer[e], i)' = 0
               /\ Copies(buffer[e], i)' <= 1
               /\ Count(e, i)' + Pending(e)' <= 1 + disconnects'
    <2>1. Count(e, i) \in Nat /\ Copies(buffer[e], i) \in Nat
      BY CountType
    <2>2. Count(e, i)' \in Nat /\ Copies(buffer[e], i)' \in Nat
      BY CountTypeAfter
    <2>3. /\ Count(e, i)' <= Count(e, i) + (IF i \in new THEN 1 ELSE 0)
                                        + (IF again THEN Copies(buffer[e], i) ELSE 0)
          /\ Copies(buffer[e], i)' <= Copies(buffer[e], i) + (IF i \in new THEN 1 ELSE 0)
          /\ Fresh(e, i)' => Fresh(e, i) /\ i \notin new
          /\ i \in new => Fresh(e, i)
          /\ Pending(e)' + (IF again THEN 1 ELSE 0) + disconnects <= Pending(e) + disconnects'
      BY DEF Effect
    <2>4. /\ Pending(e) <= disconnects /\ Copies(buffer[e], i) <= 1
          /\ Fresh(e, i) => Count(e, i) = 0 /\ Copies(buffer[e], i) = 0
          /\ Count(e, i) + Pending(e) <= 1 + disconnects
      BY DEF Bounded
    <2>. HIDE DEF Bounded, Effect
    <2>5. CASE i \in new
      BY <1>1, <1>2, <1>3, <2>1, <2>2, <2>3, <2>4, <2>5
    <2>6. CASE i \notin new
      BY <1>1, <1>2, <1>3, <2>1, <2>2, <2>3, <2>4, <2>6
    <2>. QED
      BY <2>5, <2>6
  <1>. QED
    BY <1>4, <1>5 DEF Bounded

-----------------------------------------------------------------------------
\* Ids once used are never fresh again.
SameHands ==
    \A t \in Thread : DrawnBy(t)' => DrawnBy(t) /\ hand'[t].env.id = hand[t].env.id

LEMMA IdCounters == ASSUME Types PROVE \A e \in End : nextId[e] \in Nat /\ nextId[e] \in Int
  <1>1. \A e \in End : nextId[e] \in 0..(MaxId + 1)
    BY DEF Types
  <1>2. 0..(MaxId + 1) \subseteq Nat
    BY BoundsAssumption
  <1>. QED
    BY <1>1, <1>2

LEMMA FreshStep ==
    ASSUME Types, \A e \in End : nextId'[e] = nextId[e] \/ nextId'[e] = nextId[e] + 1,
           \A t \in Thread : DrawnBy(t)' =>
               \/ DrawnBy(t) /\ hand'[t].env.id = hand[t].env.id
               \/ hand'[t].env.id = nextId[Server]
    PROVE  \A e \in End, i \in Ids : Fresh(e, i)' => Fresh(e, i)
  <1>. SUFFICES ASSUME NEW e \in End, NEW i \in Ids, Fresh(e, i)' PROVE Fresh(e, i)
    OBVIOUS
  <1>1. nextId[e] \in Nat /\ i \in Nat /\ nextId[Server] \in Nat
    BY NoneIsNoId, IdCounters, Ends
  <1>2. CASE i >= nextId'[e]
    <2>1. nextId'[e] = nextId[e] \/ nextId'[e] = nextId[e] + 1
      OBVIOUS
    <2>2. i >= nextId[e]
      BY <1>1, <1>2, <2>1
    <2>. QED
      BY <2>2 DEF Fresh
  <1>3. ASSUME e = Server, NEW t \in Thread, DrawnBy(t)', hand'[t].env.id = i PROVE Fresh(e, i)
    BY <1>1, <1>3 DEF Fresh
  <1>. QED
    BY <1>2, <1>3 DEF Fresh

LEMMA DrawIsFresh ==
    ASSUME Types, HandsApart, NEW e \in End, Draw(e), SameHands, NEW id, id = nextId[e]
    PROVE  /\ id \in Ids /\ Fresh(e, id) /\ ~Fresh(e, id)'
           /\ \A d \in End, i \in Ids : Fresh(d, i)' => Fresh(d, i)
  <1>1. /\ id \in Ids /\ id \in Nat /\ nextId'[e] = id + 1
        /\ \A d \in End : nextId'[d] = nextId[d] \/ nextId'[d] = nextId[d] + 1
    BY DrawTypes, NoneIsNoId
  <1>2. Fresh(e, id)
    BY <1>1 DEF Fresh
  <1>3. ~(id >= nextId'[e])
    BY <1>1
  <1>4. ASSUME e = Server, NEW t \in Thread, DrawnBy(t)', hand'[t].env.id = id PROVE FALSE
    <2>1. DrawnBy(t) /\ hand[t].env.id = id
      BY <1>4 DEF SameHands
    <2>2. hand[t].env.id < nextId[Server]
      BY <2>1 DEF HandsApart
    <2>. QED
      BY <1>1, <1>4, <2>1, <2>2
  <1>5. ~Fresh(e, id)'
    BY <1>3, <1>4 DEF Fresh
  <1>6. \A d \in End, i \in Ids : Fresh(d, i)' => Fresh(d, i)
    BY <1>1, FreshStep DEF SameHands
  <1>. QED
    BY <1>1, <1>2, <1>5, <1>6

LEMMA NothingDrawn ==
    ASSUME Types, HandsApart, nextId' = nextId, SameHands
    PROVE  \A e \in End, i \in Ids : Fresh(e, i)' => Fresh(e, i)
  BY FreshStep DEF SameHands

\* Copies after a path has changed by a few envelopes.
LEMMA Appended ==
    ASSUME NEW s \in Seq(Envelope), NEW m \in Envelope, NEW i
    PROVE  /\ Copies(s \o <<m>>, i) = Copies(s, i) + IF Counted(m, i) THEN 1 ELSE 0
           /\ s \o <<m>> \in Seq(Envelope)
           /\ m.kind # "flush" => (NoFlush(s \o <<m>>) <=> NoFlush(s))
           /\ m.kind # "flush" /\ FlushAtHead(s) => FlushAtHead(s \o <<m>>)
           /\ m.kind # "flush" /\ NoFlush(s) => NoFlush(s \o <<m>>)
  <1>1. <<m>> \in Seq(Envelope) /\ DOMAIN <<m>> = {1} /\ <<m>>[1] = m
    OBVIOUS
  <1>2. m.kind # "flush" => NoFlush(<<m>>)
    BY <1>1 DEF NoFlush
  <1>3. Copies(s \o <<m>>, i) = Copies(s, i) + Copies(<<m>>, i)
    BY <1>1, CopiesJoined
  <1>. QED
    BY <1>1, <1>2, <1>3, CopiesOfOne, Flushes, Joined

\* An end whose messages a step does not touch, and one that gets a new message.
LEMMA Untouched ==
    ASSUME Types, NEW e \in End, Path(e)' = Path(e), received'[Peer(e)] = received[Peer(e)],
           buffer'[e] = buffer[e], e = Server => todo' = todo,
           \A i \in Ids : Fresh(e, i)' => Fresh(e, i),
           Pending(e)' = Pending(e), disconnects' = disconnects
    PROVE  Effect(e, {}, FALSE)
  <1>1. ASSUME NEW i \in Ids
        PROVE  /\ Count(e, i)' <= Count(e, i) /\ Copies(buffer[e], i)' <= Copies(buffer[e], i)
    <2>1. Count(e, i) \in Nat /\ Copies(buffer[e], i) \in Nat
      BY CountType
    <2>2. Count(e, i)' = Count(e, i) /\ Copies(buffer[e], i)' = Copies(buffer[e], i)
      BY DEF Count, ToDo
    <2>. QED
      BY <2>1, <2>2
  <1>2. Pending(e) \in Nat /\ disconnects \in Nat
    BY CountType, ZeroIsId DEF Types
  <1>3. Pending(e)' + 0 + disconnects <= Pending(e) + disconnects'
    BY <1>2
  <1>. QED
    BY <1>1, <1>3, CountType DEF Effect

LEMMA Renewed ==
    ASSUME Types, NEW e \in End, NEW new \in SUBSET Ids, NEW again \in BOOLEAN,
           \A i \in new : Fresh(e, i) /\ ~Fresh(e, i)',
           \A i \in Ids : Fresh(e, i)' => Fresh(e, i),
           \A i \in Ids : /\ Count(e, i)' <= Count(e, i) + (IF i \in new THEN 1 ELSE 0)
                                        + (IF again THEN Copies(buffer[e], i) ELSE 0)
                          /\ Copies(buffer[e], i)' <= Copies(buffer[e], i) + (IF i \in new THEN 1 ELSE 0),
           Pending(e)' + (IF again THEN 1 ELSE 0) <= Pending(e), disconnects' = disconnects
    PROVE  Effect(e, new, again)
  <1>1. Pending(e) \in Nat /\ disconnects \in Nat
    BY CountType, ZeroIsId DEF Types
  <1>2. ASSUME Types' PROVE TRUE
    OBVIOUS
  <1>3. Pending(e)' \in Nat
    BY DEF Pending
  <1>4. Pending(e)' + (IF again THEN 1 ELSE 0) + disconnects <= Pending(e) + disconnects'
    BY <1>1, <1>3
  <1>. QED
    BY <1>4 DEF Effect

\* The client sends: the message gets its first copy on the wire.
LEMMA ClientSendCounts ==
    ASSUME Types, DownEmpty, Redelivery, Types', NEW m \in Envelope, Sends(Client, m)
    PROVE  Redelivery'
  <1>1. /\ Draw(Client) /\ ClientSends(m) /\ UNCHANGED <<todo, linkUp, outgoing, overtaken>>
        /\ UNCHANGED <<maxReceived, resync, disconnects, received, ready, starting>>
    BY Ends DEF Sends
  <1>2. /\ m.kind \notin {"flush", "started"} /\ m.id = nextId[Client] /\ Push(Client, m)
        /\ wire' = Written(<<m>>, wire) /\ hand' = hand /\ <<m>> \in Seq(Envelope)
    BY <1>1 DEF ClientSends
  <1>3. /\ wire'[Server] = wire[Server]
        /\ \/ linkUp /\ wire'[Client] = wire[Client] \o <<m>>
           \/ ~linkUp /\ wire'[Client] = wire[Client]
    <2>1. wire \in [End -> Seq(Envelope)] /\ (linkUp \/ \A e \in End : wire[e] = <<>>)
      BY DEF Types, DownEmpty
    <2>. QED
      BY <1>2, <2>1, WrittenType DEF Types
  <1>4. /\ buffer'[Client] = buffer[Client] \o <<m>> /\ buffer'[Server] = buffer[Server]
        /\ buffer[Client] \in Seq(Envelope) /\ wire[Client] \in Seq(Envelope)
    <2>0. buffer[Client] \in Seq(Envelope) /\ wire[Client] \in Seq(Envelope)
      BY Ends DEF Types
    <2>1. buffer' = [buffer EXCEPT ![Client] = Append(@, m)]
      BY <1>2 DEF Push
    <2>2. Append(buffer[Client], m) = buffer[Client] \o <<m>>
      BY <2>0, Pieces
    <2>. QED
      BY <2>0, <2>1, <2>2, Ends DEF Types
  <1>5. /\ m.id \in Ids /\ Fresh(Client, m.id) /\ ~Fresh(Client, m.id)'
        /\ \A d \in End, i \in Ids : Fresh(d, i)' => Fresh(d, i)
    <2>1. SameHands /\ HandsApart
      BY <1>2 DEF SameHands, Redelivery, DrawnBy
    <2>. QED
      BY <1>1, <1>2, <2>1, DrawIsFresh, Ends
  <1>6. /\ NoFlush(wire'[Client]) <=> NoFlush(wire[Client])
        /\ FlushAtHead(wire'[Client]) /\ NoFlush(buffer'[Client])
    <2>1. FlushAtHead(wire[Client]) /\ NoFlush(buffer[Client])
      BY Ends DEF Redelivery, FlushFirst
    <2>2. /\ NoFlush(buffer[Client] \o <<m>>) /\ FlushAtHead(wire[Client] \o <<m>>)
          /\ NoFlush(wire[Client] \o <<m>>) <=> NoFlush(wire[Client])
      BY <1>2, <1>4, <2>1, Appended
    <2>. QED
      BY <1>3, <1>4, <2>1, <2>2
  <1>7. FlushFirst'
    <2>1. NoFlush(buffer[Server])
      BY Ends DEF FlushFirst, Redelivery
    <2>2. \A e \in End : e = Client \/ e = Server
      BY Ends DEF Client, Server
    <2>. QED
      BY <1>4, <1>6, <2>1, <2>2 DEF FlushFirst
  <1>8. HandsApart'
    <2>1. nextId'[Server] = nextId[Server]
      BY <1>1, DrawTypes, Ends
    <2>2. HandsApart
      BY DEF Redelivery
    <2>. QED
      BY <1>1, <1>2, <2>1, <2>2 DEF HandsApart, DrawnBy
  <1>9. Effect(Client, {m.id}, FALSE)
    <2>1. ASSUME NEW i \in Ids
          PROVE  /\ Count(Client, i)' <= Count(Client, i) + (IF i \in {m.id} THEN 1 ELSE 0) + 0
                 /\ Copies(buffer[Client], i)' <= Copies(buffer[Client], i) + IF i \in {m.id} THEN 1 ELSE 0
      <3>1. Copies(wire[Client], i) \in Nat /\ Copies(buffer[Client], i) \in Nat
        BY <1>4, CopiesType
      <3>2. Copies(<<m>>, i) = IF i \in {m.id} THEN 1 ELSE 0
        BY <1>2, CopiesOfOne DEF Counted
      <3>3. Copies(buffer[Client] \o <<m>>, i) = Copies(buffer[Client], i) + Copies(<<m>>, i)
        BY <1>2, <1>4, CopiesJoined
      <3>4. Copies(wire[Client] \o <<m>>, i) = Copies(wire[Client], i) + Copies(<<m>>, i)
        BY <1>2, <1>4, CopiesJoined
      <3>9. \/ Copies(wire'[Client], i) = Copies(wire[Client], i) + Copies(<<m>>, i)
            \/ Copies(wire'[Client], i) = Copies(wire[Client], i)
        BY <1>3, <3>4, Zenon
      <3>5. Copies(wire'[Client], i) <= Copies(wire[Client], i) + (IF i \in {m.id} THEN 1 ELSE 0)
        BY <3>1, <3>2, <3>9
      <3>6. Copies(wire'[Client], i) \in Nat
        BY <3>1, <3>2, <3>9
      <3>7. received[Server][i] \in Nat
        BY CountType, Ends
      <3>8. /\ Count(Client, i)' = received[Server][i] + Copies(wire'[Client], i) + 0
            /\ Count(Client, i) = received[Server][i] + Copies(wire[Client], i) + 0
        BY <1>1, Ends DEF Count, Path
      <3>. QED
        BY <1>4, <3>1, <3>2, <3>3, <3>5, <3>6, <3>7, <3>8
    <2>2. Pending(Client)' = Pending(Client) /\ disconnects' = disconnects /\ Pending(Client) \in Nat
      BY <1>1, Ends, CountType, ZeroIsId DEF Pending
    <2>3. {m.id} \in SUBSET Ids
      BY <1>5
    <2>4. \A i \in {m.id} : Fresh(Client, i) /\ ~Fresh(Client, i)'
      BY <1>5
    <2>5. Pending(Client)' + 0 <= Pending(Client)
      BY <2>2
    <2>. QED
      BY <1>5, <2>1, <2>2, <2>3, <2>4, <2>5, Renewed, Ends
  <1>10. Effect(Server, {}, FALSE)
    <2>1. Path(Server)' = Path(Server) /\ received' = received /\ todo' = todo
      BY <1>1, <1>3 DEF Path
    <2>2. Pending(Server)' = Pending(Server) /\ disconnects' = disconnects
      BY <1>1, <1>2, <1>6, Ends DEF Pending, Flushing
    <2>. QED
      BY <1>4, <1>5, <2>1, <2>2, Untouched, Ends
  <1>11. {m.id} \in SUBSET Ids /\ {} \in SUBSET Ids
    BY <1>2, <1>5
  <1>12. Bounded(Client)' /\ Bounded(Server)'
    BY <1>9, <1>10, <1>11, EffectKeeps, Ends DEF Redelivery
  <1>. QED
    BY <1>7, <1>8, <1>12, Ends DEF Redelivery, Client, Server

LEMMA CountParts ==
    ASSUME Types, NEW i \in Ids
    PROVE  /\ Count(Client, i) = received[Server][i] + Copies(wire[Client], i)
           /\ Count(Server, i) = received[Client][i] + Copies(wire[Server], i) + Copies(outgoing, i)
                                 + Copies(todo[Foreground], i) + Copies(todo[Background], i)
           /\ \A e \in End : /\ received[e][i] \in Nat /\ Copies(wire[e], i) \in Nat
                             /\ Copies(buffer[e], i) \in Nat
           /\ Copies(outgoing, i) \in Nat /\ \A t \in Thread : Copies(todo[t], i) \in Nat
  <1>1. /\ \A e \in End : wire[e] \in Seq(Envelope) /\ buffer[e] \in Seq(Envelope)
        /\ outgoing \in Seq(Envelope) /\ \A t \in Thread : todo[t] \in Seq(Envelope)
    BY DEF Types
  <1>2. /\ \A e \in End : Copies(wire[e], i) \in Nat /\ Copies(buffer[e], i) \in Nat
        /\ Copies(outgoing, i) \in Nat /\ \A t \in Thread : Copies(todo[t], i) \in Nat
    BY <1>1, CopiesType
  <1>3. Copies(wire[Server] \o outgoing, i) = Copies(wire[Server], i) + Copies(outgoing, i)
    BY <1>1, CopiesJoined, Ends
  <1>4. \A e \in End : received[e][i] \in Nat
    BY DEF Types
  <1>5. Count(Client, i) = received[Server][i] + Copies(wire[Client], i) + 0
    BY Ends DEF Count, Path
  <1>6. Count(Server, i) = received[Client][i] + Copies(wire[Server] \o outgoing, i)
                           + (Copies(todo[Foreground], i) + Copies(todo[Background], i))
    BY Ends DEF Count, Path, ToDo
  <1>. QED
    BY <1>2, <1>3, <1>4, <1>5, <1>6, Ends, Hands

LEMMA CountPartsAfter ==
    ASSUME Types', NEW i \in Ids
    PROVE  /\ Count(Client, i)' = received'[Server][i] + Copies(wire'[Client], i)
           /\ Count(Server, i)' = received'[Client][i] + Copies(wire'[Server], i) + Copies(outgoing', i)
                                 + Copies(todo'[Foreground], i) + Copies(todo'[Background], i)
           /\ \A e \in End : /\ received'[e][i] \in Nat /\ Copies(wire'[e], i) \in Nat
                             /\ Copies(buffer'[e], i) \in Nat
           /\ Copies(outgoing', i) \in Nat /\ \A t \in Thread : Copies(todo'[t], i) \in Nat
  <1>1. /\ \A e \in End : wire'[e] \in Seq(Envelope) /\ buffer'[e] \in Seq(Envelope)
        /\ outgoing' \in Seq(Envelope) /\ \A t \in Thread : todo'[t] \in Seq(Envelope)
    BY DEF Types
  <1>2. /\ \A e \in End : Copies(wire'[e], i) \in Nat /\ Copies(buffer'[e], i) \in Nat
        /\ Copies(outgoing', i) \in Nat /\ \A t \in Thread : Copies(todo'[t], i) \in Nat
    BY <1>1, CopiesType
  <1>3. Copies(wire'[Server] \o outgoing', i) = Copies(wire'[Server], i) + Copies(outgoing', i)
    BY <1>1, CopiesJoined, Ends
  <1>4. \A e \in End : received'[e][i] \in Nat
    BY DEF Types
  <1>5. Count(Client, i)' = received'[Server][i] + Copies(wire'[Client], i) + 0
    BY Ends DEF Count, Path
  <1>6. Count(Server, i)' = received'[Client][i] + Copies(wire'[Server] \o outgoing', i)
                           + (Copies(todo'[Foreground], i) + Copies(todo'[Background], i))
    BY Ends DEF Count, Path, ToDo
  <1>. QED
    BY <1>2, <1>3, <1>4, <1>5, <1>6, Ends, Hands

LEMMA Assembled ==
    ASSUME Types, Types', Redelivery, FlushFirst', HandsApart',
           NEW c \in SUBSET Ids, NEW s \in SUBSET Ids, NEW a \in BOOLEAN, NEW b \in BOOLEAN,
           Effect(Client, c, a), Effect(Server, s, b)
    PROVE  Redelivery'
  <1>1. Bounded(Client)' /\ Bounded(Server)'
    BY EffectKeeps, Ends DEF Redelivery
  <1>. QED
    BY <1>1, Ends DEF Redelivery, Client, Server

LEMMA HandsKept ==
    ASSUME Types, HandsApart, hand' = hand,
           nextId'[Server] = nextId[Server] \/ nextId'[Server] = nextId[Server] + 1,
           \A t \in Thread : hand[t] # Idle => todo'[t] = todo[t]
    PROVE  HandsApart' /\ SameHands
  <1>1. \A t \in Thread : DrawnBy(t)' <=> DrawnBy(t)
    BY DEF DrawnBy
  <1>2. ASSUME NEW t \in Thread, DrawnBy(t)
        PROVE  hand'[t].env.id < nextId'[Server] /\ hand'[t].env.kind \notin {"flush", "started"}
    <2>1. hand[t].env.id < nextId[Server] /\ hand[t].env.kind \notin {"flush", "started"}
      BY <1>2 DEF HandsApart
    <2>2. hand[t].env \in Envelope
      BY <1>2, HandTypes DEF DrawnBy
    <2>3. hand[t].env.id \in Nat /\ nextId[Server] \in Nat
      BY <2>2, EnvelopeParts, NoneIsNoId, IdCounters, Ends
    <2>. QED
      BY <2>1, <2>3
  <1>3. ASSUME NEW t \in Thread, hand[t].at \in {"stamp", "buffer", "lock"} PROVE todo'[t] = <<>>
    <2>1. todo[t] = <<>>
      BY <1>3 DEF HandsApart
    <2>2. hand[t] # Idle
      BY <1>3, Hands
    <2>. QED
      BY <2>1, <2>2
  <1>4. HandsApart'
    <2>1. /\ hand[Background].at \notin {"lock", "flush"}
          /\ DrawnBy(Foreground) /\ DrawnBy(Background) =>
               hand[Foreground].env.id # hand[Background].env.id
      BY DEF HandsApart
    <2>. QED
      BY <1>1, <1>2, <1>3, <2>1, Hands DEF HandsApart
  <1>. QED
    BY <1>1, <1>4 DEF SameHands

\* A step that changes no envelope outside the hands.
LEMMA OnlyHands ==
    ASSUME Types, Types', Redelivery, HandsApart',
           UNCHANGED <<buffer, wire, outgoing, todo, linkUp, resync, received, disconnects>>,
           hand'[Foreground].at = "lock" <=> hand[Foreground].at = "lock",
           \A e \in End, i \in Ids : Fresh(e, i)' => Fresh(e, i)
    PROVE  Redelivery'
  <1>1. \A e \in End : Path(e)' = Path(e)
    BY DEF Path
  <1>2. \A e \in End : Pending(e)' = Pending(e)
    BY DEF Pending, Flushing
  <1>3. \A e \in End : Effect(e, {}, FALSE)
    BY <1>1, <1>2, Untouched
  <1>4. FlushFirst'
    BY DEF Redelivery, FlushFirst
  <1>5. Effect(Client, {}, FALSE) /\ Effect(Server, {}, FALSE)
    BY <1>3, Ends
  <1>. QED
    BY <1>4, <1>5, Assembled

\* A thread of the server draws an id.
LEMMA TakesUp ==
    ASSUME Types, Types', Redelivery, NEW t \in Thread, NEW m \in Envelope, NEW at \in {"stamp", "buffer"},
           Draw(Server), m.id = nextId[Server], m.kind \notin {"flush", "started"},
           hand[t] = Idle, todo[t] = <<>>,
           hand' = [hand EXCEPT ![t] = [at |-> at, env |-> m]],
           UNCHANGED <<buffer, wire, outgoing, todo, linkUp, resync, received, disconnects>>
    PROVE  Redelivery'
  <1>1. /\ nextId[Server] \in Nat /\ nextId'[Server] = nextId[Server] + 1
        /\ \A d \in End : nextId'[d] = nextId[d] \/ nextId'[d] = nextId[d] + 1
    BY DrawTypes, IdCounters, Ends
  <1>2. /\ hand'[t].at = at /\ hand'[t].env = m
        /\ \A u \in Thread : u # t => hand'[u] = hand[u]
    BY DEF Types
  <1>3. ASSUME NEW u \in Thread, u # t, DrawnBy(u)
        PROVE  /\ hand[u].env.id < nextId[Server] /\ hand[u].env.kind \notin {"flush", "started"}
               /\ hand[u].env.id \in Nat
    <2>1. hand[u].env \in Envelope
      BY <1>3, HandTypes DEF DrawnBy
    <2>2. hand[u].env.id \in Nat
      BY <2>1, EnvelopeParts, NoneIsNoId
    <2>. QED
      BY <1>3, <2>2 DEF Redelivery, HandsApart
  <1>4. HandsApart'
    <2>1. ASSUME NEW u \in Thread
          PROVE  /\ DrawnBy(u)' => /\ hand'[u].env.id < nextId'[Server]
                                   /\ hand'[u].env.kind \notin {"flush", "started"}
                 /\ hand'[u].at \in {"stamp", "buffer", "lock"} => todo'[u] = <<>>
      <3>1. CASE u = t
        BY <1>1, <1>2, <3>1
      <3>2. CASE u # t
        <4>1. DrawnBy(u)' => DrawnBy(u)
          BY <1>2, <3>2 DEF DrawnBy
        <4>2. hand[u].at \in {"stamp", "buffer", "lock"} => todo[u] = <<>>
          BY DEF Redelivery, HandsApart
        <4>. QED
          BY <1>1, <1>2, <1>3, <3>2, <4>1, <4>2
      <3>. QED
        BY <3>1, <3>2
    <2>2. hand'[Background].at \notin {"lock", "flush"}
      BY <1>2, Hands DEF Redelivery, HandsApart
    <2>3. ASSUME DrawnBy(Foreground)', DrawnBy(Background)'
          PROVE  hand'[Foreground].env.id # hand'[Background].env.id
      <3>1. PICK u \in Thread : u # t /\ {t, u} = {Foreground, Background}
        BY Hands
      <3>2. DrawnBy(u)
        BY <1>2, <2>3, <3>1 DEF DrawnBy
      <3>3. hand'[u].env.id < hand'[t].env.id /\ hand'[u].env.id \in Nat /\ hand'[t].env.id \in Nat
        BY <1>1, <1>2, <1>3, <3>1, <3>2
      <3>4. hand'[u].env.id # hand'[t].env.id
        BY <3>3
      <3>. QED
        BY <3>1, <3>4
    <2>. QED
      BY <2>1, <2>2, <2>3 DEF HandsApart
  <1>5. \A e \in End, i \in Ids : Fresh(e, i)' => Fresh(e, i)
    <2>1. ASSUME NEW u \in Thread, DrawnBy(u)'
          PROVE  \/ DrawnBy(u) /\ hand'[u].env.id = hand[u].env.id
                 \/ hand'[u].env.id = nextId[Server]
      BY <1>2, <2>1 DEF DrawnBy
    <2>. QED
      BY <1>1, <2>1, FreshStep
  <1>6. hand'[Foreground].at = "lock" <=> hand[Foreground].at = "lock"
    BY <1>2, Hands
  <1>. QED
    BY <1>4, <1>5, <1>6, OnlyHands

LEMMA StampCounts == ASSUME Types, Types', Redelivery, Stamp PROVE Redelivery'
  <1>1. PICK m : m = [hand[Background].env EXCEPT !.ack = maxReceived[Server]]
    OBVIOUS
  <1>2. /\ hand[Background].at = "stamp" /\ hand' = [hand EXCEPT ![Background] = [at |-> "buffer", env |-> m]]
        /\ UNCHANGED <<nextId, buffer, wire, outgoing, todo, linkUp, resync, received, disconnects>>
    BY <1>1, Hands DEF Stamp, Types, local, network, used
  <1>3. hand[Background].env \in Envelope
    BY <1>2, HandTypes, Hands
  <1>4. m.id = hand[Background].env.id /\ m.kind = hand[Background].env.kind
    BY <1>1, <1>3 DEF Envelope
  <1>5. hand'[Background] = [at |-> "buffer", env |-> m] /\ hand'[Foreground] = hand[Foreground]
    BY <1>2, Hands DEF Types
  <1>6. /\ \A t \in Thread : DrawnBy(t)' <=> DrawnBy(t)
        /\ \A t \in Thread : DrawnBy(t) => /\ hand'[t].env.id = hand[t].env.id
                                           /\ hand'[t].env.kind = hand[t].env.kind
    BY <1>2, <1>4, <1>5, Hands DEF DrawnBy
  <1>7. HandsApart'
    <2>1. HandsApart
      BY DEF Redelivery
    <2>2. \A t \in Thread : DrawnBy(t)' => /\ hand'[t].env.id < nextId'[Server]
                                           /\ hand'[t].env.kind \notin {"flush", "started"}
      BY <1>2, <1>6, <2>1 DEF HandsApart
    <2>3. \A t \in Thread : hand'[t].at \in {"stamp", "buffer", "lock"} => todo'[t] = <<>>
      BY <1>2, <1>5, <2>1, Hands DEF HandsApart
    <2>4. DrawnBy(Foreground)' /\ DrawnBy(Background)' =>
            hand'[Foreground].env.id # hand'[Background].env.id
      BY <1>6, <2>1, Hands DEF HandsApart
    <2>. QED
      BY <1>5, <2>2, <2>3, <2>4 DEF HandsApart
  <1>8. \A e \in End, i \in Ids : Fresh(e, i)' => Fresh(e, i)
    BY <1>2, <1>6, NothingDrawn DEF SameHands, Redelivery
  <1>. QED
    BY <1>2, <1>5, <1>7, <1>8, OnlyHands

\* The other thread of the server.
Other(t) == IF t = Foreground THEN Background ELSE Foreground

LEMMA TheOther ==
    ASSUME NEW t \in Thread
    PROVE  /\ Other(t) \in Thread /\ Other(t) # t /\ {t, Other(t)} = {Foreground, Background}
           /\ \A u \in Thread : u = t \/ u = Other(t)
  BY Hands DEF Other

LEMMA ToDoParts ==
    ASSUME Types, Types', NEW t \in Thread, NEW i \in Ids, todo'[Other(t)] = todo[Other(t)]
    PROVE  /\ Copies(todo[Foreground], i) + Copies(todo[Background], i)
                = Copies(todo[t], i) + Copies(todo[Other(t)], i)
           /\ Copies(todo'[Foreground], i) + Copies(todo'[Background], i)
                = Copies(todo'[t], i) + Copies(todo[Other(t)], i)
  <1>1. (t = Foreground /\ Other(t) = Background) \/ (t = Background /\ Other(t) = Foreground)
    BY Hands DEF Other
  <1>2. \A u \in Thread : Copies(todo[u], i) \in Nat /\ Copies(todo'[u], i) \in Nat
    BY CountParts, CountPartsAfter
  <1>. QED
    BY <1>1, <1>2, Hands

\* A thread of the server buffers its message and is about to queue it.
LEMMA BufferCounts ==
    ASSUME Types, Types', Redelivery, NEW t \in Thread, Buffer(t)
    PROVE  Redelivery'
  <1>1. PICK m \in Envelope : m = hand[t].env
    BY HandTypes, Hands DEF Buffer
  <1>2. /\ hand[t].at = "buffer" /\ Push(Server, m) /\ hand' = [hand EXCEPT ![t] = Idle]
        /\ todo' = [todo EXCEPT ![t] = <<m>>]
        /\ UNCHANGED <<nextId, resync, linkUp, outgoing, wire, disconnects, received>>
    BY <1>1 DEF Buffer, network, used
  <1>3. /\ DrawnBy(t) /\ m.id < nextId[Server] /\ m.kind \notin {"flush", "started"} /\ todo[t] = <<>>
    BY <1>1, <1>2 DEF DrawnBy, Redelivery, HandsApart
  <1>4. m.id \in Ids /\ <<m>> \in Seq(Envelope) /\ m.id \in Nat /\ nextId[Server] \in Nat
    <2>1. m.id \in Ids
      BY EnvelopeParts
    <2>2. <<m>> \in Seq(Envelope)
      OBVIOUS
    <2>3. nextId[Server] \in Nat
      BY IdCounters, Ends
    <2>. QED
      BY <2>1, <2>2, <2>3, NoneIsNoId
  <1>5. /\ hand'[t] = Idle /\ todo'[t] = <<m>>
        /\ hand'[Other(t)] = hand[Other(t)] /\ todo'[Other(t)] = todo[Other(t)]
    BY <1>2, TheOther DEF Types
  <1>6. /\ buffer'[Server] = buffer[Server] \o <<m>> /\ buffer'[Client] = buffer[Client]
        /\ buffer[Server] \in Seq(Envelope)
    <2>0. buffer[Server] \in Seq(Envelope)
      BY Ends DEF Types
    <2>1. buffer' = [buffer EXCEPT ![Server] = Append(@, m)]
      BY <1>2 DEF Push
    <2>2. Append(buffer[Server], m) = buffer[Server] \o <<m>>
      BY <2>0, Pieces
    <2>. QED
      BY <2>0, <2>1, <2>2, Ends DEF Types
  <1>7. \A u \in Thread : DrawnBy(u)' => u # t /\ DrawnBy(u) /\ hand'[u] = hand[u]
    BY <1>5, TheOther, Hands DEF DrawnBy
  <1>8. HandsApart'
    <2>1. HandsApart
      BY DEF Redelivery
    <2>2. \A u \in Thread : u = t \/ (u = Other(t) /\ hand'[u] = hand[u] /\ todo'[u] = todo[u])
      BY <1>5, TheOther
    <2>3. \A u \in Thread : hand'[u].at \in {"stamp", "buffer", "lock"} => todo'[u] = <<>>
      BY <1>5, <2>1, <2>2, Hands DEF HandsApart
    <2>4. hand'[Background].at \notin {"lock", "flush"}
      BY <1>5, <2>1, <2>2, Hands DEF HandsApart
    <2>5. ~(DrawnBy(Foreground)' /\ DrawnBy(Background)')
      BY <1>7, TheOther
    <2>. QED
      BY <1>2, <1>7, <2>1, <2>3, <2>4, <2>5 DEF HandsApart
  <1>9. /\ Fresh(Server, m.id) /\ ~Fresh(Server, m.id)'
        /\ \A e \in End, i \in Ids : Fresh(e, i)' => Fresh(e, i)
    <2>1. Fresh(Server, m.id)
      BY <1>1, <1>3 DEF Fresh
    <2>2. ~(m.id >= nextId'[Server])
      BY <1>2, <1>3, <1>4
    <2>3. ASSUME NEW u \in Thread, DrawnBy(u)', hand'[u].env.id = m.id PROVE FALSE
      <3>1. u # t /\ DrawnBy(u) /\ hand[u].env.id = hand[t].env.id
        BY <1>1, <1>7, <2>3
      <3>. QED
        BY <1>3, <3>1, TheOther, Hands DEF Redelivery, HandsApart
    <2>4. ~Fresh(Server, m.id)'
      BY <2>2, <2>3 DEF Fresh
    <2>5. SameHands
      BY <1>7 DEF SameHands
    <2>. QED
      BY <1>2, <2>1, <2>4, <2>5, NothingDrawn DEF Redelivery
  <1>10. FlushFirst'
    <2>1. FlushAtHead(wire[Client]) /\ NoFlush(buffer[Server]) /\ NoFlush(buffer[Client])
      BY Ends DEF Redelivery, FlushFirst
    <2>2. NoFlush(buffer'[Server])
      BY <1>3, <1>6, <2>1, Appended
    <2>3. \A e \in End : e = Client \/ e = Server
      BY Ends DEF Client, Server
    <2>. QED
      BY <1>2, <1>6, <2>1, <2>2, <2>3 DEF FlushFirst
  <1>11. Effect(Client, {}, FALSE)
    <2>1. Path(Client)' = Path(Client) /\ Pending(Client)' = Pending(Client)
      BY <1>2, Ends DEF Path, Pending
    <2>. QED
      BY <1>2, <1>6, <1>9, <2>1, Untouched, Ends
  <1>12. Effect(Server, {m.id}, FALSE)
    <2>1. ASSUME NEW i \in Ids
          PROVE  /\ Count(Server, i)' <= Count(Server, i) + (IF i \in {m.id} THEN 1 ELSE 0) + 0
                 /\ Copies(buffer[Server], i)' <= Copies(buffer[Server], i) + IF i \in {m.id} THEN 1 ELSE 0
      <3>1. Copies(<<m>>, i) = IF i \in {m.id} THEN 1 ELSE 0
        BY <1>3, CopiesOfOne DEF Counted
      <3>2. Copies(buffer[Server] \o <<m>>, i) = Copies(buffer[Server], i) + Copies(<<m>>, i)
        BY <1>4, <1>6, CopiesJoined
      <3>3. Copies(todo[t], i) = 0 /\ Copies(todo'[t], i) = Copies(<<m>>, i)
        BY <1>3, <1>5, CopiesOfOne
      <3>4. Count(Server, i)' = Count(Server, i) + Copies(<<m>>, i)
        <4>3. /\ Copies(todo[Foreground], i) + Copies(todo[Background], i)
                    = Copies(todo[t], i) + Copies(todo[Other(t)], i)
              /\ Copies(todo'[Foreground], i) + Copies(todo'[Background], i)
                    = Copies(todo'[t], i) + Copies(todo[Other(t)], i)
          BY <1>5, ToDoParts
        <4>4. /\ Count(Server, i) = received[Client][i] + Copies(wire[Server], i) + Copies(outgoing, i)
                                     + Copies(todo[Foreground], i) + Copies(todo[Background], i)
              /\ received[Client][i] \in Nat /\ Copies(wire[Server], i) \in Nat /\ Copies(outgoing, i) \in Nat
              /\ Copies(todo[Foreground], i) \in Nat /\ Copies(todo[Background], i) \in Nat
              /\ Copies(todo[Other(t)], i) \in Nat
          BY CountParts, Ends, Hands, TheOther
        <4>5. /\ Count(Server, i)' = received[Client][i] + Copies(wire[Server], i) + Copies(outgoing, i)
                                     + Copies(todo'[Foreground], i) + Copies(todo'[Background], i)
              /\ Copies(todo'[Foreground], i) \in Nat /\ Copies(todo'[Background], i) \in Nat
              /\ Copies(todo'[t], i) \in Nat
          BY <1>2, CountPartsAfter, Hands
        <4>. QED
          BY <3>3, <4>3, <4>4, <4>5
      <3>5. Count(Server, i) \in Nat /\ Copies(buffer[Server], i) \in Nat
        BY CountType, Ends
      <3>6. Copies(buffer[Server], i)' = Copies(buffer[Server], i) + Copies(<<m>>, i)
        BY <1>6, <3>2
      <3>. QED
        BY <3>1, <3>4, <3>5, <3>6
    <2>2. Pending(Server)' = Pending(Server) /\ Pending(Server) \in Nat
      <3>1. hand'[Foreground].at = "lock" <=> hand[Foreground].at = "lock"
        BY <1>2, <1>5, TheOther, Hands
      <3>. QED
        BY <1>2, <3>1, CountType, Ends, ZeroIsId DEF Pending, Flushing
    <2>3. {m.id} \in SUBSET Ids /\ \A i \in {m.id} : Fresh(Server, i) /\ ~Fresh(Server, i)'
      BY <1>4, <1>9
    <2>4. Pending(Server)' + 0 <= Pending(Server) /\ disconnects' = disconnects
      BY <1>2, <2>2
    <2>. QED
      BY <1>9, <2>1, <2>3, <2>4, Renewed, Ends
  <1>13. {m.id} \in SUBSET Ids
    BY <1>4
  <1>. QED
    BY <1>8, <1>10, <1>11, <1>12, <1>13, Assembled

\* Steps that draw no id: the messages of both ends may only move.
LEMMA OnlyMoves ==
    ASSUME Types, Types', Redelivery, FlushFirst', hand' = hand, nextId' = nextId,
           \A t \in Thread : hand[t] # Idle /\ hand[t].at # "flush" => todo'[t] = todo[t],
           UNCHANGED <<linkUp, resync, disconnects>>, NoFlush(wire[Client]) => NoFlush(wire'[Client]),
           \A e \in End, i \in Ids : /\ Count(e, i)' <= Count(e, i)
                                     /\ Copies(buffer[e], i)' <= Copies(buffer[e], i)
    PROVE  Redelivery'
  <1>1. HandsApart' /\ SameHands
    <2>1. \A t \in Thread : hand'[t].at \in {"stamp", "buffer", "lock"} => todo'[t] = <<>>
      BY Hands DEF Redelivery, HandsApart
    <2>2. \A t \in Thread : DrawnBy(t)' <=> DrawnBy(t)
      BY DEF DrawnBy
    <2>. QED
      BY <2>1, <2>2, Hands DEF Redelivery, HandsApart, SameHands
  <1>2. \A e \in End, i \in Ids : Fresh(e, i)' => Fresh(e, i)
    BY <1>1, NothingDrawn DEF Redelivery
  <1>3. \A e \in End : Pending(e)' <= Pending(e) /\ Pending(e)' + 0 <= Pending(e)
    BY DEF Pending, Flushing
  <1>4. ASSUME NEW e \in End PROVE Effect(e, {}, FALSE)
    <2>1. ASSUME NEW i \in Ids
          PROVE  /\ Count(e, i)' <= Count(e, i) + (IF i \in {} THEN 1 ELSE 0) + 0
                 /\ Copies(buffer[e], i)' <= Copies(buffer[e], i) + IF i \in {} THEN 1 ELSE 0
      BY CountType
    <2>2. {} \in SUBSET Ids /\ \A i \in {} : Fresh(e, i) /\ ~Fresh(e, i)'
      OBVIOUS
    <2>. QED
      BY <1>2, <1>3, <2>1, <2>2, Renewed
  <1>5. {} \in SUBSET Ids
    OBVIOUS
  <1>. QED
    BY <1>1, <1>4, <1>5, Assembled, Ends

LEMMA QueueCounts ==
    ASSUME Types, Types', Redelivery, NEW t \in Thread, Queue(t)
    PROVE  Redelivery'
  <1>1. /\ todo[t] # <<>> /\ todo' = [todo EXCEPT ![t] = Tail(@)]
        /\ outgoing' = Append(outgoing, Head(todo[t]))
        /\ UNCHANGED <<nextId, buffer, resync, hand, linkUp, wire, disconnects, received>>
    BY DEF Queue, local, used
  <1>2. todo[t] \in Seq(Envelope) /\ outgoing \in Seq(Envelope)
    BY DEF Types
  <1>3. PICK m \in Envelope : m = Head(todo[t])
    BY <1>1, <1>2, Pieces
  <1>4. todo'[t] = Tail(todo[t]) /\ todo'[Other(t)] = todo[Other(t)] /\ outgoing' = Append(outgoing, m)
    BY <1>1, <1>3, TheOther DEF Types
  <1>5. ASSUME NEW i \in Ids PROVE Count(Server, i)' = Count(Server, i)
    <2>1. Copies(todo[t], i) = (IF Counted(m, i) THEN 1 ELSE 0) + Copies(todo'[t], i)
      BY <1>1, <1>2, <1>3, <1>4, CopiesMove
    <2>2. Copies(outgoing', i) = Copies(outgoing, i) + IF Counted(m, i) THEN 1 ELSE 0
      BY <1>2, <1>4, CopiesMove
    <2>3. /\ Copies(todo[Foreground], i) + Copies(todo[Background], i)
                = Copies(todo[t], i) + Copies(todo[Other(t)], i)
          /\ Copies(todo'[Foreground], i) + Copies(todo'[Background], i)
                = Copies(todo'[t], i) + Copies(todo[Other(t)], i)
      BY <1>4, ToDoParts
    <2>4. /\ Count(Server, i) = received[Client][i] + Copies(wire[Server], i) + Copies(outgoing, i)
                                 + Copies(todo[Foreground], i) + Copies(todo[Background], i)
          /\ received[Client][i] \in Nat /\ Copies(wire[Server], i) \in Nat /\ Copies(outgoing, i) \in Nat
          /\ \A u \in Thread : Copies(todo[u], i) \in Nat
          /\ Copies(todo[Foreground], i) \in Nat /\ Copies(todo[Background], i) \in Nat
          /\ Copies(todo[t], i) \in Nat /\ Copies(todo[Other(t)], i) \in Nat
      BY CountParts, Ends, Hands, TheOther
    <2>5. /\ Count(Server, i)' = received[Client][i] + Copies(wire[Server], i) + Copies(outgoing', i)
                                 + Copies(todo'[Foreground], i) + Copies(todo'[Background], i)
          /\ Copies(outgoing', i) \in Nat
          /\ Copies(todo'[Foreground], i) \in Nat /\ Copies(todo'[Background], i) \in Nat
          /\ Copies(todo'[t], i) \in Nat
      BY <1>1, CountPartsAfter, Hands
    <2>. QED
      BY <2>1, <2>2, <2>3, <2>4, <2>5
  <1>6. ASSUME NEW i \in Ids PROVE Count(Client, i)' = Count(Client, i)
    BY <1>1, CountParts, CountPartsAfter, Ends
  <1>7. \A e \in End, i \in Ids : /\ Count(e, i)' <= Count(e, i)
                                  /\ Copies(buffer[e], i)' <= Copies(buffer[e], i)
    BY <1>1, <1>5, <1>6, CountType, Ends DEF Client, Server
  <1>8. \A u \in Thread : hand[u] # Idle /\ hand[u].at # "flush" => todo'[u] = todo[u]
    <2>1. ASSUME hand[t] # Idle, hand[t].at # "flush" PROVE FALSE
      <3>1. hand[t].at \in {"stamp", "buffer", "lock"}
        BY <2>1, HandTypes
      <3>. QED
        BY <1>1, <3>1 DEF Redelivery, HandsApart
    <2>. QED
      BY <1>4, <2>1, TheOther
  <1>9. FlushFirst'
    BY <1>1 DEF Redelivery, FlushFirst
  <1>. QED
    BY <1>1, <1>7, <1>8, <1>9, OnlyMoves

LEMMA TransmitCounts == ASSUME Types, Types', Redelivery, Transmit PROVE Redelivery'
  <1>1. /\ outgoing # <<>> /\ outgoing' = Tail(outgoing)
        /\ wire' = [wire EXCEPT ![Server] = Append(@, Head(outgoing))]
        /\ UNCHANGED <<nextId, buffer, resync, hand, todo, linkUp, disconnects, received>>
    BY DEF Transmit, local, threads, used
  <1>2. outgoing \in Seq(Envelope) /\ wire[Server] \in Seq(Envelope)
    BY Ends DEF Types
  <1>3. PICK m \in Envelope : m = Head(outgoing)
    BY <1>1, <1>2, Pieces
  <1>4. wire'[Server] = Append(wire[Server], m) /\ wire'[Client] = wire[Client]
    BY <1>1, <1>3, Ends DEF Types
  <1>5. ASSUME NEW i \in Ids PROVE Count(Server, i)' = Count(Server, i)
    <2>1. Copies(outgoing, i) = (IF Counted(m, i) THEN 1 ELSE 0) + Copies(outgoing', i)
      BY <1>1, <1>2, <1>3, CopiesMove
    <2>2. Copies(wire'[Server], i) = Copies(wire[Server], i) + IF Counted(m, i) THEN 1 ELSE 0
      BY <1>2, <1>4, CopiesMove
    <2>4. /\ Count(Server, i) = received[Client][i] + Copies(wire[Server], i) + Copies(outgoing, i)
                                 + Copies(todo[Foreground], i) + Copies(todo[Background], i)
          /\ received[Client][i] \in Nat /\ Copies(wire[Server], i) \in Nat /\ Copies(outgoing, i) \in Nat
          /\ Copies(todo[Foreground], i) \in Nat /\ Copies(todo[Background], i) \in Nat
      BY CountParts, Ends, Hands
    <2>5. /\ Count(Server, i)' = received[Client][i] + Copies(wire'[Server], i) + Copies(outgoing', i)
                                 + Copies(todo[Foreground], i) + Copies(todo[Background], i)
          /\ Copies(outgoing', i) \in Nat /\ Copies(wire'[Server], i) \in Nat
      BY <1>1, CountPartsAfter, Ends
    <2>. QED
      BY <2>1, <2>2, <2>4, <2>5
  <1>6. ASSUME NEW i \in Ids PROVE Count(Client, i)' = Count(Client, i)
    BY <1>1, <1>4, CountParts, CountPartsAfter, Ends
  <1>7. \A e \in End, i \in Ids : /\ Count(e, i)' <= Count(e, i)
                                  /\ Copies(buffer[e], i)' <= Copies(buffer[e], i)
    BY <1>1, <1>5, <1>6, CountType, Ends DEF Client, Server
  <1>8. FlushFirst'
    BY <1>1, <1>4 DEF Redelivery, FlushFirst
  <1>. QED
    BY <1>1, <1>4, <1>7, <1>8, OnlyMoves

\* What reading an envelope does to the connection.
LEMMA ReadCounts ==
    ASSUME Types, DownEmpty, Types', FlushFirst, NEW e \in End, NEW kinds, Reading(e, kinds),
           NEW ms \in Seq(Envelope), NoFlush(ms), Take(e, ms)
    PROVE  /\ \A i \in Ids :
                /\ Copies(wire[Peer(e)], i) = (IF Counted(Incoming(e), i) THEN 1 ELSE 0)
                                              + Copies(wire'[Peer(e)], i)
                /\ Copies(wire'[e], i) = Copies(wire[e], i) + (IF e = Client THEN Copies(ms, i) ELSE 0)
           /\ outgoing' = outgoing /\ linkUp /\ linkUp' = linkUp
           /\ FlushAtHead(wire'[Client])
           /\ NoFlush(wire[Client]) => NoFlush(wire'[Client])
           /\ e = Server => NoFlush(wire'[Client])
           /\ e = Client => (NoFlush(wire'[Client]) <=> NoFlush(wire[Client]))
           /\ e = Server /\ Incoming(e).kind # "flush" => NoFlush(wire[Client])
  <1>1. /\ wire[Peer(e)] # <<>> /\ wire[Peer(e)] \in Seq(Envelope)
        /\ Incoming(e) = Head(wire[Peer(e)]) /\ Incoming(e) \in Envelope
    BY ReadTypes
  <1>2. /\ outgoing' = outgoing /\ linkUp /\ linkUp' = linkUp
        /\ wire'[Peer(e)] = Tail(wire[Peer(e)])
        /\ wire'[e] = IF e = Client THEN wire[e] \o ms ELSE wire[e]
    BY <1>1, TakeEffect
  <1>3. wire[e] \in Seq(Envelope) /\ FlushAtHead(wire[Client])
    BY DEF Types, FlushFirst
  <1>4. ASSUME NEW i \in Ids
        PROVE  /\ Copies(wire[Peer(e)], i) = (IF Counted(Incoming(e), i) THEN 1 ELSE 0)
                                              + Copies(wire'[Peer(e)], i)
               /\ Copies(wire'[e], i) = Copies(wire[e], i) + (IF e = Client THEN Copies(ms, i) ELSE 0)
    <2>1. Copies(wire[Peer(e)], i) = (IF Counted(Incoming(e), i) THEN 1 ELSE 0)
                                              + Copies(wire'[Peer(e)], i)
      BY <1>1, <1>2, CopiesMove
    <2>2. Copies(wire[e] \o ms, i) = Copies(wire[e], i) + Copies(ms, i) /\ Copies(wire[e], i) \in Nat
      BY <1>3, CopiesJoined, CopiesType
    <2>. QED
      BY <1>2, <2>1, <2>2
  <1>5. CASE e = Client
    <2>1. wire'[Client] = wire[Client] \o ms /\ wire[Client] \in Seq(Envelope)
      BY <1>2, <1>3, <1>5
    <2>2. /\ FlushAtHead(wire[Client] \o ms)
          /\ NoFlush(wire[Client] \o ms) <=> NoFlush(wire[Client])
      BY <1>3, <2>1, Flushes
    <2>. QED
      BY <1>2, <1>4, <1>5, <2>1, <2>2, Ends
  <1>6. CASE e = Server
    <2>1. Peer(e) = Client
      BY <1>6, Ends
    <2>2. NoFlush(Tail(wire[Client])) /\ (Head(wire[Client]).kind # "flush" => NoFlush(wire[Client]))
      BY <1>1, <1>3, <2>1, FlushTaken
    <2>3. FlushAtHead(wire'[Client])
      BY <1>2, <2>1, <2>2 DEF NoFlush, FlushAtHead
    <2>. QED
      BY <1>1, <1>2, <1>4, <1>6, <2>1, <2>2, <2>3, Ends
  <1>. QED
    BY <1>5, <1>6, Ends DEF Client, Server

LEMMA KeptCopies ==
    ASSUME Types, Redelivery, NEW e \in End, NEW kinds, Reading(e, kinds)
    PROVE  /\ Kept(e) \in Seq(Envelope) /\ NoFlush(Kept(e)) /\ NoFlush(buffer[e])
           /\ \A i \in Ids : /\ Copies(Kept(e), i) <= Copies(buffer[e], i)
                             /\ Copies(Kept(e), i) <= 1 /\ Copies(Kept(e), i) \in Nat
  <1>1. /\ Incoming(e).ack \in Ids \cup {None} /\ Kept(e) \in Seq(Envelope)
        /\ buffer[e] \in Seq(Envelope) /\ NoFlush(buffer[e])
    BY ReadTypes, PathType DEF Redelivery, FlushFirst
  <1>2. NoFlush(Kept(e))
    BY <1>1, KeptNoFlush DEF Kept
  <1>3. ASSUME NEW i \in Ids
        PROVE  /\ Copies(Kept(e), i) <= Copies(buffer[e], i)
               /\ Copies(Kept(e), i) <= 1 /\ Copies(Kept(e), i) \in Nat
    <2>1. Copies(Kept(e), i) <= Copies(buffer[e], i)
      BY <1>1, CopiesKept DEF Kept
    <2>2. Copies(buffer[e], i) <= 1 /\ Copies(buffer[e], i) \in Nat /\ Copies(Kept(e), i) \in Nat
      BY <1>1, CopiesType DEF Redelivery, Bounded
    <2>. QED
      BY <2>1, <2>2
  <1>. QED
    BY <1>1, <1>2, <1>3

\* An envelope with an id is read: dispatched, counted and acknowledged.
LEMMA ReceiptCounts ==
    ASSUME Types, DownEmpty, Types', Redelivery, NEW e \in End, NEW again \in BOOLEAN,
           Reading(e, {"message", "request", "response", "ack"}), Receipt(e),
           Take(e, IF again THEN Kept(e) ELSE <<>>), buffer' = [buffer EXCEPT ![e] = Kept(e)],
           again => e = Client /\ resync # None /\ resync' = None,
           ~again => resync' = resync, UNCHANGED <<nextId, hand, todo, disconnects>>
    PROVE  Redelivery'
  <1>. DEFINE ms == IF again THEN Kept(e) ELSE <<>>
              h == Incoming(e)
  <1>1. /\ Kept(e) \in Seq(Envelope) /\ NoFlush(Kept(e)) /\ NoFlush(buffer[e])
        /\ \A i \in Ids : Copies(Kept(e), i) <= Copies(buffer[e], i) /\ Copies(Kept(e), i) \in Nat
    BY KeptCopies
  <1>2. ms \in Seq(Envelope) /\ NoFlush(ms) /\ Take(e, ms)
    BY <1>1, EmptySeq DEF NoFlush
  <1>3. h \in Envelope /\ h.id \in Ids /\ h.kind \in {"message", "request", "response", "ack"}
    BY ReadTypes
  <1>4. \A i \in Ids : Copies(ms, i) = IF again THEN Copies(Kept(e), i) ELSE 0
    BY <1>3, CopiesOfOne
  <1>. HIDE DEF ms, h
  <1>5. /\ \A i \in Ids :
             /\ Copies(wire[Peer(e)], i) = (IF Counted(h, i) THEN 1 ELSE 0) + Copies(wire'[Peer(e)], i)
             /\ Copies(wire'[e], i) = Copies(wire[e], i) + (IF e = Client THEN Copies(ms, i) ELSE 0)
        /\ outgoing' = outgoing /\ linkUp /\ linkUp' = linkUp
        /\ FlushAtHead(wire'[Client]) /\ (NoFlush(wire[Client]) => NoFlush(wire'[Client]))
    BY <1>2, ReadCounts DEF h, Redelivery
  <1>6. \A i \in Ids : /\ received'[e][i] = received[e][i] + (IF Counted(h, i) THEN 1 ELSE 0)
                       /\ received'[Peer(e)][i] = received[Peer(e)][i]
    <2>1. received' = [received EXCEPT ![e][h.id] = @ + 1] /\ received \in [End -> [Ids -> Nat]]
      BY DEF Receipt, h, Types
    <2>2. \A i \in Ids : Counted(h, i) <=> h.id = i
      BY <1>3 DEF Counted
    <2>3. Peer(e) \in End /\ Peer(e) # e
      BY Ends
    <2>. QED
      BY <1>3, <2>1, <2>2, <2>3
  <1>7. /\ \A i \in Ids : Copies(buffer'[e], i) = Copies(Kept(e), i)
        /\ buffer'[Peer(e)] = buffer[Peer(e)] /\ NoFlush(buffer'[e])
    BY <1>1, Ends DEF Types
  <1>8. FlushFirst'
    <2>1. \A d \in End : d = e \/ d = Peer(e)
      BY Ends DEF Client, Server
    <2>. QED
      BY <1>5, <1>7, <2>1 DEF FlushFirst, Redelivery
  <1>9. HandsApart' /\ SameHands
    BY HandsKept DEF Redelivery
  <1>10. \A d \in End, i \in Ids : Fresh(d, i)' => Fresh(d, i)
    BY <1>9, NothingDrawn DEF Redelivery
  <1>11. ASSUME NEW i \in Ids PROVE Count(Peer(e), i)' = Count(Peer(e), i)
    <2>1. CASE e = Client
      <3>1. /\ Count(Server, i) = received[Client][i] + Copies(wire[Server], i) + Copies(outgoing, i)
                                  + Copies(todo[Foreground], i) + Copies(todo[Background], i)
            /\ received[Client][i] \in Nat /\ Copies(wire[Server], i) \in Nat /\ Copies(outgoing, i) \in Nat
            /\ Copies(todo[Foreground], i) \in Nat /\ Copies(todo[Background], i) \in Nat
        BY CountParts, Ends, Hands
      <3>2. /\ Count(Server, i)' = received'[Client][i] + Copies(wire'[Server], i) + Copies(outgoing, i)
                                  + Copies(todo[Foreground], i) + Copies(todo[Background], i)
            /\ Copies(wire'[Server], i) \in Nat
        BY <1>5, CountPartsAfter, Ends
      <3>3. Peer(e) = Server
        BY <2>1, Ends
      <3>. QED
        BY <1>5, <1>6, <2>1, <3>1, <3>2, <3>3
    <2>2. CASE e = Server
      <3>1. /\ Count(Client, i) = received[Server][i] + Copies(wire[Client], i)
            /\ received[Server][i] \in Nat /\ Copies(wire[Client], i) \in Nat
        BY CountParts, Ends
      <3>2. /\ Count(Client, i)' = received'[Server][i] + Copies(wire'[Client], i)
            /\ Copies(wire'[Client], i) \in Nat
        BY CountPartsAfter, Ends
      <3>3. Peer(e) = Client
        BY <2>2, Ends
      <3>. QED
        BY <1>5, <1>6, <2>2, <3>1, <3>2, <3>3
    <2>. QED
      BY <2>1, <2>2, Ends DEF Client, Server
  <1>12. ASSUME NEW i \in Ids
         PROVE  Count(e, i)' <= Count(e, i) + (IF again THEN Copies(buffer[e], i) ELSE 0)
    <2>1. CASE e = Client
      <3>1. Copies(wire'[Client], i) <= Copies(wire[Client], i)
                                        + (IF again THEN Copies(buffer[Client], i) ELSE 0)
        BY <1>1, <1>4, <1>5, <2>1, CountParts, Ends
      <3>2. /\ Count(Client, i) = received[Server][i] + Copies(wire[Client], i)
            /\ received[Server][i] \in Nat /\ Copies(wire[Client], i) \in Nat
            /\ Copies(buffer[Client], i) \in Nat
        BY CountParts, Ends
      <3>3. /\ Count(Client, i)' = received'[Server][i] + Copies(wire'[Client], i)
            /\ Copies(wire'[Client], i) \in Nat
        BY CountPartsAfter, Ends
      <3>4. Peer(e) = Server
        BY <2>1, Ends
      <3>. QED
        BY <1>6, <2>1, <3>1, <3>2, <3>3, <3>4
    <2>2. CASE e = Server
      <3>1. Copies(wire'[Server], i) = Copies(wire[Server], i) + 0 /\ ~again
        BY <1>5, <2>2, Ends
      <3>2. Count(Server, i)' = Count(Server, i)
        <4>1. received'[Client][i] = received[Client][i]
          BY <1>6, <2>2, Ends
        <4>. QED
          BY <1>5, <3>1, <4>1, CountParts, CountPartsAfter, Ends
      <3>. QED
        BY <2>2, <3>1, <3>2, CountType, Ends
    <2>. QED
      BY <2>1, <2>2, Ends DEF Client, Server
  <1>13. Effect(Peer(e), {}, FALSE)
    <2>1. ASSUME NEW i \in Ids
          PROVE  /\ Count(Peer(e), i)' <= Count(Peer(e), i) + (IF i \in {} THEN 1 ELSE 0) + 0
                 /\ Copies(buffer[Peer(e)], i)' <= Copies(buffer[Peer(e)], i) + IF i \in {} THEN 1 ELSE 0
      <3>1. Copies(buffer[Peer(e)], i)' = Copies(buffer[Peer(e)], i)
        BY <1>7
      <3>. QED
        BY <1>11, <3>1, CountType, Ends
    <2>2. Pending(Peer(e))' + 0 <= Pending(Peer(e))
      BY <1>5, Ends DEF Pending, Flushing
    <2>3. {} \in SUBSET Ids /\ \A i \in {} : Fresh(Peer(e), i) /\ ~Fresh(Peer(e), i)'
      OBVIOUS
    <2>. QED
      BY <1>10, <2>1, <2>2, <2>3, Renewed, Ends
  <1>14. Effect(e, {}, again)
    <2>1. ASSUME NEW i \in Ids
          PROVE  /\ Count(e, i)' <= Count(e, i) + (IF i \in {} THEN 1 ELSE 0)
                                    + (IF again THEN Copies(buffer[e], i) ELSE 0)
                 /\ Copies(buffer[e], i)' <= Copies(buffer[e], i) + IF i \in {} THEN 1 ELSE 0
      <3>1. Copies(buffer[e], i)' = Copies(Kept(e), i)
        BY <1>7
      <3>. QED
        BY <1>1, <1>12, <3>1, CountType
    <2>2. Pending(e)' + (IF again THEN 1 ELSE 0) <= Pending(e)
      BY <1>5, Ends DEF Pending, Flushing
    <2>3. {} \in SUBSET Ids /\ \A i \in {} : Fresh(e, i) /\ ~Fresh(e, i)'
      OBVIOUS
    <2>. QED
      BY <1>10, <2>1, <2>2, <2>3, Renewed
  <1>15. {} \in SUBSET Ids /\ FALSE \in BOOLEAN
    OBVIOUS
  <1>16. Peer(Client) = Server /\ Peer(Server) = Client /\ (e = Client \/ e = Server)
    BY Ends DEF Client, Server
  <1>. QED
    BY <1>8, <1>9, <1>13, <1>14, <1>15, <1>16, Assembled

LEMMA HandledCounts ==
    ASSUME Types, DownEmpty, Types', Redelivery, NEW e \in End, HandleResponse(e) \/ HandleMessage(e)
    PROVE  Redelivery'
  <1>1. CASE HandleResponse(e)
    <2>. DEFINE again == e = Client /\ resync # None /\ Incoming(e).re = resync
    <2>1. /\ Reading(e, {"response", "ack"}) /\ Receipt(e)
          /\ buffer' = [buffer EXCEPT ![e] = Kept(e)]
          /\ Take(e, IF again THEN Kept(e) ELSE <<>>)
          /\ resync' = IF again THEN None ELSE resync
          /\ UNCHANGED <<nextId, hand, todo, disconnects>>
      BY <1>1 DEF HandleResponse, threads, used
    <2>2. Reading(e, {"message", "request", "response", "ack"})
      BY <2>1 DEF Reading
    <2>3. again \in BOOLEAN /\ (again => e = Client /\ resync # None /\ resync' = None)
          /\ (~again => resync' = resync)
      BY <2>1
    <2>. HIDE DEF again
    <2>. QED
      BY <2>1, <2>2, <2>3, ReceiptCounts
  <1>2. CASE HandleMessage(e)
    <2>1. /\ Reading(e, {"message", "request"}) /\ Receipt(e)
          /\ buffer' = [buffer EXCEPT ![e] = Kept(e)] /\ Take(e, <<>>) /\ resync' = resync
          /\ UNCHANGED <<nextId, hand, todo, disconnects>>
      BY <1>2 DEF HandleMessage, threads, used
    <2>2. Reading(e, {"message", "request", "response", "ack"})
      BY <2>1 DEF Reading
    <2>. DEFINE again == FALSE
    <2>3. again \in BOOLEAN /\ ~again /\ Take(e, IF again THEN Kept(e) ELSE <<>>)
      BY <2>1
    <2>. HIDE DEF again
    <2>. QED
      BY <2>1, <2>2, <2>3, ReceiptCounts
  <1>. QED
    BY <1>1, <1>2

\* RemoteStarted is not counted; its Ack draws an id and gets its first copy.
LEMMA StartedCounts ==
    ASSUME Types, DownEmpty, Types', Redelivery, NEW e \in End, HandleStarted(e)
    PROVE  Redelivery'
  <1>1. /\ Reading(e, {"started"}) /\ Draw(e)
        /\ UNCHANGED <<buffer, resync, hand, disconnects, received>>
    BY DEF HandleStarted, used
  <1>2. PICK m : m = Env("ack", nextId[e], None, Incoming(e).id)
    OBVIOUS
  <1>3. m \in Envelope /\ m.id = nextId[e] /\ m.kind = "ack" /\ Incoming(e).kind = "started"
    <2>1. Incoming(e).id \in Ids /\ nextId[e] \in Ids /\ Incoming(e).kind = "started"
      BY <1>1, ReadTypes, DrawTypes
    <2>2. m \in Envelope
      BY <1>2, <2>1, EnvType DEF Kinds
    <2>. QED
      BY <1>2, <2>1, <2>2 DEF Env
  <1>4. /\ Take(e, <<m>>) /\ <<m>> \in Seq(Envelope)
        /\ todo' = IF e = Server THEN [todo EXCEPT ![Foreground] = <<m>>] ELSE todo
    BY <1>2, <1>3 DEF HandleStarted
  <1>5. NoFlush(<<m>>) /\ \A i : Copies(<<m>>, i) = IF i \in {m.id} THEN 1 ELSE 0
    <2>1. DOMAIN <<m>> = {1} /\ <<m>>[1] = m
      BY <1>3
    <2>2. \A i : Counted(m, i) <=> i \in {m.id}
      BY <1>3 DEF Counted
    <2>. QED
      BY <1>3, <2>1, <2>2, CopiesOfOne DEF NoFlush
  <1>6. /\ \A i \in Ids :
             /\ Copies(wire[Peer(e)], i) = Copies(wire'[Peer(e)], i)
             /\ Copies(wire'[e], i) = Copies(wire[e], i) + (IF e = Client THEN Copies(<<m>>, i) ELSE 0)
        /\ outgoing' = outgoing /\ linkUp /\ linkUp' = linkUp
        /\ FlushAtHead(wire'[Client]) /\ (NoFlush(wire[Client]) => NoFlush(wire'[Client]))
    <2>1. /\ \A i \in Ids :
               /\ Copies(wire[Peer(e)], i) = (IF Counted(Incoming(e), i) THEN 1 ELSE 0)
                                              + Copies(wire'[Peer(e)], i)
               /\ Copies(wire'[e], i) = Copies(wire[e], i) + (IF e = Client THEN Copies(<<m>>, i) ELSE 0)
          /\ outgoing' = outgoing /\ linkUp /\ linkUp' = linkUp
          /\ FlushAtHead(wire'[Client]) /\ (NoFlush(wire[Client]) => NoFlush(wire'[Client]))
      BY <1>1, <1>4, <1>5, ReadCounts DEF Redelivery
    <2>2. \A i \in Ids : ~Counted(Incoming(e), i)
      BY <1>3 DEF Counted
    <2>3. \A i \in Ids : Copies(wire'[Peer(e)], i) \in Nat
      BY CountPartsAfter, Ends
    <2>. QED
      BY <2>1, <2>2, <2>3
  <1>7. FlushFirst'
    BY <1>1, <1>6 DEF Redelivery, FlushFirst
  <1>8. e = Server => hand[Foreground] = Idle /\ todo[Foreground] = <<>>
    BY <1>1, ReadTypes
  <1>9. \A t \in Thread : hand[t] # Idle => todo'[t] = todo[t]
    BY <1>4, <1>8, Hands DEF Types
  <1>10. nextId'[Server] = nextId[Server] \/ nextId'[Server] = nextId[Server] + 1
    BY <1>1, DrawTypes, Ends
  <1>11. HandsApart' /\ SameHands
    BY <1>1, <1>9, <1>10, HandsKept DEF Redelivery
  <1>12. /\ m.id \in Ids /\ Fresh(e, m.id) /\ ~Fresh(e, m.id)'
         /\ \A d \in End, i \in Ids : Fresh(d, i)' => Fresh(d, i)
    BY <1>1, <1>3, <1>11, DrawIsFresh DEF Redelivery
  <1>13. ASSUME NEW i \in Ids
         PROVE  /\ Count(e, i)' = Count(e, i) + (IF i \in {m.id} THEN 1 ELSE 0)
                /\ Count(Peer(e), i)' = Count(Peer(e), i)
    <2>1. /\ Count(Client, i) = received[Server][i] + Copies(wire[Client], i)
          /\ Count(Server, i) = received[Client][i] + Copies(wire[Server], i) + Copies(outgoing, i)
                                + Copies(todo[Foreground], i) + Copies(todo[Background], i)
          /\ received[Client][i] \in Nat /\ Copies(wire[Server], i) \in Nat /\ Copies(outgoing, i) \in Nat
          /\ received[Server][i] \in Nat /\ Copies(wire[Client], i) \in Nat
          /\ Copies(todo[Foreground], i) \in Nat /\ Copies(todo[Background], i) \in Nat
      BY CountParts, Ends, Hands
    <2>2. /\ Count(Client, i)' = received[Server][i] + Copies(wire'[Client], i)
          /\ Count(Server, i)' = received[Client][i] + Copies(wire'[Server], i) + Copies(outgoing, i)
                                + Copies(todo'[Foreground], i) + Copies(todo'[Background], i)
          /\ Copies(todo'[Foreground], i) \in Nat /\ Copies(todo'[Background], i) \in Nat
      BY <1>1, <1>6, CountPartsAfter, Ends, Hands
    <2>3. CASE e = Client
      <3>1. todo' = todo /\ Peer(e) = Server
        BY <1>4, <2>3, Ends
      <3>2. /\ Copies(wire'[Server], i) = Copies(wire[Server], i)
            /\ Copies(wire'[Client], i) = Copies(wire[Client], i) + Copies(<<m>>, i)
        BY <1>6, <2>3, <3>1
      <3>3. Copies(<<m>>, i) = IF i \in {m.id} THEN 1 ELSE 0
        BY <1>5
      <3>. QED
        BY <2>1, <2>2, <2>3, <3>1, <3>2, <3>3
    <2>4. CASE e = Server
      <3>1. /\ todo'[Foreground] = <<m>> /\ todo'[Background] = todo[Background]
            /\ Peer(e) = Client /\ todo[Foreground] = <<>> /\ e # Client
        BY <1>4, <1>8, <2>4, Ends, Hands DEF Types
      <3>2. Copies(todo'[Foreground], i) = (IF i \in {m.id} THEN 1 ELSE 0) /\ Copies(todo[Foreground], i) = 0
        BY <1>3, <1>5, <3>1, CopiesOfOne
      <3>3. Copies(wire'[Server], i) = Copies(wire[Server], i) /\ Copies(wire'[Client], i) = Copies(wire[Client], i)
        BY <1>6, <2>1, <2>4, <3>1
      <3>. QED
        BY <2>1, <2>2, <2>4, <3>1, <3>2, <3>3
    <2>. QED
      BY <2>3, <2>4, Ends DEF Client, Server
  <1>14. \A d \in End : Pending(d)' + 0 <= Pending(d)
    BY <1>1, <1>6, Ends DEF Pending, Flushing
  <1>15. Effect(e, {m.id}, FALSE)
    <2>1. ASSUME NEW i \in Ids
          PROVE  /\ Count(e, i)' <= Count(e, i) + (IF i \in {m.id} THEN 1 ELSE 0) + 0
                 /\ Copies(buffer[e], i)' <= Copies(buffer[e], i) + IF i \in {m.id} THEN 1 ELSE 0
      <3>1. Copies(buffer[e], i)' = Copies(buffer[e], i)
        BY <1>1
      <3>. QED
        BY <1>13, <3>1, CountType
    <2>2. {m.id} \in SUBSET Ids /\ \A i \in {m.id} : Fresh(e, i) /\ ~Fresh(e, i)'
      BY <1>12
    <2>. QED
      BY <1>1, <1>12, <1>14, <2>1, <2>2, Renewed
  <1>16. Effect(Peer(e), {}, FALSE)
    <2>1. ASSUME NEW i \in Ids
          PROVE  /\ Count(Peer(e), i)' <= Count(Peer(e), i) + (IF i \in {} THEN 1 ELSE 0) + 0
                 /\ Copies(buffer[Peer(e)], i)' <= Copies(buffer[Peer(e)], i) + IF i \in {} THEN 1 ELSE 0
      <3>1. Copies(buffer[Peer(e)], i)' = Copies(buffer[Peer(e)], i)
        BY <1>1
      <3>. QED
        BY <1>13, <3>1, CountType, Ends
    <2>2. {} \in SUBSET Ids /\ \A i \in {} : Fresh(Peer(e), i) /\ ~Fresh(Peer(e), i)'
      OBVIOUS
    <2>. QED
      BY <1>1, <1>12, <1>14, <2>1, <2>2, Renewed, Ends
  <1>17. {} \in SUBSET Ids /\ FALSE \in BOOLEAN /\ {m.id} \in SUBSET Ids
    BY <1>12
  <1>18. Peer(Client) = Server /\ Peer(Server) = Client /\ (e = Client \/ e = Server)
    BY Ends DEF Client, Server
  <1>. QED
    BY <1>7, <1>11, <1>15, <1>16, <1>17, <1>18, Assembled

\* The flush is read: the server is to send its buffer again.
LEMMA FlushCounts == ASSUME Types, DownEmpty, Types', Redelivery, HandleFlush PROVE Redelivery'
  <1>1. /\ Reading(Server, {"flush"}) /\ Take(Server, <<>>)
        /\ buffer' = [buffer EXCEPT ![Server] = Kept(Server)]
        /\ UNCHANGED <<nextId, resync, todo, disconnects, received>>
    BY DEF HandleFlush, used
  <1>2. PICK m \in Envelope : m = Env("ack", 0, None, Incoming(Server).id)
    <2>1. Incoming(Server).id \in Ids
      BY <1>1, ReadTypes, Ends
    <2>. QED
      BY <2>1, EnvType, ZeroIsId DEF Kinds
  <1>3. hand' = [hand EXCEPT ![Foreground] = [at |-> "lock", env |-> m]]
    BY <1>2 DEF HandleFlush
  <1>4. /\ hand[Foreground] = Idle /\ todo[Foreground] = <<>> /\ Incoming(Server).kind = "flush"
        /\ wire[Client] # <<>> /\ wire[Client] \in Seq(Envelope) /\ Incoming(Server) = Head(wire[Client])
    BY <1>1, ReadTypes, Ends
  <1>5. hand'[Foreground].at = "lock" /\ hand'[Background] = hand[Background]
    BY <1>3, Hands DEF Types
  <1>6. NoFlush(<<>>) /\ <<>> \in Seq(Envelope) /\ FlushFirst
    BY EmptySeq DEF NoFlush, Redelivery
  <1>7. /\ \A i \in Ids :
             /\ Copies(wire[Client], i) = (IF Counted(Incoming(Server), i) THEN 1 ELSE 0)
                                          + Copies(wire'[Client], i)
             /\ Copies(wire'[Server], i) = Copies(wire[Server], i) + 0
        /\ outgoing' = outgoing /\ linkUp /\ linkUp' = linkUp
        /\ FlushAtHead(wire'[Client]) /\ NoFlush(wire'[Client])
    <2>1. Server \in End /\ Peer(Server) = Client /\ Server # Client
      BY Ends
    <2>2. /\ \A i \in Ids :
               /\ Copies(wire[Peer(Server)], i) = (IF Counted(Incoming(Server), i) THEN 1 ELSE 0)
                                                  + Copies(wire'[Peer(Server)], i)
               /\ Copies(wire'[Server], i) = Copies(wire[Server], i)
                                             + (IF Server = Client THEN Copies(<<>>, i) ELSE 0)
          /\ outgoing' = outgoing /\ linkUp /\ linkUp' = linkUp
          /\ FlushAtHead(wire'[Client]) /\ (Server = Server => NoFlush(wire'[Client]))
      BY <1>1, <1>6, <2>1, ReadCounts
    <2>. QED
      BY <2>1, <2>2
  <1>8. ~NoFlush(wire[Client])
    BY <1>4, Pieces DEF NoFlush
  <1>9. /\ NoFlush(Kept(Server)) /\ \A i \in Ids : Copies(Kept(Server), i) <= Copies(buffer[Server], i)
        /\ buffer'[Server] = Kept(Server) /\ buffer'[Client] = buffer[Client]
    BY <1>1, KeptCopies, Ends DEF Types
  <1>10. FlushFirst'
    <2>1. \A d \in End : d = Client \/ d = Server
      BY Ends DEF Client, Server
    <2>. QED
      BY <1>7, <1>9, <2>1, Ends DEF FlushFirst, Redelivery
  <1>11. \A t \in Thread : DrawnBy(t)' => DrawnBy(t) /\ hand'[t] = hand[t] /\ t = Background
    BY <1>5, Hands DEF DrawnBy
  <1>12. HandsApart'
    <2>1. HandsApart
      BY DEF Redelivery
    <2>2. \A t \in Thread : DrawnBy(t)' => /\ hand'[t].env.id < nextId'[Server]
                                           /\ hand'[t].env.kind \notin {"flush", "started"}
      BY <1>1, <1>11, <2>1 DEF HandsApart
    <2>3. \A t \in Thread : hand'[t].at \in {"stamp", "buffer", "lock"} => todo'[t] = <<>>
      BY <1>1, <1>4, <1>5, <2>1, Hands DEF HandsApart
    <2>4. ~DrawnBy(Foreground)' /\ hand'[Background].at \notin {"lock", "flush"}
      BY <1>5, <2>1, Hands DEF HandsApart, DrawnBy
    <2>. QED
      BY <2>2, <2>3, <2>4 DEF HandsApart
  <1>13. \A e \in End, i \in Ids : Fresh(e, i)' => Fresh(e, i)
    BY <1>1, <1>11, NothingDrawn DEF Redelivery, SameHands
  <1>14. ASSUME NEW i \in Ids
         PROVE Count(Server, i)' = Count(Server, i) /\ Count(Client, i)' = Count(Client, i)
    <2>1. Copies(wire'[Client], i) = Copies(wire[Client], i) /\ Copies(wire'[Server], i) = Copies(wire[Server], i)
      <3>1. ~Counted(Incoming(Server), i)
        BY <1>4 DEF Counted
      <3>2. Copies(wire'[Client], i) \in Nat /\ Copies(wire[Server], i) \in Nat
        BY CountParts, CountPartsAfter, Ends
      <3>. QED
        BY <1>7, <3>1, <3>2
    <2>. QED
      BY <1>1, <1>7, <2>1, CountParts, CountPartsAfter, Ends
  <1>15. Pending(Client)' + 0 <= Pending(Client) /\ Pending(Server)' + 0 <= Pending(Server)
    <2>1. Pending(Client)' = Pending(Client) /\ Pending(Client) \in Nat
      BY <1>1, <1>7, CountType, Ends, ZeroIsId DEF Pending
    <2>2. Pending(Server)' = 1
      BY <1>5, <1>7, Ends DEF Pending, Flushing
    <2>3. Pending(Server) = 1
      BY <1>4, <1>8, Ends, Hands DEF Pending, Flushing
    <2>. QED
      BY <2>1, <2>2, <2>3
  <1>16. ASSUME NEW e \in End PROVE Effect(e, {}, FALSE)
    <2>1. ASSUME NEW i \in Ids
          PROVE  /\ Count(e, i)' <= Count(e, i) + (IF i \in {} THEN 1 ELSE 0) + 0
                 /\ Copies(buffer[e], i)' <= Copies(buffer[e], i) + IF i \in {} THEN 1 ELSE 0
      <3>1. Count(e, i)' = Count(e, i)
        BY <1>14, Ends DEF Client, Server
      <3>2. Copies(buffer[e], i)' <= Copies(buffer[e], i)
        BY <1>9, CountType, Ends DEF Client, Server
      <3>. QED
        BY <3>1, <3>2, CountType
    <2>2. {} \in SUBSET Ids /\ \A i \in {} : Fresh(e, i) /\ ~Fresh(e, i)'
      OBVIOUS
    <2>3. Pending(e)' + 0 <= Pending(e)
      BY <1>15, Ends DEF Client, Server
    <2>. QED
      BY <1>1, <1>13, <2>1, <2>2, <2>3, Renewed
  <1>17. {} \in SUBSET Ids /\ FALSE \in BOOLEAN
    OBVIOUS
  <1>. QED
    BY <1>10, <1>12, <1>16, <1>17, Assembled, Ends

\* The foreground leaves the lock with the whole buffer to queue, or answers the
\* flush: what one thread of the server has to do changes, its hand is empty of ids.
LEMMA ForegroundCounts ==
    ASSUME Types, DownEmpty, Types', Redelivery, Resend \/ AckFlush
    PROVE  Redelivery'
  <1>1. /\ UNCHANGED <<buffer, resync, linkUp, outgoing, wire, disconnects, received>>
        /\ ~DrawnBy(Foreground) /\ todo[Foreground] = <<>>
    <2>1. CASE Resend
      BY <2>1, Hands DEF Resend, local, network, used, DrawnBy, Redelivery, HandsApart
    <2>2. CASE AckFlush
      BY <2>2 DEF AckFlush, network, used, DrawnBy
    <2>. QED
      BY <2>1, <2>2
  <1>2. /\ hand'[Foreground].at \in {"idle", "flush"} /\ hand'[Background] = hand[Background]
        /\ todo'[Background] = todo[Background]
    <2>1. CASE Resend
      <3>1. hand[Foreground] \in Holding
        BY <2>1, HandTypes, Hands DEF Resend
      <3>2. [hand[Foreground] EXCEPT !.at = "flush"].at = "flush"
        BY <3>1 DEF Holding
      <3>. QED
        BY <2>1, <3>2, Hands DEF Resend, Types
    <2>2. CASE AckFlush
      BY <2>2, Hands DEF AckFlush, Types
    <2>. QED
      BY <2>1, <2>2
  <1>3. \A t \in Thread : DrawnBy(t)' => DrawnBy(t) /\ hand'[t] = hand[t] /\ t = Background
    BY <1>2, Hands DEF DrawnBy
  <1>4. nextId'[Server] = nextId[Server] \/ nextId'[Server] = nextId[Server] + 1
    BY DrawTypes, Ends DEF Resend, AckFlush, local
  <1>5. HandsApart' /\ SameHands
    <2>1. HandsApart
      BY DEF Redelivery
    <2>2. ASSUME NEW t \in Thread, DrawnBy(t)'
          PROVE  hand'[t].env.id < nextId'[Server] /\ hand'[t].env.kind \notin {"flush", "started"}
      <3>1. DrawnBy(t) /\ hand'[t] = hand[t]
        BY <1>3, <2>2
      <3>2. hand[t].env \in Envelope
        BY <3>1, HandTypes DEF DrawnBy
      <3>3. hand[t].env.id \in Ids
        BY <3>2, EnvelopeParts
      <3>4. hand[t].env.id \in Nat /\ nextId[Server] \in Nat
        BY <3>3, NoneIsNoId, IdCounters, Ends
      <3>5. hand[t].env.id < nextId[Server] /\ hand[t].env.kind \notin {"flush", "started"}
        BY <2>1, <3>1 DEF HandsApart
      <3>. QED
        BY <1>4, <3>1, <3>4, <3>5
    <2>3. \A t \in Thread : hand'[t].at \in {"stamp", "buffer", "lock"} => todo'[t] = <<>>
      BY <1>2, <2>1, Hands DEF HandsApart
    <2>4. ~DrawnBy(Foreground)' /\ hand'[Background].at \notin {"lock", "flush"}
      BY <1>2, <2>1 DEF HandsApart, DrawnBy
    <2>5. SameHands
      BY <1>3 DEF SameHands
    <2>. QED
      BY <2>2, <2>3, <2>4, <2>5 DEF HandsApart
  <1>6. FlushFirst'
    BY <1>1 DEF Redelivery, FlushFirst
  <1>7. ASSUME NEW i \in Ids
        PROVE  /\ Count(Server, i)' = Count(Server, i) + Copies(todo'[Foreground], i)
               /\ Copies(todo'[Foreground], i) \in Nat /\ Count(Server, i) \in Nat
    <2>1. Copies(todo[Foreground], i) = 0
      BY <1>1, FS_EmptySet DEF Copies
    <2>2. /\ Count(Server, i) = received[Client][i] + Copies(wire[Server], i) + Copies(outgoing, i)
                                + Copies(todo[Foreground], i) + Copies(todo[Background], i)
          /\ received[Client][i] \in Nat /\ Copies(wire[Server], i) \in Nat /\ Copies(outgoing, i) \in Nat
          /\ Copies(todo[Background], i) \in Nat
      BY CountParts, Ends, Hands
    <2>3. /\ Count(Server, i)' = received[Client][i] + Copies(wire[Server], i) + Copies(outgoing, i)
                                + Copies(todo'[Foreground], i) + Copies(todo[Background], i)
          /\ Copies(todo'[Foreground], i) \in Nat
      BY <1>1, <1>2, CountPartsAfter, Hands
    <2>. QED
      BY <2>1, <2>2, <2>3
  <1>8. Path(Client)' = Path(Client) /\ Pending(Client)' = Pending(Client)
    BY <1>1, Ends DEF Path, Pending
  <1>9. CASE Resend
    <2>1. /\ nextId' = nextId /\ hand[Foreground].at = "lock" /\ hand'[Foreground].at # "lock"
          /\ todo'[Foreground] = buffer[Server]
      BY <1>2, <1>9, Hands DEF Resend, local, Types
    <2>2. \A e \in End, i \in Ids : Fresh(e, i)' => Fresh(e, i)
      BY <1>5, <2>1, NothingDrawn DEF Redelivery
    <2>3. Effect(Client, {}, FALSE)
      BY <1>1, <1>8, <2>2, Untouched, Ends
    <2>4. Effect(Server, {}, TRUE)
      <3>1. ASSUME NEW i \in Ids
            PROVE  /\ Count(Server, i)' <= Count(Server, i) + (IF i \in {} THEN 1 ELSE 0)
                                           + Copies(buffer[Server], i)
                   /\ Copies(buffer[Server], i)' <= Copies(buffer[Server], i) + IF i \in {} THEN 1 ELSE 0
        <4>1. Copies(todo'[Foreground], i) = Copies(buffer[Server], i)
          BY <2>1
        <4>2. Copies(buffer[Server], i)' = Copies(buffer[Server], i)
          BY <1>1
        <4>. QED
          BY <1>7, <4>1, <4>2
      <3>2. Pending(Server)' + 1 <= Pending(Server)
        BY <1>1, <2>1, Ends DEF Pending, Flushing
      <3>3. {} \in SUBSET Ids /\ \A i \in {} : Fresh(Server, i) /\ ~Fresh(Server, i)'
        OBVIOUS
      <3>4. \A i \in Ids : Fresh(Server, i)' => Fresh(Server, i)
        BY <2>2, Ends
      <3>. QED
        BY <1>1, <3>1, <3>2, <3>3, <3>4, Renewed, Ends
    <2>5. {} \in SUBSET Ids
      OBVIOUS
    <2>. QED
      BY <1>5, <1>6, <2>3, <2>4, <2>5, Assembled
  <1>10. CASE AckFlush
    <2>1. Draw(Server) /\ hand[Foreground].at = "flush" /\ hand'[Foreground].at # "lock"
      BY <1>10, Hands DEF AckFlush, Types
    <2>2. PICK m : m = [hand[Foreground].env EXCEPT !.id = nextId[Server]]
      OBVIOUS
    <2>3. hand[Foreground].env \in Envelope /\ nextId[Server] \in Ids
      BY <2>1, HandTypes, Hands, DrawTypes, Ends
    <2>4. m \in Envelope /\ m.id = nextId[Server]
      BY <2>2, <2>3 DEF Envelope
    <2>5. todo'[Foreground] = <<m>>
      BY <1>10, <2>2, Hands DEF AckFlush, Types
    <2>6. /\ m.id \in Ids /\ Fresh(Server, m.id) /\ ~Fresh(Server, m.id)'
          /\ \A e \in End, i \in Ids : Fresh(e, i)' => Fresh(e, i)
      BY <1>5, <2>1, <2>4, DrawIsFresh, Ends DEF Redelivery
    <2>7. Effect(Client, {}, FALSE)
      BY <1>1, <1>8, <2>6, Untouched, Ends
    <2>8. Effect(Server, {m.id}, FALSE)
      <3>1. ASSUME NEW i \in Ids
            PROVE  /\ Count(Server, i)' <= Count(Server, i) + (IF i \in {m.id} THEN 1 ELSE 0) + 0
                   /\ Copies(buffer[Server], i)' <= Copies(buffer[Server], i) + IF i \in {m.id} THEN 1 ELSE 0
        <4>1. Copies(todo'[Foreground], i) <= IF i \in {m.id} THEN 1 ELSE 0
          BY <2>4, <2>5, CopiesOfOne DEF Counted
        <4>2. Copies(buffer[Server], i)' = Copies(buffer[Server], i) /\ Copies(buffer[Server], i) \in Nat
          BY <1>1, CountType, Ends
        <4>. QED
          BY <1>7, <4>1, <4>2
      <3>2. Pending(Server)' + 0 <= Pending(Server)
        BY <1>1, <2>1, Ends DEF Pending, Flushing
      <3>3. {m.id} \in SUBSET Ids /\ \A i \in {m.id} : Fresh(Server, i) /\ ~Fresh(Server, i)'
        BY <2>6
      <3>. QED
        BY <1>1, <2>6, <3>1, <3>2, <3>3, Renewed, Ends
    <2>9. {} \in SUBSET Ids /\ {m.id} \in SUBSET Ids
      BY <2>6
    <2>. QED
      BY <1>5, <1>6, <2>7, <2>8, <2>9, Assembled
  <1>. QED
    BY <1>9, <1>10

\* The first poll of a message task: RemoteStarted is not counted.
LEMMA AnnouncedCounts ==
    ASSUME Types, DownEmpty, Types', Redelivery, NEW e \in End, StartHandling(e)
    PROVE  Redelivery'
  <1>1. PICK m \in Envelope : m = Env("started", 0, None, None)
    BY EnvType, ZeroIsId DEF Kinds
  <1>2. m.kind = "started" /\ <<m>> \in Seq(Envelope)
    BY <1>1 DEF Env
  <1>3. /\ UNCHANGED <<nextId, buffer, resync, hand, linkUp, outgoing, disconnects, received>>
        /\ \/ e = Client /\ wire' = Written(<<m>>, wire) /\ UNCHANGED todo
           \/ /\ e = Server /\ hand[Foreground] = Idle /\ todo[Foreground] = <<>>
              /\ todo' = [todo EXCEPT ![Foreground] = <<m>>] /\ UNCHANGED wire
    BY <1>1 DEF StartHandling, used, Free
  <1>4. \A s \in Seq(Envelope), i \in Ids : Copies(s \o <<m>>, i) = Copies(s, i) /\ Copies(<<m>>, i) = 0
    <2>1. ASSUME NEW s \in Seq(Envelope), NEW i \in Ids
          PROVE  Copies(s \o <<m>>, i) = Copies(s, i) /\ Copies(<<m>>, i) = 0
      <3>1. Copies(<<m>>, i) = 0
        BY <1>2, CopiesOfOne DEF Counted
      <3>2. Copies(s \o <<m>>, i) = Copies(s, i) + Copies(<<m>>, i) /\ Copies(s, i) \in Nat
        BY <1>2, CopiesJoined, CopiesType
      <3>. QED
        BY <3>1, <3>2
    <2>. QED
      BY <2>1
  <1>5. CASE e = Client /\ wire' = Written(<<m>>, wire) /\ UNCHANGED todo
    <2>1. wire[Client] \in Seq(Envelope) /\ FlushAtHead(wire[Client])
      BY Ends DEF Types, Redelivery, FlushFirst
    <2>2. /\ wire'[Server] = wire[Server]
          /\ wire'[Client] = wire[Client] \/ wire'[Client] = wire[Client] \o <<m>>
      <3>1. wire \in [End -> Seq(Envelope)] /\ (linkUp \/ \A d \in End : wire[d] = <<>>)
        BY DEF Types, DownEmpty
      <3>. QED
        BY <1>2, <1>5, <3>1, WrittenType
    <2>3. /\ FlushAtHead(wire[Client] \o <<m>>)
          /\ NoFlush(wire[Client]) => NoFlush(wire[Client] \o <<m>>)
      BY <1>2, <2>1, Appended
    <2>4. ASSUME NEW i \in Ids PROVE Copies(wire'[Client], i) = Copies(wire[Client], i)
      BY <1>4, <2>1, <2>2
    <2>5. FlushFirst'
      BY <1>3, <2>1, <2>2, <2>3 DEF FlushFirst, Redelivery
    <2>6. ASSUME NEW i \in Ids
          PROVE Count(Server, i)' = Count(Server, i) /\ Count(Client, i)' = Count(Client, i)
      BY <1>3, <1>5, <2>2, <2>4, CountParts, CountPartsAfter, Ends
    <2>7. \A d \in End, i \in Ids : /\ Count(d, i)' <= Count(d, i)
                                    /\ Copies(buffer[d], i)' <= Copies(buffer[d], i)
      BY <1>3, <2>6, CountType, Ends DEF Client, Server
    <2>8. NoFlush(wire[Client]) => NoFlush(wire'[Client])
      BY <2>2, <2>3
    <2>. QED
      BY <1>3, <1>5, <2>5, <2>7, <2>8, OnlyMoves
  <1>6. CASE /\ e = Server /\ hand[Foreground] = Idle /\ todo[Foreground] = <<>>
             /\ todo' = [todo EXCEPT ![Foreground] = <<m>>] /\ UNCHANGED wire
    <2>1. todo'[Foreground] = <<m>> /\ todo'[Background] = todo[Background]
      BY <1>6, Hands DEF Types
    <2>2. ASSUME NEW i \in Ids
          PROVE Count(Server, i)' = Count(Server, i) /\ Count(Client, i)' = Count(Client, i)
      <3>1. Copies(todo[Foreground], i) = 0
        BY <1>6, FS_EmptySet DEF Copies
      <3>2. Copies(todo'[Foreground], i) = 0
        BY <1>2, <1>4, <2>1
      <3>3. Copies(todo'[Background], i) = Copies(todo[Background], i)
        BY <2>1
      <3>. QED
        BY <1>3, <1>6, <3>1, <3>2, <3>3, CountParts, CountPartsAfter, Ends
    <2>3. \A d \in End, i \in Ids : /\ Count(d, i)' <= Count(d, i)
                                    /\ Copies(buffer[d], i)' <= Copies(buffer[d], i)
      BY <1>3, <2>2, CountType, Ends DEF Client, Server
    <2>4. \A t \in Thread : hand[t] # Idle /\ hand[t].at # "flush" => todo'[t] = todo[t]
      BY <1>6, <2>1, Hands
    <2>5. FlushFirst'
      BY <1>3, <1>6 DEF FlushFirst, Redelivery
    <2>. QED
      BY <1>3, <1>6, <2>3, <2>4, <2>5, OnlyMoves
  <1>. QED
    BY <1>3, <1>5, <1>6

\* A connection is lost with what was on it: both ends are to send again.
LEMMA LostCounts == ASSUME Types, DownEmpty, Types', Redelivery, Disconnect PROVE Redelivery'
  <1>1. /\ linkUp /\ linkUp' = FALSE /\ wire' = [e \in End |-> <<>>] /\ disconnects' = disconnects + 1
        /\ UNCHANGED <<nextId, buffer, hand, todo, outgoing, received>>
    BY DEF Disconnect, threads
  <1>2. \A e \in End : wire'[e] = <<>>
    BY <1>1
  <1>3. \A s : s = <<>> => NoFlush(s) /\ FlushAtHead(s) /\ \A i \in Ids : Copies(s, i) = 0
    BY FS_EmptySet DEF NoFlush, FlushAtHead, Copies
  <1>4. FlushFirst'
    BY <1>1, <1>2, <1>3, Ends DEF FlushFirst, Redelivery
  <1>5. HandsApart' /\ SameHands
    BY <1>1, HandsKept DEF Redelivery
  <1>6. \A e \in End, i \in Ids : Fresh(e, i)' => Fresh(e, i)
    BY <1>1, <1>5, NothingDrawn DEF Redelivery
  <1>7. ASSUME NEW i \in Ids
        PROVE Count(Server, i)' <= Count(Server, i) /\ Count(Client, i)' <= Count(Client, i)
    <2>1. Copies(wire'[Client], i) = 0 /\ Copies(wire'[Server], i) = 0
      BY <1>2, <1>3, Ends
    <2>2. /\ Count(Client, i) = received[Server][i] + Copies(wire[Client], i)
          /\ Count(Server, i) = received[Client][i] + Copies(wire[Server], i) + Copies(outgoing, i)
                                + Copies(todo[Foreground], i) + Copies(todo[Background], i)
          /\ received[Client][i] \in Nat /\ Copies(wire[Server], i) \in Nat /\ Copies(outgoing, i) \in Nat
          /\ received[Server][i] \in Nat /\ Copies(wire[Client], i) \in Nat
          /\ Copies(todo[Foreground], i) \in Nat /\ Copies(todo[Background], i) \in Nat
      BY CountParts, Ends, Hands
    <2>3. /\ Count(Client, i)' = received[Server][i] + Copies(wire'[Client], i)
          /\ Count(Server, i)' = received[Client][i] + Copies(wire'[Server], i) + Copies(outgoing, i)
                                + Copies(todo[Foreground], i) + Copies(todo[Background], i)
      BY <1>1, CountPartsAfter
    <2>. QED
      BY <2>1, <2>2, <2>3
  <1>8. disconnects \in Nat
    BY DEF Types
  <1>9. ASSUME NEW e \in End PROVE Effect(e, {}, FALSE)
    <2>1. ASSUME NEW i \in Ids
          PROVE  /\ Count(e, i)' <= Count(e, i) + (IF i \in {} THEN 1 ELSE 0) + 0
                 /\ Copies(buffer[e], i)' <= Copies(buffer[e], i) + IF i \in {} THEN 1 ELSE 0
      <3>1. Count(e, i)' <= Count(e, i)
        BY <1>7, Ends DEF Client, Server
      <3>2. Copies(buffer[e], i)' = Copies(buffer[e], i)
        BY <1>1
      <3>. QED
        BY <3>1, <3>2, CountType, CountTypeAfter
    <2>2. Pending(e)' + 0 + disconnects <= Pending(e) + disconnects'
      <3>1. Pending(e) \in Nat /\ Pending(e)' \in Nat
        BY CountType, CountTypeAfter, ZeroIsId
      <3>2. Pending(e)' <= Pending(e) + 1
        BY <1>1, Ends DEF Pending
      <3>. QED
        BY <1>1, <1>8, <3>1, <3>2
    <2>. QED
      BY <1>6, <2>1, <2>2 DEF Effect
  <1>10. {} \in SUBSET Ids /\ FALSE \in BOOLEAN
    OBVIOUS
  <1>. QED
    BY <1>4, <1>5, <1>9, <1>10, Assembled, Ends

\* A new connection carries the flush, which is not counted.
LEMMA ReconnectCounts == ASSUME Types, DownEmpty, Types', Redelivery, Reconnect PROVE Redelivery'
  <1>1. /\ ~linkUp /\ linkUp' = TRUE /\ Draw(Client)
        /\ UNCHANGED <<buffer, hand, todo, outgoing, received, disconnects>>
    BY DEF Reconnect, threads, used
  <1>2. PICK m \in Envelope : m = Env("flush", nextId[Client], maxReceived[Client], None)
    <2>1. nextId[Client] \in Ids /\ maxReceived[Client] \in Ids
      BY <1>1, DrawTypes, Ends DEF Types
    <2>. QED
      BY <2>1, EnvType DEF Kinds
  <1>3. m.kind = "flush" /\ wire' = [wire EXCEPT ![Client] = <<m>>]
    BY <1>2 DEF Reconnect, Env
  <1>4. /\ wire'[Client] = <<m>> /\ wire'[Server] = wire[Server] /\ wire[Client] = <<>>
        /\ wire[Server] = <<>>
    BY <1>1, <1>3, Ends DEF Types, DownEmpty
  <1>5. FlushFirst'
    <2>1. DOMAIN <<m>> = {1}
      OBVIOUS
    <2>2. FlushAtHead(wire'[Client])
      BY <1>4, <2>1 DEF FlushAtHead
    <2>. QED
      BY <1>1, <2>2 DEF FlushFirst, Redelivery
  <1>6. nextId'[Server] = nextId[Server]
    BY <1>1, DrawTypes, Ends
  <1>7. HandsApart' /\ SameHands
    BY <1>1, <1>6, HandsKept DEF Redelivery
  <1>8. PICK id : id = nextId[Client]
    OBVIOUS
  <1>9. \A e \in End, i \in Ids : Fresh(e, i)' => Fresh(e, i)
    BY <1>1, <1>7, <1>8, DrawIsFresh, Ends DEF Redelivery
  <1>10. ASSUME NEW i \in Ids
         PROVE Count(Server, i)' = Count(Server, i) /\ Count(Client, i)' = Count(Client, i)
    <2>1. Copies(wire[Client], i) = 0
      BY <1>4, FS_EmptySet DEF Copies
    <2>2. Copies(wire'[Client], i) = 0
      BY <1>3, <1>4, CopiesOfOne DEF Counted
    <2>3. wire'[Server] = wire[Server]
      BY <1>4
    <2>. QED
      BY <1>1, <2>1, <2>2, <2>3, CountParts, CountPartsAfter, Ends
  <1>11. ASSUME NEW e \in End PROVE Effect(e, {}, FALSE)
    <2>1. ASSUME NEW i \in Ids
          PROVE  /\ Count(e, i)' <= Count(e, i) + (IF i \in {} THEN 1 ELSE 0) + 0
                 /\ Copies(buffer[e], i)' <= Copies(buffer[e], i) + IF i \in {} THEN 1 ELSE 0
      <3>1. Count(e, i)' = Count(e, i)
        BY <1>10, Ends DEF Client, Server
      <3>2. Copies(buffer[e], i)' = Copies(buffer[e], i)
        BY <1>1
      <3>. QED
        BY <3>1, <3>2, CountType
    <2>2. Pending(e)' + 0 <= Pending(e)
      BY <1>1 DEF Pending
    <2>3. {} \in SUBSET Ids /\ \A i \in {} : Fresh(e, i) /\ ~Fresh(e, i)'
      OBVIOUS
    <2>. QED
      BY <1>1, <1>9, <2>1, <2>2, <2>3, Renewed
  <1>12. {} \in SUBSET Ids /\ FALSE \in BOOLEAN
    OBVIOUS
  <1>. QED
    BY <1>5, <1>7, <1>11, <1>12, Assembled, Ends

LEMMA ServerTakesUp ==
    ASSUME Types, DownEmpty, Types', Redelivery, NEW m \in Envelope, Sends(Server, m)
    PROVE  Redelivery'
  <1>1. /\ Draw(Server) /\ ServerSends(m) /\ UNCHANGED <<todo, linkUp, outgoing, overtaken>>
        /\ UNCHANGED <<maxReceived, resync, disconnects, received, ready, starting>>
    BY Ends DEF Sends
  <1>2. /\ m.kind \notin {"flush", "started"} /\ m.id = nextId[Server]
        /\ hand[Foreground] = Idle /\ todo[Foreground] = <<>>
        /\ hand' = [hand EXCEPT ![Foreground] = [at |-> "buffer", env |-> m]]
        /\ UNCHANGED <<buffer, sent, wire>>
    BY <1>1 DEF ServerSends
  <1>. QED
    BY <1>1, <1>2, TakesUp, Hands

LEMMA DrawIdCounts == ASSUME Types, DownEmpty, Types', Redelivery, DrawId PROVE Redelivery'
  <1>1. /\ Draw(Server) /\ hand[Background] = Idle /\ todo[Background] = <<>>
        /\ UNCHANGED <<buffer, wire, outgoing, todo, linkUp, resync, received, disconnects>>
    BY DEF DrawId, Free, network
  <1>2. PICK m \in Envelope : m = Env("message", nextId[Server], None, None)
    <2>1. nextId[Server] \in Ids
      BY <1>1, DrawTypes, Ends
    <2>. QED
      BY <2>1, EnvType DEF Kinds
  <1>3. m.id = nextId[Server] /\ m.kind = "message"
    BY <1>2 DEF Env
  <1>4. hand' = [hand EXCEPT ![Background] = [at |-> "stamp", env |-> m]]
    BY <1>2 DEF DrawId
  <1>. QED
    BY <1>1, <1>3, <1>4, TakesUp, Hands

LEMMA RedeliveryStep ==
    ASSUME Types, DownEmpty, Types', Redelivery, [Next]_vars
    PROVE  Redelivery'
  <1>1. ASSUME NEW e \in End, Send(e) \/ Request(e) \/ Reply(e) PROVE Redelivery'
    <2>1. PICK m \in Envelope : Sends(e, m)
      BY <1>1, BufferedSends
    <2>. QED
      BY <2>1, ClientSendCounts, ServerTakesUp, Ends DEF Client, Server
  <1>2. CASE DrawId
    BY <1>2, DrawIdCounts
  <1>3. CASE Stamp
    BY <1>3, StampCounts
  <1>4. ASSUME NEW t \in Thread, Buffer(t) \/ Queue(t) PROVE Redelivery'
    BY <1>4, BufferCounts, QueueCounts
  <1>5. ASSUME NEW e \in End,
               StartHandling(e) \/ HandleStarted(e) \/ HandleResponse(e) \/ HandleMessage(e)
        PROVE  Redelivery'
    BY <1>5, AnnouncedCounts, StartedCounts, HandledCounts
  <1>6. CASE HandleFlush
    BY <1>6, FlushCounts
  <1>7. CASE Resend \/ AckFlush
    BY <1>7, ForegroundCounts
  <1>8. CASE Transmit
    BY <1>8, TransmitCounts
  <1>9. CASE Disconnect
    BY <1>9, LostCounts
  <1>10. CASE Reconnect
    BY <1>10, ReconnectCounts
  <1>11. CASE UNCHANGED vars
    <2>1. /\ UNCHANGED <<nextId, buffer, resync, hand, todo, linkUp, outgoing, wire, disconnects, received>>
      BY <1>11 DEF vars, local, threads, network, used
    <2>2. FlushFirst'
      BY <2>1 DEF Redelivery, FlushFirst
    <2>3. \A e \in End, i \in Ids : /\ Count(e, i)' <= Count(e, i)
                                    /\ Copies(buffer[e], i)' <= Copies(buffer[e], i)
      BY <2>1, CountType DEF Count, Path, ToDo
    <2>. QED
      BY <2>1, <2>2, <2>3, OnlyMoves
  <1>. QED
    BY <1>1, <1>2, <1>3, <1>4, <1>5, <1>6, <1>7, <1>8, <1>9, <1>10, <1>11 DEF Next

LEMMA RedeliveryInit == ASSUME Init, Types PROVE Redelivery
  <1>1. /\ wire[Client] = <<>> /\ wire[Server] = <<>> /\ outgoing = <<>> /\ linkUp /\ resync = None
        /\ \A e \in End : buffer[e] = <<>>
        /\ \A t \in Thread : hand[t] = Idle /\ todo[t] = <<>>
    BY Ends DEF Init
  <1>2. \A s : s = <<>> => NoFlush(s) /\ FlushAtHead(s) /\ \A i \in Ids : Copies(s, i) = 0
    BY FS_EmptySet DEF NoFlush, FlushAtHead, Copies
  <1>3. FlushFirst
    BY <1>1, <1>2 DEF FlushFirst
  <1>4. HandsApart
    BY <1>1, Hands DEF HandsApart, DrawnBy
  <1>5. ASSUME NEW e \in End, NEW i \in Ids PROVE Count(e, i) = 0 /\ Copies(buffer[e], i) = 0
    <2>1. Copies(buffer[e], i) = 0 /\ Copies(wire[Client], i) = 0 /\ Copies(wire[Server], i) = 0
          /\ Copies(outgoing, i) = 0 /\ Copies(todo[Foreground], i) = 0 /\ Copies(todo[Background], i) = 0
      BY <1>1, <1>2, Hands
    <2>2. received[Client][i] = 0 /\ received[Server][i] = 0
      BY Ends DEF Init
    <2>. QED
      BY <2>1, <2>2, CountParts, Ends DEF Client, Server
  <1>6. disconnects = 0 /\ \A e \in End : Pending(e) = 0
    <2>1. hand[Foreground].at # "lock" /\ ~Flushing
      BY <1>1, <1>2, Hands DEF Flushing
    <2>. QED
      BY <1>1, <2>1, Ends DEF Pending, Init
  <1>. QED
    BY <1>3, <1>4, <1>5, <1>6 DEF Redelivery, Bounded

LEMMA RedeliveryInvariance == Spec => [](Types /\ DownEmpty /\ Redelivery)
  <1>1. Init => Types /\ DownEmpty /\ Redelivery
    BY TypesInit, RedeliveryInit
  <1>2. Types /\ DownEmpty /\ Redelivery /\ [Next]_vars => (Types /\ DownEmpty /\ Redelivery)'
    BY TypesStep, RedeliveryStep
  <1>. QED
    BY <1>1, <1>2, PTL DEF Spec

\* Messages, queues, wires, hands and histories keep their types (crates/remote,
\* ChannelClient), whatever the bounds on what is sent.
THEOREM ChannelTypes == Spec => []TypeOK
  <1>1. Types => TypeOK
    <2>. SUFFICES ASSUME Types PROVE TypeOK
      OBVIOUS
    <2>1. ASSUME NEW s \in Seq(Envelope) PROVE Range(s) \subseteq Envelope
      BY Indices DEF Range
    <2>2. /\ \A e \in End : Range(buffer[e]) \subseteq Envelope /\ Range(wire[e]) \subseteq Envelope
          /\ Range(outgoing) \subseteq Envelope /\ \A t \in Thread : Range(todo[t]) \subseteq Envelope
      BY <2>1 DEF Types
    <2>3. \A e \in End : \A m \in sent[e] : m.id \in Ids /\ m.outage \in Nat
      BY DEF Types
    <2>. QED
      BY <2>2, <2>3 DEF Types, TypeOK
  <1>. QED
    BY <1>1, RedeliveryInvariance, PTL

\* A message is dispatched again only because a resync sent it again, at most
\* once per lost connection (ChannelClient::resync and the answer to
\* FlushBufferedMessages, crates/remote/src/remote_client.rs): each end sends its
\* buffer anew once per connection lost, and the buffer holds a message once,
\* even while another thread of the server has yet to queue it.
THEOREM RedeliveryBounded == Spec => []RedeliveredOnlyByResync
  <1>1. Types /\ Redelivery => RedeliveredOnlyByResync
    <2>. SUFFICES ASSUME Types, Redelivery, NEW e \in End, NEW m \in sent[e]
                  PROVE  received[Peer(e)][m.id] <= 1 + disconnects
      BY DEF RedeliveredOnlyByResync
    <2>1. m.id \in Ids /\ disconnects \in Nat
      BY DEF Types
    <2>2. PICK i \in Ids : i = m.id
      BY <2>1
    <2>3. /\ received[Peer(e)][i] \in Nat /\ Copies(Path(e), i) \in Nat /\ ToDo(i) \in Nat
          /\ Pending(e) \in Nat
          /\ Count(e, i) = received[Peer(e)][i] + Copies(Path(e), i) + IF e = Server THEN ToDo(i) ELSE 0
      BY CountType DEF Count
    <2>4. Count(e, i) + Pending(e) <= 1 + disconnects
      BY DEF Redelivery, Bounded
    <2>5. received[Peer(e)][i] <= 1 + disconnects
      BY <2>1, <2>3, <2>4
    <2>. QED
      BY <2>2, <2>5
  <1>. QED
    BY <1>1, RedeliveryInvariance, PTL
-----------------------------------------------------------------------------
(***************************************************************************)
(* The connection of the client (RemoteState), for any number of missed    *)
(* heartbeats, of attempts and of faults.  The argument is which task may  *)
(* be under way in which state of the client: the connecting task never    *)
(* runs beside an installed connection, so a proxy is watched by at most   *)
(* one monitor, and the workspace is told once.                            *)
(***************************************************************************)

\* StateTypeOK in two parts, the flags and the rest.
Flags == activity \in BOOLEAN /\ panicked \in BOOLEAN
Ranges ==
    /\ state \in States
    /\ attempts \in 0..(MAX_RECONNECT_ATTEMPTS + 1)
    /\ task \in {"idle", "start", "ping", "kill", "connect", "resync", "answered",
                 "connected", "failed"}
    /\ proxy \in {"none", "running", "died", "noserver"}
    /\ monitor \in {"off", "watching", "done"}
    /\ link \in {"ok", "silent"}
    /\ hb \in {"off", "armed", "pinging", "spent"}
    /\ missed \in 0..MAX_MISSED_HEARTBEATS
    /\ shutdown \in {"no", "running", "done"}
    /\ events \in Nat /\ faults \in 0..MaxFaults

First == {"start", "ping"}
Again == {"kill", "connect", "resync", "connected", "failed"}

\* Which of new and reconnect the connecting task belongs to.
TaskOfAttempt ==
    /\ task \in First => attempts = 0
    /\ task \in Again => attempts > 0

\* Until new returns nobody else has touched the client.
NewIsAlone ==
    /\ state = "Connecting" => InNew
    /\ InNew =>
         /\ state \in {"Connecting", "ServerNotRunning"}
         /\ hb = "off" /\ shutdown = "no" /\ events = 0

\* An installed connection has no connecting task beside it.
LiveIsAlone == state \in Live => task = "idle" /\ shutdown = "no" /\ events = 0

ReconnectingHasTask ==
    state = "Reconnecting" =>
        /\ task \in Again \cup {"answered"} /\ attempts \in 1..MAX_RECONNECT_ATTEMPTS
        /\ shutdown = "no" /\ events = 0

\* A counter of missed heartbeats at its limit has ended its task.
MissedBelowLimit == hb # "off" => missed < MAX_MISSED_HEARTBEATS

\* While the old connection is killed, and after a failure, no monitor watches.
NobodyWatches == task \in {"kill", "connect", "failed"} => monitor # "watching"

\* shutdown_processes leaves a proxy running for its wait only.
ShuttingDown ==
    shutdown = "running" => state \in {"None", "ServerNotRunning"} /\ task = "idle"

\* Once the workspace was told, nothing is left that could tell it again.
ToldOnce ==
    /\ events <= 1
    /\ events = 1 =>
         /\ state \in Terminal \cup {"None"}
         /\ monitor # "watching" /\ task \notin {"kill", "connect"}

ClientInv ==
    /\ Ranges /\ TaskOfAttempt /\ NewIsAlone /\ LiveIsAlone /\ ReconnectingHasTask
    /\ MissedBelowLimit /\ NobodyWatches /\ ShuttingDown /\ ToldOnce /\ ProxyHasOwner

LEMMA ClientInit == StateInit => ClientInv
  BY RemoteStateAssumption
  DEF StateInit, ClientInv, Ranges, TaskOfAttempt, NewIsAlone, LiveIsAlone, ReconnectingHasTask,
      MissedBelowLimit, NobodyWatches, ShuttingDown, ToldOnce, ProxyHasOwner, InNew,
      States, Live, Terminal, First, Again

LEMMA ClientStep == ASSUME ClientInv, [StateNext]_stateVars PROVE ClientInv'
  <1>. USE RemoteStateAssumption
       DEF ClientInv, Ranges, TaskOfAttempt, NewIsAlone, LiveIsAlone, ReconnectingHasTask,
           MissedBelowLimit, NobodyWatches, ShuttingDown, ToldOnce, ProxyHasOwner, InNew,
           States, Live, Terminal, First, Again, set_state, StartAttempt, Drop,
           can_reconnect
  <1>1. CASE RemoteStarted
    BY <1>1 DEF RemoteStarted
  <1>2. CASE FirstPingAnswered
    BY <1>2 DEF FirstPingAnswered
  <1>3. CASE FirstConnectFails
    BY <1>3 DEF FirstConnectFails
  <1>4. CASE FirstConnected
    BY <1>4 DEF FirstConnected
  <1>5. CASE KillDone
    BY <1>5 DEF KillDone
  <1>6. CASE KillOrConnectFails
    BY <1>6 DEF KillOrConnectFails
  <1>7. CASE Connect
    BY <1>7 DEF Connect
  <1>8. CASE ResyncAnswered
    BY <1>8 DEF ResyncAnswered
  <1>9. CASE ResyncTimesOut
    BY <1>9 DEF ResyncTimesOut
  <1>10. CASE ResyncDone
    BY <1>10 DEF ResyncDone
  <1>11. CASE FinishReconnect
    BY <1>11 DEF FinishReconnect, InstallResult
  <1>12. CASE MonitorNoServer
    BY <1>12 DEF MonitorNoServer
  <1>13. CASE MonitorReconnects
    BY <1>13 DEF MonitorReconnects
  <1>14. CASE HeartbeatTimer
    BY <1>14 DEF HeartbeatTimer, HeartbeatRuns
  <1>15. CASE HeartbeatActivity
    BY <1>15 DEF HeartbeatActivity, HeartbeatRuns, handle_heartbeat_result
  <1>16. CASE HeartbeatChannelClosed
    BY <1>16 DEF HeartbeatChannelClosed, HeartbeatRuns
  <1>17. CASE HeartbeatPong
    BY <1>17 DEF HeartbeatPong, HeartbeatAnswered, HeartbeatRuns, handle_heartbeat_result
  <1>18. CASE HeartbeatTimeout
    BY <1>18 DEF HeartbeatTimeout, HeartbeatRuns, handle_heartbeat_result
  <1>19. CASE Shutdown
    BY <1>19 DEF Shutdown
  <1>20. CASE ShutdownDone
    BY <1>20 DEF ShutdownDone
  <1>21. CASE force_heartbeat_timeout
    BY <1>21 DEF force_heartbeat_timeout
  <1>22. CASE Traffic
    BY <1>22 DEF Traffic
  <1>23. CASE LinkFails
    BY <1>23 DEF LinkFails
  <1>24. CASE UNCHANGED stateVars
    BY <1>24 DEF stateVars
  <1>. QED
    BY <1>1, <1>2, <1>3, <1>4, <1>5, <1>6, <1>7, <1>8, <1>9, <1>10, <1>11, <1>12, <1>13,
       <1>14, <1>15, <1>16, <1>17, <1>18, <1>19, <1>20, <1>21, <1>22, <1>23, <1>24
    DEF StateNext

LEMMA ClientInvariance == StateSpec => []ClientInv
  <1>1. ClientInv /\ [StateNext]_stateVars => ClientInv'
    BY ClientStep
  <1>. QED
    BY ClientInit, <1>1, PTL DEF StateSpec

\* The flags are only ever set and cleared.
LEMMA FlagsStep == ASSUME Flags, [StateNext]_stateVars PROVE Flags'
  <1>. USE DEF Flags
  <1>1. CASE Connecting
    BY <1>1 DEF Connecting, RemoteStarted, FirstPingAnswered, FirstConnectFails,
        FirstConnected, KillDone, KillOrConnectFails, Connect, ResyncAnswered,
        ResyncTimesOut, ResyncDone, FinishReconnect, Drop
  <1>2. CASE Monitoring
    BY <1>2 DEF Monitoring, MonitorNoServer, MonitorReconnects, Drop
  <1>3. CASE Heartbeat
    BY <1>3 DEF Heartbeat, HeartbeatTimer, HeartbeatActivity, HeartbeatChannelClosed,
        HeartbeatPong, HeartbeatAnswered, HeartbeatTimeout, handle_heartbeat_result
  <1>4. CASE Shutdown \/ ShutdownDone \/ force_heartbeat_timeout
    BY <1>4 DEF Shutdown, ShutdownDone, force_heartbeat_timeout, Drop
  <1>5. CASE Traffic \/ LinkFails \/ UNCHANGED stateVars
    BY <1>5 DEF Traffic, LinkFails, stateVars
  <1>. QED
    BY <1>1, <1>2, <1>3, <1>4, <1>5 DEF StateNext, Connecting, Monitoring, Heartbeat

LEMMA FlagsInvariance == StateSpec => []Flags
  <1>1. StateInit => Flags
    BY DEF StateInit, Flags
  <1>2. Flags /\ [StateNext]_stateVars => Flags'
    BY FlagsStep
  <1>. QED
    BY <1>1, <1>2, PTL DEF StateSpec

-----------------------------------------------------------------------------
\* The client's fields and tasks stay in the states of the code; in particular
\* no path counts attempts or missed heartbeats past their limits
\* (RemoteClient::reconnect, handle_heartbeat_result).
THEOREM RemoteStateTypes == StateSpec => []StateTypeOK
  <1>1. ClientInv /\ Flags => StateTypeOK
    BY DEF ClientInv, Ranges, Flags, StateTypeOK
  <1>. QED
    BY ClientInvariance, FlagsInvariance, <1>1, PTL

\* No proxy process runs without an owner, in whatever order connections fail,
\* time out, are forced down and are shut down (the State values and the monitor
\* task own it).
THEOREM ProxyOwned == StateSpec => []ProxyHasOwner
  <1>1. ClientInv => ProxyHasOwner
    BY DEF ClientInv
  <1>. QED
    BY ClientInvariance, <1>1, PTL

\* An installed connection has no connecting task beside it, nor a shutdown, and
\* the workspace was not told it is gone (the match on state in reconnect's task).
THEOREM ConnectedAlone == StateSpec => []LiveIsAlone
  <1>1. ClientInv => LiveIsAlone
    BY DEF ClientInv
  <1>. QED
    BY ClientInvariance, <1>1, PTL

\* No step leaves a terminal state for another than "None".
LEMMA TerminalStep ==
    ASSUME ClientInv, [StateNext]_stateVars, ~InNew, state \in Terminal
    PROVE  state' \in Terminal \cup {"None"}
  <1>. USE DEF Terminal, Live, set_state, StartAttempt, Drop, can_reconnect, InNew
  <1>1. CASE Connecting
    BY <1>1 DEF Connecting, RemoteStarted, FirstPingAnswered, FirstConnectFails,
        FirstConnected, KillDone, KillOrConnectFails, Connect, ResyncAnswered,
        ResyncTimesOut, ResyncDone, FinishReconnect
  <1>2. CASE Monitoring
    BY <1>2 DEF Monitoring, MonitorNoServer, MonitorReconnects
  <1>3. CASE Heartbeat
    BY <1>3 DEF Heartbeat, HeartbeatTimer, HeartbeatActivity, HeartbeatChannelClosed,
        HeartbeatPong, HeartbeatAnswered, HeartbeatTimeout, handle_heartbeat_result
  <1>4. CASE Shutdown \/ ShutdownDone \/ force_heartbeat_timeout
    BY <1>4 DEF Shutdown, ShutdownDone, force_heartbeat_timeout
  <1>5. CASE Traffic \/ LinkFails \/ UNCHANGED stateVars
    BY <1>5 DEF Traffic, LinkFails, stateVars
  <1>. QED
    BY <1>1, <1>2, <1>3, <1>4, <1>5 DEF StateNext, Connecting, Monitoring, Heartbeat

\* The workspace is told at most once, and no late task brings a client back that
\* has given up (set_state, and the guards of the tasks that call it).
THEOREM TerminalForGood == StateSpec => TerminalIsFinal
  <1>1. ClientInv /\ [StateNext]_stateVars => StaysTerminal
    <2>. SUFFICES ASSUME ClientInv, [StateNext]_stateVars PROVE StaysTerminal
      OBVIOUS
    <2>1. events' <= 1
      BY ClientStep DEF ClientInv, ToldOnce
    <2>2. ~InNew /\ state \in Terminal => state' \in Terminal \/ state' = "None"
      BY TerminalStep
    <2>. QED
      BY <2>1, <2>2 DEF StaysTerminal
  <1>. QED
    BY ClientInvariance, <1>1, PTL DEF StateSpec, TerminalIsFinal
=============================================================================
