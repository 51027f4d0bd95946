---------------------------- MODULE IPPoolProofs ----------------------------
(***************************************************************************)
(* Proofs about IPPool for every range of hosts.  PoolInv is inductive for *)
(* each pool operation; the session service's proofs use the lemmas on     *)
(* single operations, for its steps are built from them.                   *)
(***************************************************************************)
EXTENDS IPPool, SequenceTheorems, TLAPS

PoolInv == PoolTypeOK /\ NoDoubleBooking

\* hostToIPv4String never gives two hosts of the block the same address.
LEMMA HostInjective ==
    ASSUME NEW g \in Int, NEW h \in Int,
           0 <= g, g < 65536, 0 <= h, h < 65536,
           HostToIPv4(g) = HostToIPv4(h)
    PROVE  g = h
<1>1. (g \div 256) % 256 = (h \div 256) % 256 /\ g % 256 = h % 256
  BY DEF HostToIPv4
<1>. QED
  BY <1>1, SMTT(30)

LEMMA IntervalGrows ==
    ASSUME NEW a \in Int, NEW n \in Int, a <= n
    PROVE  a..(n + 1) - 1 = (a..n - 1) \cup {n}
  BY SMT

LEMMA IntervalWidens ==
    ASSUME NEW a \in Int, NEW m \in Int, NEW n \in Int, m <= n,
           NEW h \in Int, a <= h, h < n
    PROVE  a..m - 1 \subseteq a..n - 1 /\ h \in a..n - 1
  BY SMT

\* What is left of the recycled stack when its last element is popped.
LEMMA FrontProperties ==
    ASSUME NEW S, NEW s \in Seq(S), s # <<>>
    PROVE  /\ Front(s) \in Seq(S)
           /\ Len(Front(s)) = Len(s) - 1
           /\ DOMAIN Front(s) = 1..Len(s) - 1
           /\ \A i \in 1..Len(s) - 1 : Front(s)[i] = s[i]
           /\ Len(s) \in DOMAIN s
           /\ Last(s) = s[Len(s)]
           /\ Last(s) \in S
<1>1. Len(s) \in Nat /\ Len(s) # 0 /\ DOMAIN s = 1..Len(s)
  BY EmptySeq, LenProperties
<1>2. \A i \in 1..Len(s) : s[i] \in S
  BY ElementOfSeq
<1>3. /\ Front(s) \in Seq(S)
      /\ Len(Front(s)) = Len(s) - 1
      /\ \A i \in 1..Len(s) - 1 : Front(s)[i] = s[i]
  <2>1. \A i \in 1..Len(s) - 1 : s[i] \in S
    BY <1>1, <1>2
  <2>2. /\ SubSeq(s, 1, Len(s) - 1) \in Seq(S)
        /\ Len(SubSeq(s, 1, Len(s) - 1)) =
              IF 1 <= Len(s) - 1 THEN Len(s) - 1 - 1 + 1 ELSE 0
        /\ \A i \in 1..Len(s) - 1 - 1 + 1 : SubSeq(s, 1, Len(s) - 1)[i] = s[1 + i - 1]
    BY <1>1, <2>1, SubSeqProperties
  <2>. QED
    BY <1>1, <2>2 DEF Front
<1>4. DOMAIN Front(s) = 1..Len(s) - 1
  BY <1>3, LenProperties
<1>. QED
  BY <1>1, <1>2, <1>3, <1>4 DEF Last

-----------------------------------------------------------------------------
\* The address of a host never handed out, and the pool after it is.
LEMMA FreshHost ==
    ASSUME PoolTypeOK, NEW ip, AllocateFresh(ip)
    PROVE  /\ nextHost \in MinHost..MaxHost /\ nextHost' = nextHost + 1
           /\ recycled = <<>> /\ recycled' = <<>>
           /\ ip \in Address /\ ip \notin Issued
           /\ Issued' = Issued \cup {ip}
<1>1. /\ nextHost \in Int /\ nextHost \in MinHost..MaxHost
      /\ ip = HostToIPv4(nextHost)
      /\ nextHost' = nextHost + 1
      /\ recycled = <<>> /\ recycled' = <<>>
  BY HostRange DEF AllocateFresh, PoolTypeOK
<1>2. ip \in Address
  BY <1>1 DEF Address, Host
<1>3. ip \notin Issued
  <2>1. SUFFICES ASSUME NEW h \in MinHost..nextHost - 1, ip = HostToIPv4(h)
                 PROVE  FALSE
    BY DEF Issued
  <2>2. /\ h \in Int /\ nextHost \in Int
        /\ 0 <= h /\ h < 65536 /\ 0 <= nextHost /\ nextHost < 65536
        /\ h # nextHost
    BY <1>1, HostRange
  <2>3. HostToIPv4(h) = HostToIPv4(nextHost)
    BY <1>1, <2>1
  <2>. QED
    BY <2>2, <2>3, HostInjective
<1>4. Issued' = Issued \cup {ip}
  <2>1. MinHost..(nextHost + 1) - 1 = (MinHost..nextHost - 1) \cup {nextHost}
    <3>1. MinHost \in Int /\ nextHost \in Int /\ MinHost <= nextHost
      BY <1>1, HostRange
    <3>. QED
      BY <3>1, IntervalGrows
  <2>2. Issued' = {HostToIPv4(h) : h \in MinHost..(nextHost + 1) - 1}
    BY <1>1 DEF Issued
  <2>3. ASSUME NEW a PROVE a \in Issued' <=> a \in Issued \/ a = ip
    BY <1>1, <2>1, <2>2 DEF Issued
  <2>. QED
    BY <2>3
<1>. QED
  BY <1>1, <1>2, <1>3, <1>4

\* The pop of the recycled stack, which holds an address at most once.
LEMMA RecycledPop ==
    ASSUME PoolInv, NEW ip, AllocateRecycled(ip)
    PROVE  /\ ip \in Address /\ ip \in Issued /\ ip \notin allocated
           /\ Issued' = Issued
           /\ recycled' \in Seq(Address)
           /\ \A i \in DOMAIN recycled' :
                 i \in DOMAIN recycled /\ recycled'[i] = recycled[i] /\ recycled'[i] # ip
           /\ ToSet(recycled)' = ToSet(recycled) \ {ip}
           /\ ip \in ToSet(recycled)
<1>. USE DEF PoolInv
<1>1. /\ recycled \in Seq(Address)
      /\ recycled # <<>>
      /\ nextHost' = nextHost
  BY DEF PoolTypeOK, AllocateRecycled
<1>2. /\ recycled' \in Seq(Address)
      /\ DOMAIN recycled' = 1..Len(recycled) - 1
      /\ \A i \in 1..Len(recycled) - 1 : recycled'[i] = recycled[i]
      /\ Len(recycled) \in DOMAIN recycled
      /\ ip = recycled[Len(recycled)]
      /\ ip \in Address
      /\ Len(recycled) \in Nat
      /\ DOMAIN recycled = 1..Len(recycled)
  BY <1>1, FrontProperties, LenProperties DEF AllocateRecycled
<1>3. Issued' = Issued /\ ip \in Issued /\ ip \notin allocated
  BY <1>1, <1>2 DEF Issued, NoDoubleBooking
<1>4. \A i \in DOMAIN recycled' : recycled'[i] # ip
  <2>1. \A i \in 1..Len(recycled) - 1 : recycled[i] # recycled[Len(recycled)]
    BY <1>2 DEF NoDoubleBooking
  <2>. QED
    BY <1>2, <2>1
<1>5. DOMAIN recycled = DOMAIN recycled' \cup {Len(recycled)}
  BY <1>2
<1>6. ToSet(recycled)' = ToSet(recycled) \ {ip}
  <2>1. ToSet(recycled)' \subseteq ToSet(recycled) \ {ip}
    BY <1>2, <1>4, <1>5 DEF ToSet
  <2>2. ToSet(recycled) \ {ip} \subseteq ToSet(recycled)'
    BY <1>2, <1>5 DEF ToSet
  <2>. QED
    BY <2>1, <2>2
<1>7. ip \in ToSet(recycled)
  BY <1>2 DEF ToSet
<1>. QED
  BY <1>2, <1>3, <1>4, <1>5, <1>6, <1>7

\* Allocate hands out an address nobody has, and keeps the invariant.
LEMMA AllocateEffect ==
    ASSUME PoolInv, NEW ip, Allocate(ip)
    PROVE  /\ ip \in Address
           /\ ip \notin allocated
           /\ allocated' = allocated \cup {ip}
           /\ PoolInv'
<1>. USE DEF PoolInv
<1>1. CASE AllocateRecycled(ip)
  <2>1. allocated' = allocated \cup {ip} /\ nextHost' = nextHost
    BY <1>1 DEF AllocateRecycled
  <2>2. PoolTypeOK'
    BY <1>1, <2>1, RecycledPop DEF PoolTypeOK
  <2>3. NoDoubleBooking'
    BY <1>1, <2>1, RecycledPop DEF NoDoubleBooking
  <2>. QED
    BY <1>1, <2>1, <2>2, <2>3, RecycledPop
<1>2. CASE AllocateFresh(ip)
  <2>1. allocated' = allocated \cup {ip}
    BY <1>2 DEF AllocateFresh
  <2>2. PoolTypeOK'
    <3>1. nextHost + 1 \in MinHost..MaxHost + 1
      BY <1>2, FreshHost, HostRange
    <3>. QED
      BY <1>2, <2>1, <3>1, FreshHost DEF PoolTypeOK
  <2>3. DOMAIN recycled' = {}
    BY <1>2, FreshHost
  <2>4. NoDoubleBooking'
    BY <1>2, <2>1, <2>3, FreshHost DEF NoDoubleBooking
  <2>. QED
    BY <1>2, <2>1, <2>2, <2>4, FreshHost DEF NoDoubleBooking
<1>. QED
  BY <1>1, <1>2 DEF Allocate

\* Release takes the address it names, and no other, out of use.
LEMMA ReleaseEffect ==
    ASSUME PoolInv, NEW ip, Release(ip)
    PROVE  /\ allocated' = allocated \ {ip}
           /\ PoolInv'
<1>. USE DEF PoolInv
<1>1. CASE ReleaseAllocated(ip)
  <2>1. /\ ip \in allocated /\ ip \in Address /\ ip \in Issued
        /\ allocated' = allocated \ {ip}
        /\ recycled' = Append(recycled, ip)
        /\ recycled \in Seq(Address)
        /\ nextHost' = nextHost
    BY <1>1 DEF ReleaseAllocated, PoolTypeOK, NoDoubleBooking
  <2>2. /\ recycled' \in Seq(Address)
        /\ Len(recycled) \in Nat
        /\ DOMAIN recycled = 1..Len(recycled)
        /\ DOMAIN recycled' = 1..Len(recycled) + 1
        /\ \A i \in 1..Len(recycled) : recycled'[i] = recycled[i]
        /\ recycled'[Len(recycled) + 1] = ip
    BY <2>1, AppendProperties, LenProperties
  <2>3. Issued' = Issued
    BY <2>1 DEF Issued
  <2>4. PoolTypeOK'
    BY <2>1, <2>2 DEF PoolTypeOK
  <2>5. \A i \in DOMAIN recycled' : i \in DOMAIN recycled \/ i = Len(recycled) + 1
    BY <2>2
  <2>6. \A i \in DOMAIN recycled : recycled[i] # ip
    BY <2>1 DEF NoDoubleBooking
  <2>7. NoDoubleBooking'
    BY <2>1, <2>2, <2>3, <2>5, <2>6 DEF NoDoubleBooking
  <2>. QED
    BY <2>1, <2>4, <2>7
<1>2. CASE ReleaseUnknown(ip)
  BY <1>2 DEF ReleaseUnknown, poolVars, PoolTypeOK, NoDoubleBooking, Issued
<1>. QED
  BY <1>1, <1>2 DEF Release

\* What is left of a sequence when the element at i is cut out.
LEMMA RemoveAtProperties ==
    ASSUME NEW S, NEW s \in Seq(S), NEW i \in 1..Len(s)
    PROVE  /\ RemoveAt(s, i) \in Seq(S)
           /\ Len(RemoveAt(s, i)) = Len(s) - 1
           /\ \A k \in 1..Len(s) - 1 :
                 RemoveAt(s, i)[k] = IF k < i THEN s[k] ELSE s[k + 1]
<1>1. Len(s) \in Nat /\ DOMAIN s = 1..Len(s) /\ \A k \in 1..Len(s) : s[k] \in S
  BY LenProperties, ElementOfSeq
<1>. DEFINE front == SubSeq(s, 1, i - 1)
            back  == SubSeq(s, i + 1, Len(s))
<1>2. /\ front \in Seq(S)
      /\ Len(front) = i - 1
      /\ \A k \in 1..i - 1 : front[k] = s[k]
  <2>1. \A k \in 1..i - 1 : s[k] \in S
    BY <1>1
  <2>2. /\ front \in Seq(S)
        /\ Len(front) = IF 1 <= i - 1 THEN i - 1 - 1 + 1 ELSE 0
        /\ \A k \in 1..i - 1 - 1 + 1 : front[k] = s[1 + k - 1]
    BY <1>1, <2>1, SubSeqProperties
  <2>. QED
    BY <1>1, <2>2
<1>3. /\ back \in Seq(S)
      /\ Len(back) = Len(s) - i
      /\ \A k \in 1..Len(s) - i : back[k] = s[i + k]
  <2>1. \A k \in i + 1..Len(s) : s[k] \in S
    BY <1>1
  <2>2. /\ back \in Seq(S)
        /\ Len(back) = IF i + 1 <= Len(s) THEN Len(s) - (i + 1) + 1 ELSE 0
        /\ \A k \in 1..Len(s) - (i + 1) + 1 : back[k] = s[i + 1 + k - 1]
    BY <1>1, <2>1, SubSeqProperties
  <2>. HIDE DEF back
  <2>3. Len(s) - (i + 1) + 1 = Len(s) - i
    BY <1>1
  <2>4. Len(back) = Len(s) - i
    <3>1. i \in Int /\ i <= Len(s) /\ Len(s) \in Int
      BY <1>1
    <3>2. Len(back) = IF i + 1 <= Len(s) THEN Len(s) - i ELSE 0
      BY <2>2, <2>3
    <3>. QED
      BY <3>1, <3>2
  <2>5. ASSUME NEW k \in 1..Len(s) - i
        PROVE  back[k] = s[i + k]
    <3>1. i + 1 + k - 1 = i + k /\ k \in 1..Len(s) - (i + 1) + 1
      BY <1>1, <2>3
    <3>. QED
      BY <2>2, <3>1
  <2>. QED
    BY <2>2, <2>4, <2>5
<1>4. RemoveAt(s, i) = front \o back
  BY DEF RemoveAt
<1>. HIDE DEF front, back
<1>5. /\ front \o back \in Seq(S)
      /\ Len(front \o back) = Len(front) + Len(back)
      /\ \A k \in 1..Len(front) + Len(back) :
            (front \o back)[k] = IF k <= Len(front) THEN front[k] ELSE back[k - Len(front)]
  BY <1>2, <1>3, ConcatProperties
<1>6. ASSUME NEW k \in 1..Len(s) - 1
      PROVE  (front \o back)[k] = IF k < i THEN s[k] ELSE s[k + 1]
  <2>1. k \in 1..Len(front) + Len(back) /\ k \in Int /\ i \in Int
    BY <1>1, <1>2, <1>3
  <2>2. CASE k < i
    <3>1. k <= Len(front) /\ k \in 1..i - 1
      BY <1>2, <2>1, <2>2
    <3>. QED
      BY <1>2, <1>5, <2>1, <2>2, <3>1
  <2>3. CASE ~ (k < i)
    <3>1. /\ ~ (k <= Len(front))
          /\ k - Len(front) \in 1..Len(s) - i
          /\ i + (k - Len(front)) = k + 1
      BY <1>1, <1>2, <2>1, <2>3
    <3>. QED
      BY <1>3, <1>5, <2>1, <2>3, <3>1
  <2>. QED
    BY <2>2, <2>3
<1>7. Len(s) - 1 = Len(front) + Len(back)
  BY <1>1, <1>2, <1>3
<1>. QED
  BY <1>4, <1>5, <1>6, <1>7

\* MarkAllocated reserves an address nobody has, and keeps the invariant.
LEMMA MarkEffect ==
    ASSUME PoolInv, NEW host, MarkAllocated(host)
    PROVE  PoolInv'
<1>. DEFINE ip == HostToIPv4(host)
<1>1. /\ PoolTypeOK /\ NoDoubleBooking
      /\ host \in Host /\ ip \notin allocated
      /\ nextHost' = IF host >= nextHost THEN host + 1 ELSE nextHost
      /\ allocated' = allocated \cup {ip}
  BY DEF PoolInv, MarkAllocated
<1>2. /\ host \in Int /\ nextHost \in Int /\ nextHost' \in Int
      /\ nextHost <= nextHost' /\ host < nextHost'
      /\ MinHost <= host /\ MinHost <= nextHost' /\ nextHost' <= MaxHost + 1
      /\ MinHost \in Int /\ MaxHost \in Int
  BY <1>1, HostRange DEF Host, PoolTypeOK
<1>3. Issued \subseteq Issued' /\ ip \in Issued' /\ ip \in Address
  <2>1. MinHost..nextHost - 1 \subseteq MinHost..nextHost' - 1 /\ host \in MinHost..nextHost' - 1
    BY <1>2, IntervalWidens
  <2>2. Issued' = {HostToIPv4(h) : h \in MinHost..nextHost' - 1}
    BY DEF Issued
  <2>3. Issued \subseteq Issued'
    BY <2>1, <2>2 DEF Issued
  <2>4. ip \in Issued'
    BY <2>1, <2>2
  <2>. QED
    BY <1>1, <2>3, <2>4 DEF Address
<1>4. recycled \in Seq(Address) /\ Len(recycled) \in Nat /\ DOMAIN recycled = 1..Len(recycled)
  BY <1>1, LenProperties DEF PoolTypeOK
\* What stays in recycled was there before, in another place perhaps, and is
\* not the address reserved.
<1>5. /\ recycled' \in Seq(Address)
      /\ \A k \in DOMAIN recycled' : recycled'[k] \in Issued /\ recycled'[k] \notin allocated'
      /\ \A j, k \in DOMAIN recycled' : recycled'[j] = recycled'[k] => j = k
  <2>1. CASE Contains(recycled, ip)
    <3>1. recycled' \in DropFirst(recycled, ip)
      BY <2>1 DEF MarkAllocated
    <3>2. PICK i \in DOMAIN recycled : recycled[i] = ip /\ recycled' = RemoveAt(recycled, i)
      BY <3>1 DEF DropFirst
    <3>3. /\ recycled' \in Seq(Address)
          /\ DOMAIN recycled' = 1..Len(recycled) - 1
          /\ \A k \in 1..Len(recycled) - 1 :
                recycled'[k] = IF k < i THEN recycled[k] ELSE recycled[k + 1]
      BY <1>4, <3>2, RemoveAtProperties, LenProperties
    <3>. DEFINE from(k) == IF k < i THEN k ELSE k + 1
    <3>4. \A k \in DOMAIN recycled' :
            from(k) \in DOMAIN recycled /\ from(k) # i /\ recycled'[k] = recycled[from(k)]
      BY <1>4, <3>2, <3>3
    <3>5. \A j, k \in DOMAIN recycled' : from(j) = from(k) => j = k
      BY <1>4, <3>2, <3>3
    <3>. HIDE DEF from
    <3>. QED
      BY <1>1, <3>2, <3>3, <3>4, <3>5 DEF NoDoubleBooking
  <2>2. CASE ~ Contains(recycled, ip)
    <3>1. recycled' = recycled
      BY <2>2 DEF MarkAllocated
    <3>2. \A k \in DOMAIN recycled : recycled[k] # ip
      BY <1>4, <2>2 DEF Contains
    <3>. QED
      BY <1>1, <1>4, <3>1, <3>2 DEF NoDoubleBooking
  <2>. QED
    BY <2>1, <2>2
<1>6. PoolTypeOK'
  <2>1. nextHost' \in MinHost..MaxHost + 1
    BY <1>2
  <2>. QED
    BY <1>1, <1>3, <1>5, <2>1 DEF PoolTypeOK
<1>7. NoDoubleBooking'
  BY <1>1, <1>3, <1>5 DEF NoDoubleBooking
<1>. QED
  BY <1>6, <1>7 DEF PoolInv

LEMMA PoolInitInv == PoolInit => PoolInv
  BY HostRange DEF PoolInit, PoolInv, PoolTypeOK, NoDoubleBooking, Issued

-----------------------------------------------------------------------------
\* PoolInv is an invariant of the pool, restarted or not, for every block of
\* addresses: its fields have their types, and Allocate never hands out an
\* address that is in use (ippool.go:41-143).
THEOREM PoolNeverDoubleBooks == PoolSpec => [](PoolTypeOK /\ NoDoubleBooking)
<1>1. PoolInit => PoolInv
  BY PoolInitInv
<1>2. PoolInv /\ [PoolNext]_poolVars => PoolInv'
  <2>. SUFFICES ASSUME PoolInv, [PoolNext]_poolVars
                PROVE  PoolInv'
    OBVIOUS
  <2>1. CASE PoolUse
    BY <2>1, AllocateEffect, ReleaseEffect DEF PoolUse
  <2>2. ASSUME NEW host, MarkAllocated(host)
        PROVE  PoolInv'
    BY <2>2, MarkEffect
  <2>3. ASSUME NEW host, MarkRefused(host)
        PROVE  PoolInv'
    BY <2>3 DEF MarkRefused, PoolInv, PoolTypeOK, NoDoubleBooking, Issued, poolVars
  <2>4. CASE UNCHANGED poolVars
    BY <2>4 DEF PoolInv, PoolTypeOK, NoDoubleBooking, Issued, poolVars
  <2>. QED
    BY <2>1, <2>2, <2>3, <2>4 DEF PoolNext
<1>. QED
  BY <1>1, <1>2, PTL DEF PoolSpec, PoolInv

\* The three fields keep their types; nextHost ends at most one past the block,
\* whatever is handed out or reserved (ippool.go:59, 137).
THEOREM PoolTypes == PoolSpec => []PoolTypeOK
<1>. QED
  BY PoolNeverDoubleBooks, PTL

-----------------------------------------------------------------------------
(* The pool is the abstract pool of the plan.                              *)

FreshAddresses == Address \ Issued

\* An allocation takes one free address out of where it was.
LEMMA AllocateTakesFree ==
    ASSUME PoolInv, NEW ip, Allocate(ip)
    PROVE  /\ ip \in FreshAddresses \cup ToSet(recycled)
           /\ FreshAddresses' = FreshAddresses \ {ip}
           /\ ToSet(recycled)' = ToSet(recycled) \ {ip}
<1>1. CASE AllocateRecycled(ip)
  BY <1>1, RecycledPop DEF FreshAddresses, Host, Address
<1>2. CASE AllocateFresh(ip)
  <2>1. ToSet(recycled) = {} /\ ToSet(recycled)' = {}
    BY <1>2, FreshHost DEF PoolInv, ToSet
  <2>. QED
    BY <1>2, <2>1, FreshHost DEF PoolInv, FreshAddresses, Host, Address
<1>. QED
  BY <1>1, <1>2 DEF Allocate

LEMMA ReleaseGivesBack ==
    ASSUME PoolInv, NEW ip, ReleaseAllocated(ip)
    PROVE  /\ ip \in allocated /\ ip \in Address
           /\ allocated' = allocated \ {ip}
           /\ Issued' = Issued
           /\ ToSet(recycled)' = ToSet(recycled) \cup {ip}
<1>1. /\ ip \in allocated /\ ip \in Address
      /\ allocated' = allocated \ {ip}
      /\ recycled' = Append(recycled, ip)
      /\ recycled \in Seq(Address)
      /\ Issued' = Issued
  BY DEF PoolInv, ReleaseAllocated, PoolTypeOK, Issued
<1>2. /\ Len(recycled) \in Nat
      /\ DOMAIN recycled = 1..Len(recycled)
      /\ DOMAIN recycled' = 1..Len(recycled) + 1
      /\ \A i \in 1..Len(recycled) : recycled'[i] = recycled[i]
      /\ recycled'[Len(recycled) + 1] = ip
  BY <1>1, AppendProperties, LenProperties
<1>3. DOMAIN recycled' = DOMAIN recycled \cup {Len(recycled) + 1}
  BY <1>2
<1>4. ToSet(recycled)' = ToSet(recycled) \cup {ip}
  BY <1>2, <1>3 DEF ToSet
<1>. QED
  BY <1>1, <1>4

\* A reservation takes the address out of recycled and nothing else.
LEMMA MarkKeepsReturned ==
    ASSUME PoolInv, NEW host, MarkAllocated(host)
    PROVE  ToSet(recycled)' = ToSet(recycled) \ {HostToIPv4(host)}
<1>. DEFINE ip == HostToIPv4(host)
<1>1. recycled \in Seq(Address) /\ Len(recycled) \in Nat /\ DOMAIN recycled = 1..Len(recycled)
  BY LenProperties DEF PoolInv, PoolTypeOK
<1>2. CASE ~ Contains(recycled, ip)
  <2>1. recycled' = recycled
    BY <1>2 DEF MarkAllocated
  <2>2. \A k \in DOMAIN recycled : recycled[k] # ip
    BY <1>1, <1>2 DEF Contains
  <2>. QED
    BY <2>1, <2>2 DEF ToSet
<1>3. CASE Contains(recycled, ip)
  <2>1. recycled' \in DropFirst(recycled, ip)
    BY <1>3 DEF MarkAllocated
  <2>2. PICK i \in DOMAIN recycled : recycled[i] = ip /\ recycled' = RemoveAt(recycled, i)
    BY <2>1 DEF DropFirst
  <2>3. /\ DOMAIN recycled' = 1..Len(recycled) - 1
        /\ \A k \in 1..Len(recycled) - 1 :
              recycled'[k] = IF k < i THEN recycled[k] ELSE recycled[k + 1]
    BY <1>1, <2>2, RemoveAtProperties, LenProperties
  <2>4. \A k \in DOMAIN recycled : recycled[k] = ip => k = i
    BY <2>2 DEF PoolInv, NoDoubleBooking
  <2>5. ASSUME NEW k \in DOMAIN recycled'
        PROVE  recycled'[k] \in ToSet(recycled) \ {ip}
    <3>. DEFINE j == IF k < i THEN k ELSE k + 1
    <3>1. j \in DOMAIN recycled /\ j # i /\ recycled'[k] = recycled[j]
      BY <1>1, <2>2, <2>3, <2>5
    <3>. HIDE DEF j
    <3>. QED
      BY <2>4, <3>1 DEF ToSet
  <2>6. ASSUME NEW j \in DOMAIN recycled, recycled[j] # ip
        PROVE  recycled[j] \in ToSet(recycled)'
    <3>. DEFINE k == IF j < i THEN j ELSE j - 1
    <3>1. k \in DOMAIN recycled' /\ recycled'[k] = recycled[j]
      BY <1>1, <2>2, <2>3, <2>6
    <3>. HIDE DEF k
    <3>. QED
      BY <3>1 DEF ToSet
  <2>. QED
    BY <2>5, <2>6 DEF ToSet
<1>. QED
  BY <1>2, <1>3

\* The hosts skipped were never issued, and none is skipped for an address
\* that was.
LEMMA MarkSkipsFresh ==
    ASSUME PoolInv, NEW host, MarkAllocated(host)
    PROVE  LET ip == HostToIPv4(host) IN
           /\ ip \in Address
           /\ FreshAddresses' \subseteq FreshAddresses \ {ip}
           /\ ip \notin FreshAddresses => FreshAddresses' = FreshAddresses
<1>. DEFINE ip == HostToIPv4(host)
<1>1. /\ host \in Int /\ nextHost \in Int /\ MinHost \in Int /\ MaxHost \in Int
      /\ 0 <= MinHost /\ MinHost <= host /\ host <= MaxHost /\ MaxHost < 65536
      /\ MinHost <= nextHost /\ nextHost <= MaxHost + 1
      /\ nextHost' = IF host >= nextHost THEN host + 1 ELSE nextHost
  BY HostRange DEF PoolInv, PoolTypeOK, MarkAllocated, Host
<1>2. ip \in Address
  BY DEF MarkAllocated, Address
<1>3. Issued \subseteq Issued' /\ ip \in Issued'
  <2>1. MinHost..nextHost - 1 \subseteq MinHost..nextHost' - 1 /\ host \in MinHost..nextHost' - 1
    <3>1. nextHost' \in Int /\ nextHost <= nextHost' /\ host < nextHost'
      BY <1>1
    <3>. QED
      BY <1>1, <3>1, IntervalWidens
  <2>2. Issued' = {HostToIPv4(h) : h \in MinHost..nextHost' - 1}
    BY DEF Issued
  <2>. QED
    BY <2>1, <2>2 DEF Issued
<1>4. ASSUME ip \in Issued
      PROVE  Issued' = Issued
  <2>1. PICK h \in MinHost..nextHost - 1 : HostToIPv4(h) = HostToIPv4(host)
    BY <1>4 DEF Issued
  <2>2. /\ h \in Int /\ 0 <= h /\ h < 65536 /\ h < nextHost
        /\ 0 <= host /\ host < 65536
    BY <1>1, <2>1
  <2>3. h = host
    BY <1>1, <2>1, <2>2, HostInjective
  <2>4. nextHost' = nextHost
    BY <1>1, <2>2, <2>3
  <2>. QED
    BY <2>4 DEF Issued
<1>5. Address' = Address
  BY DEF Address, Host
<1>. HIDE DEF ip
<1>6. FreshAddresses' = Address \ Issued'
  BY <1>5 DEF FreshAddresses
<1>. QED
  BY <1>2, <1>3, <1>4, <1>6 DEF FreshAddresses, ip

\* Each operation of the pool is one of the abstract pool.
LEMMA PoolStepsToAbstract ==
    ASSUME PoolInv, [PoolNext]_poolVars
    PROVE  [Abstract!Next]_<<FreshAddresses, ToSet(recycled), allocated>>
<1>1. ASSUME NEW ip, Allocate(ip)
      PROVE  Abstract!Next
  <2>1. /\ ip \in Address /\ ip \in FreshAddresses \cup ToSet(recycled)
        /\ FreshAddresses' = FreshAddresses \ {ip}
        /\ ToSet(recycled)' = ToSet(recycled) \ {ip}
        /\ allocated' = allocated \cup {ip}
    BY <1>1, AllocateEffect, AllocateTakesFree
  <2>2. Abstract!Take(ip)
    BY <2>1 DEF Abstract!Take, FreshAddresses
  <2>. QED
    BY <2>1, <2>2 DEF Abstract!Next
<1>2. ASSUME NEW ip, ReleaseAllocated(ip)
      PROVE  Abstract!Next
  <2>1. Abstract!GiveBack(ip)
    BY <1>2, ReleaseGivesBack DEF Abstract!GiveBack, Address, Host
  <2>. QED
    BY <1>2, <2>1, ReleaseGivesBack DEF Abstract!Next
<1>3. ASSUME NEW host, MarkAllocated(host)
      PROVE  Abstract!Next
  <2>. DEFINE ip == HostToIPv4(host)
              skipped == FreshAddresses \ (FreshAddresses' \cup {ip})
  <2>1. ip \notin allocated /\ allocated' = allocated \cup {ip}
    BY <1>3 DEF MarkAllocated
  <2>2. ToSet(recycled)' = ToSet(recycled) \ {ip}
    BY <1>3, MarkKeepsReturned
  <2>3. /\ ip \in Address
        /\ FreshAddresses' \subseteq FreshAddresses \ {ip}
        /\ ip \notin FreshAddresses => FreshAddresses' = FreshAddresses
    BY <1>3, MarkSkipsFresh
  <2>. HIDE DEF ip
  <2>4. /\ skipped \in SUBSET FreshAddresses
        /\ FreshAddresses' = FreshAddresses \ (skipped \cup {ip})
        /\ ip \notin FreshAddresses => skipped = {}
    BY <2>3
  <2>. HIDE DEF skipped
  <2>5. Abstract!Reserve(ip, skipped)
    BY <2>1, <2>2, <2>4 DEF Abstract!Reserve, FreshAddresses
  <2>. QED
    BY <2>3, <2>4, <2>5 DEF Abstract!Next, FreshAddresses
<1>4. ASSUME UNCHANGED poolVars
      PROVE  UNCHANGED <<FreshAddresses, ToSet(recycled), allocated>>
  <2>1. FreshAddresses' = FreshAddresses
    BY <1>4 DEF poolVars, FreshAddresses, Issued, Address, Host
  <2>. QED
    BY <1>4, <2>1 DEF poolVars
<1>. QED
  BY <1>1, <1>2, <1>3, <1>4
     DEF PoolNext, PoolUse, Release, ReleaseUnknown, MarkRefused

\* For every block of addresses, a pool that starts empty gives an address to
\* one user at a time, takes back what is released, and loses only addresses
\* a warm-up skips before they are ever used (ippool.go:41-143).
THEOREM PoolImplementsAddressPool == PoolSpec => ImplementsAddressPool
<1>1. PoolSpec => []PoolInv
  BY PoolNeverDoubleBooks, PTL DEF PoolInv
<1>2. PoolInit => Abstract!Init
  <2>1. PoolInit => Issued = {} /\ ToSet(recycled) = {}
    BY HostRange DEF PoolInit, Issued, ToSet
  <2>. QED
    BY <2>1 DEF PoolInit, Abstract!Init
<1>. QED
  BY <1>1, <1>2, PoolStepsToAbstract, PTL
     DEF PoolSpec, ImplementsAddressPool, Abstract!Spec, FreshAddresses

-----------------------------------------------------------------------------
\* Allocate and Release lose no address.
LEMMA PoolUseLosesNone ==
    ASSUME PoolInv, NoAddressLost, [PoolUse]_poolVars
    PROVE  PoolInv' /\ NoAddressLost'
<1>1. NoAddressLost <=> Issued \subseteq allocated \cup ToSet(recycled)
  BY DEF NoAddressLost, ToSet
<1>2. NoAddressLost' <=> Issued' \subseteq allocated' \cup ToSet(recycled)'
  BY DEF NoAddressLost, ToSet
<1>3. ASSUME NEW ip, Allocate(ip)
      PROVE  PoolInv' /\ NoAddressLost'
  <2>1. ToSet(recycled)' = ToSet(recycled) \ {ip} /\ allocated' = allocated \cup {ip} /\ PoolInv'
    BY <1>3, AllocateEffect, AllocateTakesFree
  <2>2. Issued' = Issued \/ Issued' = Issued \cup {ip}
    BY <1>3, FreshHost, RecycledPop DEF Allocate, PoolInv
  <2>. QED
    BY <1>1, <1>2, <2>1, <2>2
<1>4. ASSUME NEW ip, ReleaseAllocated(ip)
      PROVE  PoolInv' /\ NoAddressLost'
  BY <1>1, <1>2, <1>4, ReleaseGivesBack, ReleaseEffect DEF Release
<1>5. CASE UNCHANGED poolVars
  BY <1>5 DEF PoolInv, PoolTypeOK, NoDoubleBooking, NoAddressLost, Issued, poolVars
<1>. QED
  BY <1>3, <1>4, <1>5 DEF PoolUse, Release, ReleaseUnknown

LEMMA EmptyPoolLosesNone == PoolInit => NoAddressLost
  BY HostRange DEF PoolInit, NoAddressLost, Issued

\* A pool that has lost no address is exhausted only when all are in use.
LEMMA ExhaustedIsFull ==
    ASSUME PoolInv, NoAddressLost
    PROVE  ExhaustedOnlyWhenFull
<1>. SUFFICES ASSUME Exhausted
              PROVE  allocated = Address
  BY DEF ExhaustedOnlyWhenFull
<1>1. nextHost = MaxHost + 1 /\ DOMAIN recycled = {} /\ allocated \subseteq Address
  BY HostRange DEF Exhausted, PoolInv, PoolTypeOK
<1>2. Issued = Address
  BY <1>1, HostRange DEF Issued, Address, Host
<1>. QED
  BY <1>1, <1>2 DEF NoAddressLost

\* The pool of the in-memory backend, which no warm-up reserves addresses in,
\* loses none: whatever was handed out is in use or waits to be reused.
THEOREM FreshPoolLosesNone == FreshPoolSpec => []NoAddressLost
<1>1. PoolInv /\ NoAddressLost /\ [PoolUse]_poolVars => (PoolInv /\ NoAddressLost)'
  BY PoolUseLosesNone
<1>. QED
  BY <1>1, PoolInitInv, EmptyPoolLosesNone, PTL DEF FreshPoolSpec
=============================================================================
