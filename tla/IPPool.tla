------------------------------- MODULE IPPool -------------------------------
(***************************************************************************)
(* The allocator of virtual IPv4 addresses, internal/network/ippool.go.    *)
(*                                                                         *)
(* Every method of IPPool runs under its mutex, so each is one action.  An *)
(* address is the pair of its last two octets, as hostToIPv4String builds  *)
(* it from a host number; the prefix 10.45 never varies.                   *)
(***************************************************************************)
EXTENDS Naturals, Sequences, SequencesExt

CONSTANTS
    MinHost,    \* the first host handed out (2 in the code)
    MaxHost     \* the last one (65534 in the code)

\* The two octets of a host number must be able to hold it.
ASSUME HostRange ==
    /\ MinHost \in Nat
    /\ MaxHost \in Nat
    /\ MinHost <= MaxHost
    /\ MaxHost < 65536

VARIABLES
    nextHost,   \* the lowest host never handed out so far
    allocated,  \* the set of addresses in use
    recycled    \* released addresses, last in first out

poolVars == <<nextHost, allocated, recycled>>

Host == MinHost..MaxHost

\* byte(host >> 8) and byte(host & 0xFF)
HostToIPv4(host) == <<(host \div 256) % 256, host % 256>>

Address == {HostToIPv4(h) : h \in Host}

PoolInit ==
    /\ nextHost = MinHost
    /\ allocated = {}
    /\ recycled = <<>>

-----------------------------------------------------------------------------
\* Mutant: the oldest recycled address is handed out, the newest dropped.
AllocateOldest(ip) ==
    /\ recycled # <<>>
    /\ ip = Head(recycled)
    /\ recycled' = Front(recycled)
    /\ allocated' = allocated \cup {ip}
    /\ UNCHANGED nextHost

\* Allocate: a recycled address first, else the next host.
AllocateRecycled(ip) ==
    /\ recycled # <<>>
    /\ ip = Last(recycled)
    /\ recycled' = Front(recycled)
    /\ allocated' = allocated \cup {ip}
    /\ UNCHANGED nextHost

AllocateFresh(ip) ==
    /\ recycled = <<>>
    /\ nextHost <= MaxHost
    /\ ip = HostToIPv4(nextHost)
    /\ nextHost' = nextHost + 1
    /\ allocated' = allocated \cup {ip}
    /\ UNCHANGED recycled

Allocate(ip) == AllocateRecycled(ip) \/ AllocateFresh(ip)

\* ErrIPPoolExhausted
Exhausted == recycled = <<>> /\ nextHost > MaxHost

\* Mutant: the address is not recycled.
ReleaseForgotten(ip) ==
    /\ ip \in allocated
    /\ allocated' = allocated \ {ip}
    /\ UNCHANGED <<nextHost, recycled>>

\* Release of an address in use, and of any other (ErrIPNotAllocated).
ReleaseAllocated(ip) ==
    /\ ip \in allocated
    /\ allocated' = allocated \ {ip}
    /\ recycled' = Append(recycled, ip)
    /\ UNCHANGED nextHost

ReleaseUnknown(ip) ==
    /\ ip \notin allocated
    /\ UNCHANGED poolVars

Release(ip) == ReleaseAllocated(ip) \/ ReleaseUnknown(ip)

\* MarkAllocated of the address of a host: the first copy of the address
\* leaves recycled, and nextHost moves past the host.
DropFirst(s, ip) ==
    {RemoveAt(s, i) : i \in {k \in DOMAIN s : s[k] = ip /\ \A j \in 1..k-1 : s[j] # ip}}

\* Mutant: the block is one host too long.
MarkBeyondBlock(host) ==
    /\ host \in MinHost..MaxHost + 1
    /\ HostToIPv4(host) \notin allocated
    /\ nextHost' = IF host >= nextHost THEN host + 1 ELSE nextHost
    /\ allocated' = allocated \cup {HostToIPv4(host)}
    /\ UNCHANGED recycled

\* Mutant: the address stays recycled.
MarkStillRecycled(host) ==
    /\ host \in Host
    /\ HostToIPv4(host) \notin allocated
    /\ nextHost' = IF host >= nextHost THEN host + 1 ELSE nextHost
    /\ allocated' = allocated \cup {HostToIPv4(host)}
    /\ UNCHANGED recycled

MarkAllocated(host) ==
    LET ip == HostToIPv4(host) IN
    /\ host \in Host
    /\ ip \notin allocated
    /\ IF Contains(recycled, ip) THEN recycled' \in DropFirst(recycled, ip)
                                 ELSE UNCHANGED recycled
    /\ nextHost' = IF host >= nextHost THEN host + 1 ELSE nextHost
    /\ allocated' = allocated \cup {ip}

\* ErrInvalidIPFormat, for a host outside the block, and ErrIPAlreadyAllocated.
MarkRefused(host) ==
    /\ host \notin Host \/ HostToIPv4(host) \in allocated
    /\ UNCHANGED poolVars

-----------------------------------------------------------------------------
(***************************************************************************)
(* The pool alone, in the hands of any callers: FreshPoolSpec as the       *)
(* server uses it on the in-memory backend, PoolSpec with the addresses a  *)
(* restart reserves again.                                                 *)
(***************************************************************************)
PoolUse == \E ip \in Address : Allocate(ip) \/ Release(ip)

FreshPoolSpec == PoolInit /\ [][PoolUse]_poolVars

PoolNext ==
    \/ PoolUse
    \/ \E host \in Host \cup {MaxHost + 1} : MarkAllocated(host) \/ MarkRefused(host)

PoolSpec == PoolInit /\ [][PoolNext]_poolVars

-----------------------------------------------------------------------------
\* The types of the pool's three fields.
PoolTypeOK ==
    /\ nextHost \in MinHost..MaxHost + 1
    /\ allocated \subseteq Address
    /\ recycled \in Seq(Address)

\* Hosts the pool has handed out or reserved at some time.
Issued == {HostToIPv4(h) : h \in MinHost..nextHost - 1}

\* An address waits in recycled at most once and never while it is in use,
\* and nextHost is past every address the pool knows: what keeps Allocate
\* (ippool.go:41-64) from handing one address to two callers.
NoDoubleBooking ==
    /\ \A i, j \in DOMAIN recycled : recycled[i] = recycled[j] => i = j
    /\ \A i \in DOMAIN recycled : recycled[i] \notin allocated
    /\ allocated \subseteq Issued
    /\ \A i \in DOMAIN recycled : recycled[i] \in Issued

\* Every address below nextHost is in use or waits to be reused: the pool
\* loses none ("sem vazamento de endereços").  It holds of a pool that is not
\* warmed up, as the in-memory backend uses it; MarkAllocated skips the hosts
\* below the one it marks.
NoAddressLost ==
    \A ip \in Issued : ip \in allocated \/ \E i \in DOMAIN recycled : recycled[i] = ip

\* The pool says it is exhausted only when every address is in use.
ExhaustedOnlyWhenFull == Exhausted => allocated = Address

\* The pool is the abstract pool of the plan, also when a warm-up reserves
\* addresses: Allocate takes a free one, Release gives back the one it names,
\* and MarkAllocated skips addresses that were never in use, never one that
\* waits in recycled.
Abstract == INSTANCE AddressPool WITH
    fresh <- Address \ Issued,
    returned <- ToSet(recycled),
    used <- allocated

ImplementsAddressPool == Abstract!Spec
=============================================================================
