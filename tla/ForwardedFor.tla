---------------------------- MODULE ForwardedFor ----------------------------
(****************************************************************************)
(* The X-Forwarded-For header of outgoing requests:                         *)
(* internal/proxy/trusted_proxies.go.  A header is the sequence of the hops *)
(* in it, over all its lines; a hop is an address, in the unmapped form     *)
(* that every address is brought to, or else text that names none.          *)
(****************************************************************************)
EXTENDS Integers, Sequences, FiniteSetsExt

CONSTANTS
    Addresses,     \* IP addresses
    Trusted,       \* those that trustedCIDRs contain
    Garbage,       \* any text that ParseAddr rejects, or that has a zone
    MaxHops        \* maxForwardedForHops: 32 in the code

ASSUME ForwardedForAssumption ==
    /\ Trusted \subseteq Addresses
    /\ Garbage \notin Addresses
    /\ MaxHops \in Nat

\* The outgoing request has no such header.
NoHeader == <<>>

IsTrustedProxy(address) == address \in Trusted

\* parseXForwardedFor returns no address if any hop is none, or one too many.
ParseXForwardedFor(hops) ==
    IF Len(hops) <= MaxHops /\ \A i \in DOMAIN hops : hops[i] \in Addresses
    THEN hops
    ELSE <<>>

Untrusted(hops) == {i \in DOMAIN hops : ~IsTrustedProxy(hops[i])}

\* Mutant: the walk stops before the first address that is not trusted.
WalkBackEarly(hops) ==
    IF Untrusted(hops) = {} THEN 1 ELSE Max(Untrusted(hops)) + 1

\* The loop of sanitizeXForwardedFor, from the last hop to the first: it stops
\* at the first one that is not trusted.
WalkBack(hops) == IF Untrusted(hops) = {} THEN 1 ELSE Max(Untrusted(hops))

SanitizeXForwardedFor(remote, hops) ==
    IF ~IsTrustedProxy(remote) \/ Len(hops) > MaxHops
    THEN <<remote>>
    ELSE SubSeq(hops, WalkBack(hops), Len(hops)) \o <<remote>>

FormatXForwardedFor(hops) == IF Len(hops) > MaxHops + 1 THEN NoHeader ELSE hops

\* setXForwardedFor: what an untrusted peer says is not even parsed, and of a
\* peer whose address cannot be parsed nothing is said.
SetXForwardedFor(remote, hops) ==
    IF remote \notin Addresses THEN NoHeader
    ELSE FormatXForwardedFor(
            SanitizeXForwardedFor(remote,
                IF IsTrustedProxy(remote) THEN ParseXForwardedFor(hops) ELSE <<>>))

=============================================================================
