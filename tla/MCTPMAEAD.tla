----------------------------- MODULE MCTPMAEAD -----------------------------
(* Small instances of TPMAEAD: the values its configurations choose from.  *)
EXTENDS TPMAEADInvariants, TLC

CONSTANTS c1, c2

OneClient == {c1}
Clients == {c1, c2}
Symmetry == Permutations(Clients)

n1 == [id |-> "n1", len |-> 12]
n2 == [id |-> "n2", len |-> 12]
short == [id |-> "n3", len |-> 8]
a1 == [id |-> "a1", len |-> 5]
a2 == [id |-> "a2", len |-> 0]
empty == [id |-> "p0", len |-> 0]
small == [id |-> "p1", len |-> 20]
block == [id |-> "p2", len |-> 1024]
large == [id |-> "p3", len |-> 1025]

\* Session configurations.
none == [kind |-> "none", digest |-> "nodigest", password |-> "nopass"]
pcrIs(v) == [kind |-> "pcr", digest |-> v, password |-> "nopass"]
authIs(p) == [kind |-> "authvalue", digest |-> "nodigest", password |-> p]
bothAre(v, p) == [kind |-> "pcr_authvalue", digest |-> v, password |-> p]

\* The pair numbered i, made earlier with session configuration s.
Pair(i, s, auth) ==
  LET K(kind, id) == [id |-> id, kind |-> kind, seed |-> 0, policy |-> PolicyOf(s), auth |-> auth]
  IN [aes |-> K("aes", 2 * i - 1), hmac |-> K("hmac", 2 * i)]

Instance(p, s) == [aes |-> p.aes, hmac |-> p.hmac, parentPass |-> "nopass", session |-> s]

plain == Pair(1, none, "nopass")
held == Pair(4, pcrIs("v1"), "nopass")
kept == Pair(5, pcrIs("v1"), "nopass")
bound == Pair(2, bothAre("v1", "pw"), "pw")

Nonces == {n1}
AnyNonce == {n1, n2, short}
AADs == {a1}
AADs2 == {a1, a2}
Small == {small}
Lengths2 == {empty, block}
Lengths == {empty, small, block, large}
OnePair == {plain}
BoundPair == {bound}
PCRPair == {held}
TwoPairs == {held, kept}
NoSet == {}
OtherPair == Pair(3, none, "nopass")
MixedAEADs == {Instance(plain, none),
               Instance([aes |-> OtherPair.aes, hmac |-> plain.hmac], none),
               Instance([aes |-> plain.aes, hmac |-> OtherPair.hmac], none)}
PlainAEAD == {Instance(plain, none)}
StaleAEAD == {Instance(held, pcrIs("v2"))}
\* Two instances that differ in nothing but their keys: what is mixed up between
\* them the device does not notice.
TwoAEADs == {Instance(held, pcrIs("v1")), Instance(kept, pcrIs("v1"))}
PCRAEAD == {Instance(held, pcrIs("v1"))}
BoundAEAD == {Instance(bound, bothAre("v1", "pw"))}
NoPolicy == {none}
AllSessions == {none, pcrIs("v1"), authIs("pw"), bothAre("v1", "pw")}
PCRSessions == {pcrIs("v1")}
PCRSessions2 == PCRSessions \union {pcrIs("v2")}
NoPassOnly == {"nopass"}
Passwords == {"nopass", "pw"}
OnePCR == {"v1"}
PCRs == {"v1", "v2"}
=============================================================================
