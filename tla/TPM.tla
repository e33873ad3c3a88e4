-------------------------------- MODULE TPM --------------------------------
(***************************************************************************)
(* The TPM device as the library in src/ uses it (tpmaead.go, sessions.go  *)
(* and util.go, through github.com/google/go-tpm).  The device itself is   *)
(* external code: what is here is what the library's calls rely on.        *)
(*                                                                         *)
(*  - A small number of slots for transient objects (the primary, loaded   *)
(*    keys, HMAC sequences) and of slots for sessions.  A handle names a   *)
(*    slot, a command that loads something takes a free slot, and a        *)
(*    flushed handle may be handed out again by the next command.          *)
(*  - A policy session collects assertions into its digest.  A command     *)
(*    that a session authorises succeeds only if that digest is the key's, *)
(*    and returns the session to its initial state.                        *)
(*  - How connections share the device depends on what openTPM was given:  *)
(*      "socket"  swtpm's TCP port, the tests' and the examples' default:  *)
(*                one connection is served at a time, the others wait, and *)
(*                what a connection leaves loaded stays loaded             *)
(*      "rm"      /dev/tpmrm0, which the README recommends: the kernel     *)
(*                gives every connection its own handle space, emptied     *)
(*                when the connection closes                               *)
(***************************************************************************)
EXTENDS Naturals, Sequences, FiniteSets, Functions

CONSTANTS
  Client,         \* goroutines or processes calling the library
  NoClient,       \* owner of what no running call will flush any more
  Transport,      \* "socket" or "rm"
  ObjectSlots,    \* transient objects the device can hold at once
  SessionSlots,   \* sessions the device can hold at once
  FirstFree,      \* TRUE: a load takes the first free slot; FALSE: any
  PCRValue,       \* values of the PCR selection the keys may be bound to
  NoDigest,       \* the empty digest that goes with an empty selection, as GetPCRMap
                  \* gives them; a selection without a digest is not modelled
  Password,       \* authorisation values, NoPassword among them
  NoPassword

VARIABLES
  objects,        \* transient objects now loaded
  sessions,       \* sessions now open
  conns,          \* clients with an open connection
  served,         \* the connections the device is serving
  pcr,            \* value of the PCR selection, and the update counter
  hier            \* owner hierarchy: primary seed and authorisation value

tpmVars == <<objects, sessions, conns, served, pcr, hier>>

ASSUME ClientAssumption == NoClient \notin Client
ASSUME TransportAssumption == Transport \in {"socket", "rm"}
ASSUME SlotAssumption == ObjectSlots \in Nat /\ SessionSlots \in Nat
ASSUME FirstFreeAssumption == FirstFree \in BOOLEAN
ASSUME PasswordAssumption == NoPassword \in Password

-----------------------------------------------------------------------------
(* Handles. *)

SpaceOf(c) == IF Transport = "rm" THEN c ELSE "tpm"

ObjectHandlesOf(c) == {"object"} \X {SpaceOf(c)} \X (1..ObjectSlots)
SessionHandlesOf(c) == {"session"} \X {SpaceOf(c)} \X (1..SessionSlots)
ObjectHandle == UNION {ObjectHandlesOf(c) : c \in Client}
SessionHandle == UNION {SessionHandlesOf(c) : c \in Client}
NoHandle == <<"none">>

FreeObjectHandles(c) == {h \in ObjectHandlesOf(c) : \A o \in objects : o.handle # h}
FreeSessionHandles(c) == {h \in SessionHandlesOf(c) : \A s \in sessions : s.handle # h}

\* The free handles a load may take: swtpm and the kernel take the first.
Allocated(free) ==
  IF FirstFree THEN {h \in free : \A g \in free : h[3] <= g[3]} ELSE free

ObjectsAt(h, kind) == {o \in objects : o.handle = h /\ o.kind = kind}
SessionsAt(h) == {s \in sessions : s.handle = h}

-----------------------------------------------------------------------------
(* Keys, objects, and the sessions that authorise their use.  "owner" is   *)
(* the client whose running call loaded it; it is NoClient once that call  *)
(* is over or has lost the device.                                         *)

\* A policy assertion folded into a session's digest.
PCRAssertion(value) == <<"PolicyPCR", value>>
AuthAssertion == <<"PolicyAuthValue", NoPassword>>
Assertion ==
  {PCRAssertion(v) : v \in PCRValue \union {NoDigest}} \union {AuthAssertion}

\* A created key: its parent's seed, the policy and the authorisation value
\* its use asks for.
Key == [id : Nat, kind : {"aes", "hmac"}, seed : Nat,
        policy : Seq(Assertion), auth : Password]

PrimaryKey == [kind : {"primary"}, seed : Nat]
Primary(seed) == [kind |-> "primary", seed |-> seed]

Object ==
  [handle : ObjectHandle, owner : Client \union {NoClient}, kind : {"primary"}, key : PrimaryKey]
    \union [handle : ObjectHandle, owner : Client \union {NoClient},
            kind : {"key", "sequence"}, key : Key]

NewObject(c, h, kind, key) == [handle |-> h, owner |-> c, kind |-> kind, key |-> key]

Session ==
  [handle : SessionHandle, owner : Client \union {NoClient}, trial : BOOLEAN,
   password : Password, digest : Seq(Assertion), pcrCount : Nat]

NewSession(c, h, trial, password) ==
  [handle |-> h, owner |-> c, trial |-> trial, password |-> password,
   digest |-> <<>>, pcrCount |-> 0]

\* After a command it authorised, a session is as StartAuthSession left it.
ResetSession(s) == [s EXCEPT !.digest = <<>>, !.pcrCount = 0]

\* PolicyPCR compares the caller's digest with the PCRs, except in a trial
\* session and when the caller gave none, whose selection is empty then.
PCRAccepted(s, digest) == s.trial \/ digest \in {NoDigest, pcr.value}

\* The digest must be the key's policy, the PCRs must not have been updated
\* since PolicyPCR, and the session must know the password the policy asks for.
PolicyMet(s, key) == s.digest = key.policy
PCRUnchanged(s) == s.pcrCount \in {0, pcr.count}
PasswordMet(s, key) == AuthAssertion \in Range(s.digest) => s.password = key.auth

Authorizes(s, key) ==
  ~s.trial /\ PolicyMet(s, key) /\ PCRUnchanged(s) /\ PasswordMet(s, key)

-----------------------------------------------------------------------------
(* Connections. *)

Connected(c) == c \in conns
Served(c) == c \in served

\* openTPM's connection is open; a socket serves it when its turn comes.
Connect(c) ==
  /\ conns' = conns \union {c}
  /\ served' = IF Transport = "socket" THEN served ELSE served \union {c}

\* swtpm turns to a connection that was waiting.
AcceptConnection(c) ==
  /\ c \in conns \ served
  /\ served = {}
  /\ served' = {c}
  /\ UNCHANGED <<objects, sessions, conns, pcr, hier>>

\* What is still loaded once the connection of c is gone: a resource manager
\* empties c's handle space, a socket leaves everything in the device.
Remaining(c, loaded) ==
  IF Transport = "rm" THEN {x \in loaded : x.handle[2] # c} ELSE loaded

\* What c had loaded has no running call left to flush it.
Orphan(c, loaded) ==
  {IF x.owner = c THEN [x EXCEPT !.owner = NoClient] ELSE x : x \in loaded}

\* FlushContext: frees the slot whatever is in it; nothing if it is free.
Flush(h) ==
  /\ objects' = {o \in objects : o.handle # h}
  /\ sessions' = {s \in sessions : s.handle # h}

-----------------------------------------------------------------------------

TPMTypeOK ==
  /\ objects \subseteq Object
  /\ sessions \subseteq Session
  /\ conns \subseteq Client
  /\ served \subseteq conns
  /\ pcr \in [value : PCRValue, count : Nat]
  /\ hier \in [seed : Nat, auth : Password]

InitTPM ==
  /\ objects = {}
  /\ sessions = {}
  /\ conns = {}
  /\ served = {}
  /\ pcr \in [value : PCRValue, count : {1}]
  /\ hier \in [seed : {0}, auth : Password]
=============================================================================
