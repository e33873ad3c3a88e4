------------------------- MODULE TPMAEADInvariants -------------------------
(***************************************************************************)
(* The inductive invariants behind the properties of TPMAEAD: where a call *)
(* is in its program, which handles it holds, what is loaded at them, what *)
(* it has computed and what it can fail of.  Each is a conjunction of      *)
(* named parts; they are checked with TLC and proved in TPMAEAD_proofs,    *)
(* TPMAEADService_proofs and TPMAEADLoads_proofs.                          *)
(***************************************************************************)
EXTENDS TPMAEADService

-----------------------------------------------------------------------------
(* The programs. *)

\* The place of a step, by variable and command, in the order of each program.
NewKeyPlace ==
  [none |-> [Dial |-> 1],
   trial |-> [StartAuthSession |-> 2, PolicyPCR |-> 3, PolicyAuthValue |-> 4, Defer |-> 5,
              PolicyGetDigest |-> 6],
   primary |-> [CreatePrimary |-> 7],
   aes |-> [Create |-> 8],
   hmac |-> [Create |-> 9]]

NewAEADPlace == [none |-> [Dial |-> 1, CheckKeys |-> 2]]

SealPlace ==
  [none |-> [CheckLengths |-> 1, Dial |-> 2],
   primary |-> [CreatePrimary |-> 3],
   aes |-> [Load |-> 4, EncryptDecrypt2 |-> 9, FlushContext |-> 10],
   aesSession |-> [StartAuthSession |-> 5, PolicyPCR |-> 6, PolicyAuthValue |-> 7, Defer |-> 8,
                   FlushContext |-> 11],
   hmac |-> [Load |-> 12, ReadPublic |-> 17, HmacStart |-> 18, Defer |-> 21],
   hmacSession |-> [StartAuthSession |-> 13, PolicyPCR |-> 14, PolicyAuthValue |-> 15, Defer |-> 16],
   sequence |-> [SequenceUpdate |-> 19, SequenceComplete |-> 20]]

OpenPlace ==
  [none |-> [CheckLengths |-> 1, Dial |-> 2, CheckTag |-> 15],
   primary |-> [CreatePrimary |-> 3],
   hmac |-> [Load |-> 4, ReadPublic |-> 9, HmacStart |-> 10, FlushContext |-> 14],
   hmacSession |-> [StartAuthSession |-> 5, PolicyPCR |-> 6, PolicyAuthValue |-> 7, Defer |-> 8,
                    FlushContext |-> 13],
   sequence |-> [SequenceUpdate |-> 11, SequenceComplete |-> 12],
   aes |-> [Load |-> 16, EncryptDecrypt2 |-> 21],
   aesSession |-> [StartAuthSession |-> 17, PolicyPCR |-> 18, PolicyAuthValue |-> 19, Defer |-> 20]]

PlaceOf(op, step) ==
  CASE op = "NewKey" -> NewKeyPlace[step[2]][step[1]]
    [] op = "NewAESCTRHMAC" -> NewAEADPlace[step[2]][step[1]]
    [] op = "Seal" -> SealPlace[step[2]][step[1]]
    [] op = "Open" -> OpenPlace[step[2]][step[1]]
    [] OTHER -> 0

\* The steps that are in every program of a call, but for those of loops.
SessionSteps(kind, v) ==
  {<<"StartAuthSession", v>>, <<"Defer", v>>}
    \union (IF kind \in {"pcr", "pcr_authvalue"} THEN {<<"PolicyPCR", v>>} ELSE {})
    \union (IF kind \in {"authvalue", "pcr_authvalue"} THEN {<<"PolicyAuthValue", v>>} ELSE {})

NewKeySteps(kind) ==
  {<<"Dial", "none">>, <<"PolicyGetDigest", "trial">>, <<"CreatePrimary", "primary">>,
   <<"Create", "aes">>, <<"Create", "hmac">>} \union SessionSteps(kind, "trial")

NewAEADSteps == {<<"Dial", "none">>, <<"CheckKeys", "none">>}

CryptSteps(kind, len) ==
  {<<"CheckLengths", "none">>, <<"Dial", "none">>, <<"CreatePrimary", "primary">>,
   <<"Load", "aes">>, <<"Load", "hmac">>, <<"ReadPublic", "hmac">>, <<"HmacStart", "hmac">>,
   <<"SequenceComplete", "sequence">>}
    \union SessionSteps(kind, "aesSession") \union SessionSteps(kind, "hmacSession")
    \union (IF len = 0 THEN {} ELSE {<<"EncryptDecrypt2", "aes">>})

SealSteps(kind, len) ==
  CryptSteps(kind, len) \union
    {<<"FlushContext", "aes">>, <<"FlushContext", "aesSession">>, <<"Defer", "hmac">>}

OpenSteps(kind, len) ==
  CryptSteps(kind, len) \union
    {<<"FlushContext", "hmac">>, <<"FlushContext", "hmacSession">>, <<"CheckTag", "none">>}

StepsOf(a) ==
  CASE a.op = "NewKey" -> NewKeySteps(a.session.kind)
    [] a.op = "NewAESCTRHMAC" -> NewAEADSteps
    [] a.op = "Seal" -> SealSteps(a.session.kind, a.pt.len)
    [] a.op = "Open" -> OpenSteps(a.session.kind, a.ct.pt.len)
    [] OTHER -> {}

\* The one step that is in a program only for long messages, and the two that
\* may be in it several times.
Optional == <<"SequenceUpdate", "sequence">>
Repeated == {<<"EncryptDecrypt2", "aes">>, Optional}

\* s is an end of a program of the call a: steps of that program in its order,
\* and once one of them all that come after it.
EndOf(a, s) ==
  LET steps == StepsOf(a)
      place == [i \in 1..Len(s) |-> PlaceOf(a.op, s[i])]
  IN  /\ \A i \in 1..Len(s) : s[i] \in steps \union {Optional} /\ place[i] \in Nat
      /\ \A i, j \in 1..Len(s) : i < j =>
           \/ place[i] < place[j]
           \/ s[i] = s[j] /\ s[i] \in Repeated
      /\ \A m \in steps :
           (\E i \in 1..Len(s) : place[i] <= PlaceOf(a.op, m)) => \E j \in 1..Len(s) : s[j] = m

OrderOK(c) ==
  /\ EndOf(call[c], todo[c])
  /\ Idle(c) => todo[c] = <<>>

\* A step of the call's program that is not ahead any more.
Taken(c, step) == ~Ahead(c, step) /\ step \in StepsOf(call[c])

-----------------------------------------------------------------------------
(* Handles. *)

Own(c) == ObjectHandlesOf(c) \union SessionHandlesOf(c)
Loadings == objects \union sessions

UniqueHandles ==
  /\ \A x, y \in objects : x.handle = y.handle => x = y
  /\ \A x, y \in sessions : x.handle = y.handle => x = y

OneServed == Transport = "socket" => \A c, d \in served : c = d

\* A client holds handles of its own space only, and none before its first
\* command is carried out.
HandlesOK(c) ==
  /\ \A v \in ObjectVariable : var[c][v] \in ObjectHandlesOf(c) \union {NoHandle}
  /\ \A v \in SessionVariable : var[c][v] \in SessionHandlesOf(c) \union {NoHandle}
  /\ \A i \in 1..Len(defers[c]) : defers[c][i] \in Own(c) \union {NoHandle, CloseConn}
  /\ c \notin served /\ (Connected(c) \/ Ahead(c, <<"Dial", "none">>)) =>
       /\ var[c] = NoHandles
       /\ \A i \in 1..Len(defers[c]) : defers[c][i] \notin Own(c)

\* What is loaded for a running call is in its space, and is loaded on its
\* connection; and while it is served nothing else is at its handles.
OwnersOK(c) ==
  /\ \A x \in Loadings : x.owner = c =>
       x.handle \in Own(c) /\ (c \in served \/ (todo[c] = <<>> /\ defers[c] = <<>>))
  /\ c \in served =>
       \A x \in Loadings :
         Deferred(c, x.handle) \/ (\E v \in Variable : var[c][v] = x.handle) => x.owner = c

HandleInv ==
  /\ IInv /\ UniqueHandles /\ OneServed
  /\ \A c \in Client : OrderOK(c) /\ HandlesOK(c) /\ OwnersOK(c)

-----------------------------------------------------------------------------
(* What is loaded. *)

\* At most one thing a client has loaded is not deferred: the session that
\* GetSession is still making, or the sequence of tpmhmac.
Unreleased(c) == {x \in Loadings : x.owner = c /\ ~Deferred(c, x.handle)}

InGetSession(c, h) ==
  \E v \in SessionVariable :
    NextStep(c) \in {<<"PolicyPCR", v>>, <<"PolicyAuthValue", v>>, <<"Defer", v>>} /\ h = var[c][v]
InHmac(c, h) ==
  NextStep(c)[1] \in {"SequenceUpdate", "SequenceComplete"} /\ h = var[c]["sequence"]

LeakingCommands == {"PolicyPCR", "PolicyAuthValue", "SequenceUpdate", "SequenceComplete"}

LeakOK(c) ==
  /\ \A x, y \in Unreleased(c) : x.handle = y.handle
  /\ \A x \in Unreleased(c) :
       IF todo[c] = <<>> THEN outcome[c].at \in LeakingCommands
                         ELSE InGetSession(c, x.handle) \/ InHmac(c, x.handle)

\* While a call has its connection and steps to take, what it has loaded is at
\* the handles in its variables, from the step that loads it until it is
\* flushed explicitly or used up.
GoesOn(c) == Connected(c) /\ todo[c] # <<>>

LoadingStep(v) ==
  CASE v = "primary" -> <<"CreatePrimary", v>>
    [] v = "sequence" -> <<"HmacStart", "hmac">>
    [] v \in SessionVariable -> <<"StartAuthSession", v>>
    [] OTHER -> <<"Load", v>>

InUse(c, v) ==
  /\ Taken(c, LoadingStep(v)) /\ ~Taken(c, <<"FlushContext", v>>)
  /\ v = "sequence" => Ahead(c, <<"SequenceComplete", "sequence">>)

SlotsOK(c) ==
  GoesOn(c) => \A x \in Loadings : x.owner = c => \E v \in Variable : x.handle = var[c][v] /\ InUse(c, v)

\* ... and it is there, unless TPM2_Clear has removed it, which on a socket has
\* to wait for the connection to close.
KindAt(v) == CASE v = "primary" -> "primary" [] v = "sequence" -> "sequence" [] OTHER -> "key"
NoClear == Transport = "socket" \/ "Clear" \notin Event

\* Nothing has happened since the call of c began.
Calm(c) == outcome[c].since = events
SinceOK(c) == outcome[c].since <= events

Kept(c) == NoClear \/ Calm(c)

PresentOK(c) ==
  GoesOn(c) /\ Kept(c) =>
    /\ \A v \in ObjectVariable : InUse(c, v) => Loaded(c, v, KindAt(v)) # {}
    /\ \A v \in SessionVariable : InUse(c, v) => OpenSession(c, v) # {}
    /\ \A v, w \in Variable : v # w /\ var[c][v] = var[c][w] => ~InUse(c, v) \/ ~InUse(c, w)

\* Inductive together with HandleInv.
LoadInv ==
  \A c \in Client :
    /\ LeakOK(c) /\ SlotsOK(c) /\ PresentOK(c)
    /\ SinceOK(c) /\ (Kept(c) => outcome[c].why # "handle")

-----------------------------------------------------------------------------
(* Data. *)

AESStep == <<"EncryptDecrypt2", "aes">>
TagStep == <<"SequenceComplete", "sequence">>

\* The assertions made so far in the session in v.
AssertedIn(c, v) ==
  (IF Taken(c, <<"PolicyPCR", v>>) THEN <<PCRAssertion(call[c].session.digest)>> ELSE <<>>)
  \o (IF Taken(c, <<"PolicyAuthValue", v>>) THEN <<AuthAssertion>> ELSE <<>>)

\* The keys of the instance, and what is at the handles in the variables, ...
LastUse == [aes |-> AESStep, hmac |-> <<"HmacStart", "hmac">>]

KeysThere(c) ==
  \A v \in {"aes", "hmac"} : Taken(c, <<"Load", v>>) /\ Ahead(c, LastUse[v]) =>
    \A o \in Loaded(c, v, "key") : o.key = KeyFile(c, v)

SequenceThere(c) ==
  Taken(c, <<"HmacStart", "hmac">>) /\ Ahead(c, TagStep) =>
    \A o \in Loaded(c, "sequence", "sequence") : o.key = call[c].aead.hmac

PrimaryThere(c) ==
  Taken(c, <<"Create", "aes">>) /\ Ahead(c, <<"Create", "hmac">>) =>
    \A p \in Loaded(c, "primary", "primary") : p.key.seed = work[c].aes.seed

TrialThere(c) ==
  Taken(c, <<"StartAuthSession", "trial">>) /\ Ahead(c, <<"PolicyGetDigest", "trial">>) =>
    \A s \in OpenSession(c, "trial") : s.digest = AssertedIn(c, "trial")

\* ... from the step that loads something until its last use it is what the
\* call put there.
ContentOK(c) ==
  c \in served /\ ~Failing(c) =>
    KeysThere(c) /\ SequenceThere(c) /\ PrimaryThere(c) /\ TrialThere(c)

\* What the call has got from the TPM is what its steps so far compute.
CryptOK(c) ==
  call[c].op \in {"Seal", "Open"} =>
    /\ work[c].by \subseteq {call[c].aead.aes.id}
    /\ AESStep \notin StepsOf(call[c]) => work[c].by = {}
    /\ Taken(c, AESStep) => call[c].aead.aes.id \in work[c].by
    /\ Taken(c, <<"CheckLengths", "none">>) => LengthsOK(call[c])
    /\ Taken(c, TagStep) =>
         work[c].tag = Tag(call[c].aead.hmac, call[c].nonce, call[c].aad, CallCiphertext(c))
    /\ Taken(c, <<"CheckTag", "none">>) => work[c].tag = call[c].tag

KeyOK(c, v) ==
  /\ work[c][v].kind = v
  /\ work[c][v].policy = PolicyOf(call[c].session) /\ work[c][v].auth = call[c].keyPass

NewKeyOK(c) ==
  call[c].op = "NewKey" =>
    /\ Taken(c, <<"PolicyGetDigest", "trial">>) => work[c].policy = PolicyOf(call[c].session)
    /\ \A v \in {"aes", "hmac"} : Taken(c, <<"Create", v>>) => KeyOK(c, v)
    /\ Taken(c, <<"Create", "hmac">>) => work[c].aes.seed = work[c].hmac.seed

WorkOK(c) == ~Failing(c) => CryptOK(c) /\ NewKeyOK(c)

\* Only a call that did not fail is answered.
OutcomeOK(c) == outcome[c].status = "ok" => ~Failing(c)

\* The instance a call is made with is one NewAESCTRHMAC returned, of keys that
\* NewKey did, and a tag that is opened is one that Seal returned.
ArgumentsOK(c) ==
  /\ call[c].op \in {"Seal", "Open"} => call[c].aead \in aeads
  /\ call[c].op = "NewAESCTRHMAC" => {call[c].aes, call[c].hmac} \subseteq KeysOf(pairs) \union {NilKey}
  /\ call[c].op = "Open" /\ call[c].len >= tagSize => \E b \in sealed : b.tag = call[c].tag

\* Key identities are not reused: not by keys in files and instances, nor by
\* those of running calls.
IdsOK ==
  /\ \A k, l \in KeysOf(pairs \union aeads) : k.id \in 1..made /\ (k.id = l.id => k = l)
  /\ \A c, d \in Client, v, w \in {"aes", "hmac"} : work[c][v] # NilKey =>
       work[c][v].id \in 1..made /\ (work[c][v].id = work[d][w].id => c = d /\ v = w)
  /\ \A c \in Client, v \in {"aes", "hmac"} :
       Running(c) => \A k \in KeysOf(pairs \union aeads) : k.id # work[c][v].id

HistoryOK ==
  IdsOK /\ PairsConsistent /\ SealedUnderOwnKeys /\ \A b \in sealed : b.aead \in aeads

DataInv ==
  /\ HandleInv /\ HistoryOK
  /\ \A c \in Client : ContentOK(c) /\ WorkOK(c) /\ ArgumentsOK(c) /\ OutcomeOK(c)

-----------------------------------------------------------------------------
(* What a call can fail of when nothing happens. *)

\* The caller did everything right, but that Open's input may be anything.
Suited(a) ==
  CASE a.op = "NewKey" -> a.parentPass = hier.auth
    [] a.op = "NewAESCTRHMAC" -> KeysOK(a)
    [] a.op \in {"Seal", "Open"} -> LengthsOK(a) /\ Usable(a)
    [] OTHER -> FALSE

\* The keys have no policy, or the data fits one EncryptDecrypt2 command.
Modest(c) == call[c].session.kind = "none" \/ DataLength(call[c]) <= maxDigestBuffer

\* A call has its connection as long as nothing breaks it.
ConnectedOK(c) == Calm(c) /\ todo[c] # <<>> => Connected(c) \/ Ahead(c, <<"Dial", "none">>)

\* Data that fits one command is encrypted by one.
OnceOK(c) ==
  DataLength(call[c]) <= maxDigestBuffer =>
    \A i, j \in 1..Len(todo[c]) : todo[c][i] = AESStep /\ todo[c][j] = AESStep => i = j

\* The primary is of the present hierarchy, and a session that is still to be
\* used is as the call made it.
PrimaryFresh(c) == \A p \in Loaded(c, "primary", "primary") : p.key.seed = hier.seed

SessionUse ==
  [trial |-> <<"PolicyGetDigest", "trial">>, aesSession |-> AESStep, hmacSession |-> <<"HmacStart", "hmac">>]

SessionReady(c, v, s) ==
  /\ s.trial = (v = "trial") /\ s.password = SessionPassword(call[c].session, v = "trial")
  /\ s.digest = AssertedIn(c, v) /\ s.pcrCount \in {0, pcr.count}

SessionThere(c, v) ==
  Taken(c, <<"StartAuthSession", v>>) /\ Ahead(c, SessionUse[v]) /\ Modest(c) =>
    \A s \in OpenSession(c, v) : SessionReady(c, v, s)

FreshOK(c) ==
  c \in served /\ Calm(c) =>
    PrimaryFresh(c) /\ \A v \in SessionVariable : SessionThere(c, v)

\* What a caller who did everything right can be refused: room in a socket's
\* slots, and input with a tag that is not the right one.
Excused(c) ==
  \/ Transport = "socket" /\ outcome[c].why = "memory"
  \/ /\ call[c].op = "Open" /\ work[c].tag # call[c].tag
     /\ work[c].tag = Tag(call[c].aead.hmac, call[c].nonce, call[c].aad, call[c].ct)

FailureOK(c) ==
  /\ outcome[c].status # "none" => call[c].op # "none"
  /\ outcome[c].status = "failed" => Failing(c)
  /\ Failing(c) => todo[c] = <<>>
  /\ Failing(c) /\ Calm(c) /\ Suited(call[c]) /\ Modest(c) => Excused(c)

\* A resource manager keeps nothing that no connection answers for.
RMOK == Transport = "rm" => \A x \in Loadings : x.owner \in conns

\* ... and so a call fails with an excuse, or because something happened to it.
SuccessInv ==
  /\ RMOK
  /\ \A c \in Client : ConnectedOK(c) /\ OnceOK(c) /\ FreshOK(c) /\ FailureOK(c)
=============================================================================
