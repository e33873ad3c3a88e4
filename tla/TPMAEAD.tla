------------------------------ MODULE TPMAEAD ------------------------------
(***************************************************************************)
(* The library's calls NewKey, NewAESCTRHMAC, Seal and Open, made          *)
(* concurrently by clients that share one TPM.  A running call works off   *)
(* its program (module Programs) one TPM command at a time, pushing onto   *)
(* its stack of deferred functions as the Go code does; when it returns or *)
(* fails the stack is run last-in first-out, and the call is over when the *)
(* stack is empty.  Between any two steps other clients run, and the       *)
(* environment may lose a connection, restart or clear the TPM, extend a   *)
(* PCR, change the owner's authorisation, or kill a client.                *)
(***************************************************************************)
EXTENDS TPM, Programs

CONSTANTS
  Nonce, AAD, Plaintext,   \* byte strings, as records [id, len]
  SessionConfig,           \* Session values: [kind, digest, password]
  InitPairs,               \* key pairs already on file
  InitAEADs,               \* instances made of them earlier
  MadeBefore,              \* number of keys created before
  Call,                    \* the functions the clients call
  Event,                   \* what the environment may do, at most
  MaxEvents,               \*   so many times
  MaxKeys,                 \* NewKey starts while fewer keys were created since,
  MaxAEADs,                \* NewAESCTRHMAC while there are fewer instances
  MaxSealed                \* and Seal while fewer messages were sealed

VARIABLES
  pairs,      \* key pairs returned by NewKey or on file: [aes, hmac]
  aeads,      \* instances returned by NewAESCTRHMAC
  sealed,     \* history: what Seal returned, with what it was given
  made,       \* number of keys created so far
  call,       \* call[c]: c's last call and its arguments
  todo,       \* todo[c]: the steps c's call still has to take
  defers,     \* defers[c]: its deferred functions, the last one first
  var,        \* var[c]: the handle in each of the call's variables
  work,       \* work[c]: the data the call has got from the TPM
  outcome,    \* outcome[c]: how the call went, and whether it was cut off
  events      \* number of environment events so far

callVars == <<call, todo, defers, var, work, outcome>>
dataVars == <<pairs, aeads, sealed, made>>
vars == <<tpmVars, dataVars, callVars, events>>

TooShort == [id |-> "short", len |-> 0]   \* Open's input without a whole tag
Text == [id : STRING, len : Nat] \union {TooShort}
AEAD == [aes : Key, hmac : Key, parentPass : Password, session : SessionConfig]

ASSUME TextAssumption == Nonce \union AAD \union Plaintext \subseteq Text
ASSUME SessionAssumption ==
  SessionConfig \subseteq [kind : {"none", "pcr", "authvalue", "pcr_authvalue"},
                          digest : PCRValue \union {NoDigest}, password : Password]
ASSUME InitAssumption ==
  InitPairs \subseteq [aes : Key, hmac : Key] /\ InitAEADs \subseteq AEAD
ASSUME BoundAssumption == {MadeBefore, MaxEvents, MaxKeys, MaxAEADs, MaxSealed} \subseteq Nat

\* Keys are numbered as they are created, those on file before the others.
KeysOf(P) == {x.aes : x \in P} \union {x.hmac : x \in P}
ASSUME KeyAssumption ==
  \A k, l \in KeysOf(InitPairs \union InitAEADs) :
    k.id \in 1..MadeBefore /\ (k.id = l.id => k = l)

\* The two keys of a pair agree in everything the caller of NewKey chose.
Consistent(p) ==
  /\ p.aes.id # p.hmac.id
  /\ p.aes.kind = "aes" /\ p.hmac.kind = "hmac"
  /\ p.aes.seed = p.hmac.seed /\ p.aes.policy = p.hmac.policy /\ p.aes.auth = p.hmac.auth
ASSUME PairAssumption == \A p \in InitPairs : Consistent(p)

-----------------------------------------------------------------------------
(* Data. *)

NilKey == [id |-> 0]                    \* a nil *keyfile.TPMKey
NoTag == [key |-> 0]
CloseConn == <<"close">>                \* the deferred rwc.Close()
NoHandles == [v \in Variable |-> NoHandle]
NoWork == [policy |-> <<>>, aes |-> NilKey, hmac |-> NilKey, by |-> {}, tag |-> NoTag]

\* Ciphertext: the keys its blocks were encrypted with, the IV and the text.
Ciphertext(by, nonce, pt) == [by |-> by, nonce |-> nonce, pt |-> pt]

\* Mutant: the additional data is left out of the HMAC's input.
TagWithoutAAD(key, nonce, aad, ct) ==
  [key |-> key.id, nonce |-> nonce, aad |-> "none", ct |-> ct]

\* HMAC: who knows the key computes the same tag from the same input only.
Tag(key, nonce, aad, ct) ==
  [key |-> key.id, nonce |-> nonce, aad |-> aad, ct |-> ct]

\* Decrypting with another key or IV gives bytes of the right length only.
Garbage(pt) == [id |-> "garbage", len |-> pt.len]
Decrypted(by, nonce, ct) ==
  IF by = ct.by /\ nonce = ct.nonce THEN ct.pt ELSE Garbage(ct.pt)

Idle(c) == outcome[c].status # "pending"
Running(c) == ~Idle(c)
Failing(c) == outcome[c].why # "none"
NextStep(c) == Head(todo[c])

-----------------------------------------------------------------------------
(* Calls. *)

\* The call a starts; whatever an earlier call of c left loaded stays behind.
Start(c, a, program) ==
  /\ Idle(c) /\ a.op \in Call
  /\ call' = [call EXCEPT ![c] = a]
  /\ todo' = [todo EXCEPT ![c] = program]
  /\ var' = [var EXCEPT ![c] = NoHandles]
  /\ work' = [work EXCEPT ![c] = NoWork]
  /\ outcome' = [outcome EXCEPT ![c] = [status |-> "pending", why |-> "none",
                                             at |-> "none", since |-> events,
                                             cut |-> FALSE]]
  /\ objects' = Orphan(c, objects)
  /\ sessions' = Orphan(c, sessions)
  /\ UNCHANGED <<defers, conns, served, pcr, hier, dataVars, events>>

NewKey(c) ==
  \E keyPass, parentPass \in Password, s \in SessionConfig :
    /\ made < MadeBefore + MaxKeys
    /\ Start(c, [op |-> "NewKey", keyPass |-> keyPass, parentPass |-> parentPass, session |-> s],
             NewKeyProgram(s.kind))

\* Either key may be nil, and they need not be of the same pair.
NewAESCTRHMAC(c) ==
  \E aes \in {p.aes : p \in pairs} \union {NilKey},
     hmac \in {p.hmac : p \in pairs} \union {NilKey},
     parentPass \in Password, s \in SessionConfig :
       /\ Cardinality(aeads) < MaxAEADs
       /\ Start(c, [op |-> "NewAESCTRHMAC", aes |-> aes, hmac |-> hmac,
                    parentPass |-> parentPass, session |-> s],
                NewAESCTRHMACProgram)

Seal(c) ==
  \E a \in aeads, nonce \in Nonce, pt \in Plaintext, aad \in AAD :
    /\ Cardinality(sealed) < MaxSealed
    /\ Start(c, [op |-> "Seal", aead |-> a, parentPass |-> a.parentPass, session |-> a.session,
                    nonce |-> nonce, pt |-> pt, aad |-> aad],
             SealProgram(a.session.kind, nonce.len, aad.len, pt.len))

\* Open's input: nonce, ciphertext and tag of sealed messages, perhaps of
\* different ones, or an input too short to hold a tag.
Input ==
  {[ct |-> b1.ct, tag |-> b2.tag, len |-> b1.ct.pt.len + tagSize] : b1, b2 \in sealed}
    \union {[ct |-> Ciphertext({}, n, TooShort), tag |-> NoTag,
             len |-> tagSize - 1] : n \in Nonce}

Open(c) ==
  \E a \in aeads, nonce \in Nonce, aad \in AAD, in \in Input :
    Start(c, [op |-> "Open", aead |-> a, parentPass |-> a.parentPass, session |-> a.session,
              nonce |-> nonce, aad |-> aad, ct |-> in.ct, tag |-> in.tag, len |-> in.len],
          OpenProgram(a.session.kind, nonce.len, aad.len, in.ct.pt.len))

-----------------------------------------------------------------------------
(* What the device or the library objects to. *)

Loaded(c, v, kind) == ObjectsAt(var[c][v], kind)
OpenSession(c, v) == SessionsAt(var[c][v])

\* The session a key is used under.
SessionOf == [aes |-> "aesSession", hmac |-> "hmacSession"]

\* Mutant: callers share the variable their instance is in.
KeyFileShared(c, v) ==
  LET other == {d \in Client \ {c} : Running(d) /\ call[d].op = "Seal"}
      a == call[IF other = {} THEN c ELSE CHOOSE d \in other : TRUE].aead
  IN IF v = "aes" THEN a.aes ELSE a.hmac

\* The file of a key.
KeyFile(c, v) == IF v = "aes" THEN call[c].aead.aes ELSE call[c].aead.hmac

Loads == {"CreatePrimary", "Load", "HmacStart"}
UsesKey == {"EncryptDecrypt2", "HmacStart"}

Refused(c, why) ==
  LET cmd == NextStep(c)[1]
      v == NextStep(c)[2]
  IN
  \/ /\ why = "memory"
     /\ \/ cmd \in Loads /\ FreeObjectHandles(c) = {}
        \/ cmd = "StartAuthSession" /\ FreeSessionHandles(c) = {}
  \/ /\ why = "handle"
     /\ \/ cmd \in {"Create", "Load"} /\ Loaded(c, "primary", "primary") = {}
        \/ cmd \in UsesKey \union {"ReadPublic"} /\ Loaded(c, v, "key") = {}
        \/ cmd \in UsesKey /\ OpenSession(c, SessionOf[v]) = {}
        \/ cmd \in {"SequenceUpdate", "SequenceComplete"} /\ Loaded(c, v, "sequence") = {}
        \/ cmd \in {"PolicyPCR", "PolicyAuthValue", "PolicyGetDigest"} /\ OpenSession(c, v) = {}
  \/ /\ why = "auth"                    \* the owner's authorisation value
     /\ cmd = "CreatePrimary" /\ call[c].parentPass # hier.auth
  \/ /\ why = "integrity"               \* not a child of this primary
     /\ cmd = "Load"
     /\ \E p \in Loaded(c, "primary", "primary") : KeyFile(c, v).seed # p.key.seed
  \/ /\ why = "value"                   \* the PCRs are not as the caller says
     /\ cmd = "PolicyPCR"
     /\ \E s \in OpenSession(c, v) : ~PCRAccepted(s, call[c].session.digest)
  \/ /\ why = "policy"
     /\ cmd \in UsesKey
     /\ \E k \in Loaded(c, v, "key"), s \in OpenSession(c, SessionOf[v]) : ~Authorizes(s, k.key)

Reason == {"memory", "handle", "auth", "integrity", "value", "policy"}

\* The next step of the running call of c.
AtStep(c, cmd, v) == Running(c) /\ todo[c] # <<>> /\ NextStep(c) = <<cmd, v>>

Proceed(c) == todo' = [todo EXCEPT ![c] = Tail(@)]

\* The next step is the command cmd on v and the device carries it out.
Executes(c, cmd, v) ==
  /\ AtStep(c, cmd, v)
  /\ Served(c)
  /\ \A why \in Reason : ~Refused(c, why)
  /\ Proceed(c)
  /\ UNCHANGED <<call, outcome, conns, served, pcr, hier, pairs, aeads, sealed, events>>

\* The call gives up here: an early return, or a panic of Seal.
Fail(c, why) ==
  /\ todo' = [todo EXCEPT ![c] = <<>>]
  /\ outcome' = [outcome EXCEPT ![c].why = why, ![c].at = NextStep(c)[1]]
  /\ UNCHANGED <<call, defers, var, work, tpmVars, dataVars>>

PushDefer(c, d) == defers' = [defers EXCEPT ![c] = <<d>> \o @]

-----------------------------------------------------------------------------
(* Local steps. *)

LengthsOK(a) == a.nonce.len = nonceSize /\ (a.op = "Open" => a.len >= tagSize)
KeysOK(a) == a.aes # NilKey /\ a.hmac # NilKey

\* A check that passes, or ends the call.
Check(c, cmd, ok, why) ==
  /\ AtStep(c, cmd, "none")
  /\ IF ok
       THEN Proceed(c) /\ UNCHANGED <<call, defers, var, work, outcome, tpmVars, dataVars>>
       ELSE Fail(c, why)
  /\ UNCHANGED events

CheckLengths(c) == Check(c, "CheckLengths", LengthsOK(call[c]), "length")
CheckKeys(c) == Check(c, "CheckKeys", KeysOK(call[c]), "nil key")
CheckTag(c) == Check(c, "CheckTag", work[c].tag = call[c].tag, "tag")

Dial(c) ==
  /\ AtStep(c, "Dial", "none")
  /\ Proceed(c)
  /\ Connect(c)
  /\ PushDefer(c, CloseConn)
  /\ UNCHANGED <<call, var, work, outcome, objects, sessions, pcr, hier, dataVars, events>>

Defer(c) ==
  \E v \in SessionVariable \union {"hmac"} :
    /\ AtStep(c, "Defer", v)
    /\ Proceed(c)
    /\ PushDefer(c, var[c][v])
    /\ UNCHANGED <<call, var, work, outcome, tpmVars, dataVars, events>>

-----------------------------------------------------------------------------
(* TPM commands. *)

\* Mutant: no session is given the password.
SessionWithoutPassword(s, trial) == NoPassword

\* Only the real sessions of the policies with a password are given it.
SessionPassword(s, trial) ==
  IF ~trial /\ s.kind \in {"authvalue", "pcr_authvalue"} THEN s.password ELSE NoPassword

StartAuthSession(c, v) ==
  /\ Executes(c, "StartAuthSession", v)
  /\ \E h \in Allocated(FreeSessionHandles(c)) :
       /\ sessions' = sessions \union
            {NewSession(c, h, v = "trial", SessionPassword(call[c].session, v = "trial"))}
       /\ var' = [var EXCEPT ![c][v] = h]
  /\ UNCHANGED <<objects, defers, work, made>>

\* The sessions with the one at handle h changed by F.
ChangeSession(h, F(_)) ==
  sessions' = {IF s.handle = h THEN F(s) ELSE s : s \in sessions}

\* Without a digest what is asserted is the hash of no PCR, which never changes.
PolicyPCR(c, v) ==
  LET Asserted(s) ==
        [s EXCEPT !.digest = Append(@, PCRAssertion(call[c].session.digest)),
                  !.pcrCount = IF s.trial THEN @ ELSE pcr.count]
  IN /\ Executes(c, "PolicyPCR", v)
     /\ ChangeSession(var[c][v], Asserted)
     /\ UNCHANGED <<objects, defers, var, work, made>>

PolicyAuthValue(c, v) ==
  LET Asserted(s) == [s EXCEPT !.digest = Append(@, AuthAssertion)]
  IN /\ Executes(c, "PolicyAuthValue", v)
     /\ ChangeSession(var[c][v], Asserted)
     /\ UNCHANGED <<objects, defers, var, work, made>>

PolicyGetDigest(c) ==
  /\ Executes(c, "PolicyGetDigest", "trial")
  /\ \E s \in OpenSession(c, "trial") : work' = [work EXCEPT ![c].policy = s.digest]
  /\ UNCHANGED <<objects, sessions, defers, var, made>>

\* Mutant: only the primary's flush is deferred.
LoadObjectWithoutDefer(c, v, kind, key) ==
  \E h \in Allocated(FreeObjectHandles(c)) :
    /\ objects' = objects \union {NewObject(c, h, kind, key)}
    /\ var' = [var EXCEPT ![c][v] = h]
    /\ IF kind = "primary" THEN PushDefer(c, h) ELSE UNCHANGED defers

\* A free slot takes the new object, and its handle goes to variable v.
LoadObject(c, v, kind, key) ==
  \E h \in Allocated(FreeObjectHandles(c)) :
    /\ objects' = objects \union {NewObject(c, h, kind, key)}
    /\ var' = [var EXCEPT ![c][v] = h]
    /\ IF kind = "sequence" THEN UNCHANGED defers ELSE PushDefer(c, h)

CreatePrimary(c) ==
  /\ Executes(c, "CreatePrimary", "primary")
  /\ LoadObject(c, "primary", "primary", Primary(hier.seed))
  /\ UNCHANGED <<sessions, work, made>>

\* Mutant: the HMAC key is created without the policy.
CreateWithoutPolicy(c, v) ==
  /\ Executes(c, "Create", v)
  /\ made' = made + 1
  /\ \E p \in Loaded(c, "primary", "primary") :
       work' = [work EXCEPT ![c][v] =
                  [id |-> made + 1, kind |-> v, seed |-> p.key.seed,
                   policy |-> IF v = "aes" THEN work[c].policy ELSE <<>>,
                   auth |-> call[c].keyPass]]
  /\ UNCHANGED <<objects, sessions, defers, var>>

\* Create loads nothing: the new key goes back to the caller, wrapped.
Create(c, v) ==
  /\ Executes(c, "Create", v)
  /\ made' = made + 1
  /\ \E p \in Loaded(c, "primary", "primary") :
       work' = [work EXCEPT ![c][v] =
                  [id |-> made + 1, kind |-> v, seed |-> p.key.seed,
                   policy |-> work[c].policy, auth |-> call[c].keyPass]]
  /\ UNCHANGED <<objects, sessions, defers, var>>

Load(c, v) ==
  /\ Executes(c, "Load", v)
  /\ LoadObject(c, v, "key", KeyFile(c, v))
  /\ UNCHANGED <<sessions, work, made>>

EncryptDecrypt2(c) ==
  /\ Executes(c, "EncryptDecrypt2", "aes")
  /\ \E k \in Loaded(c, "aes", "key") : work' = [work EXCEPT ![c].by = @ \union {k.key.id}]
  /\ ChangeSession(var[c]["aesSession"], ResetSession)
  /\ UNCHANGED <<objects, defers, var, made>>

ReadPublic(c) ==
  /\ Executes(c, "ReadPublic", "hmac")
  /\ UNCHANGED <<objects, sessions, defers, var, work, made>>

HmacStart(c) ==
  /\ Executes(c, "HmacStart", "hmac")
  /\ \E k \in Loaded(c, "hmac", "key") : LoadObject(c, "sequence", "sequence", k.key)
  /\ ChangeSession(var[c]["hmacSession"], ResetSession)
  /\ UNCHANGED <<work, made>>

SequenceUpdate(c) ==
  /\ Executes(c, "SequenceUpdate", "sequence")
  /\ UNCHANGED <<objects, sessions, defers, var, work, made>>

\* What is authenticated: Seal's own ciphertext, or the one Open was given.
CallCiphertext(c) ==
  IF call[c].op = "Seal" THEN Ciphertext(work[c].by, call[c].nonce, call[c].pt)
                         ELSE call[c].ct

\* The device frees the sequence with its last piece.
SequenceComplete(c) ==
  /\ Executes(c, "SequenceComplete", "sequence")
  /\ \E q \in Loaded(c, "sequence", "sequence") :
       /\ work' = [work EXCEPT ![c].tag =
                     Tag(q.key, call[c].nonce, call[c].aad, CallCiphertext(c))]
       /\ objects' = objects \ {q}
  /\ UNCHANGED <<sessions, defers, var, made>>

\* A flush in the middle of a call: its error is ignored, so a call that has
\* lost its connection goes on to the next step.
FlushContext(c) ==
  \E v \in Variable :
    /\ AtStep(c, "FlushContext", v)
    /\ IF Connected(c) THEN Served(c) /\ Flush(var[c][v]) ELSE UNCHANGED <<objects, sessions>>
    /\ Proceed(c)
    /\ UNCHANGED <<call, defers, var, work, outcome, conns, served, pcr, hier, dataVars, events>>

CommandRefused(c) ==
  /\ Running(c) /\ todo[c] # <<>> /\ NextStep(c)[1] \notin LocalCommand \union {"FlushContext"}
  /\ Served(c)
  /\ \E why \in Reason : Refused(c, why) /\ Fail(c, why)
  /\ UNCHANGED events

CommandLost(c) ==
  /\ Running(c) /\ todo[c] # <<>> /\ NextStep(c)[1] \notin LocalCommand \union {"FlushContext"}
  /\ ~Connected(c)
  /\ Fail(c, "transport") /\ UNCHANGED events

-----------------------------------------------------------------------------
(* The end of a call: the deferred functions, then the result. *)

Unwinding(c) == Running(c) /\ todo[c] = <<>>

DeferredFlush(c) ==
  /\ Unwinding(c) /\ defers[c] # <<>> /\ Head(defers[c]) # CloseConn
  /\ IF Connected(c) THEN Served(c) /\ Flush(Head(defers[c])) ELSE UNCHANGED <<objects, sessions>>
  /\ defers' = [defers EXCEPT ![c] = Tail(@)]
  /\ UNCHANGED <<call, todo, var, work, outcome, conns, served, pcr, hier, dataVars, events>>

\* Mutant: the connection is never closed.
DeferredCloseSkipped(c) ==
  /\ Unwinding(c) /\ defers[c] # <<>> /\ Head(defers[c]) = CloseConn
  /\ defers' = [defers EXCEPT ![c] = Tail(@)]
  /\ UNCHANGED <<call, todo, var, work, outcome, tpmVars, dataVars, events>>

\* Mutant: closed for the library, but the device goes on serving it.
DeferredCloseHalf(c) ==
  /\ Unwinding(c) /\ defers[c] # <<>> /\ Head(defers[c]) = CloseConn
  /\ conns' = conns \ {c}
  /\ defers' = [defers EXCEPT ![c] = Tail(@)]
  /\ UNCHANGED <<call, todo, var, work, outcome, objects, sessions, served, pcr, hier, dataVars, events>>

DeferredClose(c) ==
  /\ Unwinding(c) /\ defers[c] # <<>> /\ Head(defers[c]) = CloseConn
  /\ conns' = conns \ {c}
  /\ served' = served \ {c}
  /\ IF Connected(c) THEN objects' = Remaining(c, objects) /\ sessions' = Remaining(c, sessions)
                     ELSE UNCHANGED <<objects, sessions>>
  /\ defers' = [defers EXCEPT ![c] = Tail(@)]
  /\ UNCHANGED <<call, todo, var, work, outcome, pcr, hier, dataVars, events>>

\* Mutant: the call returns with its deferred functions still to run.
EndsEarly(c, op, status) ==
  /\ Unwinding(c) /\ call[c].op = op
  /\ Failing(c) <=> status = "failed"
  /\ outcome' = [outcome EXCEPT ![c].status = status]
  /\ var' = [var EXCEPT ![c] = NoHandles]
  /\ UNCHANGED <<call, todo, defers, work, tpmVars, made, events>>

\* The caller gets the result, if there is one.
Ends(c, op, status) ==
  /\ Unwinding(c) /\ defers[c] = <<>> /\ call[c].op = op
  /\ Failing(c) <=> status = "failed"
  /\ outcome' = [outcome EXCEPT ![c].status = status]
  /\ var' = [var EXCEPT ![c] = NoHandles]
  /\ UNCHANGED <<call, todo, defers, work, tpmVars, made, events>>

ReturnError(c) ==
  Ends(c, call[c].op, "failed") /\ UNCHANGED <<pairs, aeads, sealed>>

ReturnKeys(c) ==
  /\ Ends(c, "NewKey", "ok")
  /\ pairs' = pairs \union {[aes |-> work[c].aes, hmac |-> work[c].hmac]}
  /\ UNCHANGED <<aeads, sealed>>

\* Mutant: the instance does not keep the password of its parent.
ReturnAEADWithoutPassword(c) ==
  /\ Ends(c, "NewAESCTRHMAC", "ok")
  /\ aeads' = aeads \union {[aes |-> call[c].aes, hmac |-> call[c].hmac,
                             parentPass |-> NoPassword, session |-> call[c].session]}
  /\ UNCHANGED <<pairs, sealed>>

ReturnAEAD(c) ==
  /\ Ends(c, "NewAESCTRHMAC", "ok")
  /\ aeads' = aeads \union {[aes |-> call[c].aes, hmac |-> call[c].hmac,
                             parentPass |-> call[c].parentPass, session |-> call[c].session]}
  /\ UNCHANGED <<pairs, sealed>>

ReturnSealed(c) ==
  /\ Ends(c, "Seal", "ok")
  /\ sealed' = sealed \union
       {[aead |-> call[c].aead, nonce |-> call[c].nonce, pt |-> call[c].pt, aad |-> call[c].aad,
         ct |-> CallCiphertext(c), tag |-> work[c].tag]}
  /\ UNCHANGED <<pairs, aeads>>

\* Open's plaintext; only an observation, it is a function of the call.
Opened(c) == Decrypted(work[c].by, call[c].nonce, call[c].ct)

ReturnOpened(c) ==
  /\ Ends(c, "Open", "ok")
  /\ UNCHANGED <<pairs, aeads, sealed>>

-----------------------------------------------------------------------------
(* The environment, at most MaxEvents times. *)

Happens(e) == e \in Event /\ events < MaxEvents /\ events' = events + 1

\* Other users of a socket get at the device between its connections only.
OthersTurn == Transport = "socket" => served = {}

\* The device reports an error to the running command (or openTPM fails).
CommandFault(c) ==
  /\ Happens("CommandFault")
  /\ Running(c) /\ todo[c] # <<>>
  /\ \/ NextStep(c)[1] = "Dial"
     \/ NextStep(c)[1] \notin LocalCommand \union {"FlushContext"} /\ Served(c)
  /\ Fail(c, "fault")

\* The connection of c breaks: swtpm keeps what c had loaded, for nobody.
ConnectionLost(c) ==
  /\ Happens("ConnectionLost")
  /\ Transport = "socket" /\ Connected(c)
  /\ conns' = conns \ {c}
  /\ served' = served \ {c}
  /\ objects' = Orphan(c, objects)
  /\ sessions' = Orphan(c, sessions)
  /\ outcome' = [outcome EXCEPT ![c].cut = TRUE]
  /\ UNCHANGED <<call, todo, defers, var, work, dataVars, pcr, hier>>

\* The process of c dies in the middle of a call: nothing deferred is run, and
\* what it had loaded stays in swtpm.
Crash(c) ==
  /\ Happens("Crash")
  /\ Running(c)
  /\ conns' = conns \ {c}
  /\ served' = served \ {c}
  /\ objects' = Remaining(c, Orphan(c, objects))
  /\ sessions' = Remaining(c, Orphan(c, sessions))
  /\ todo' = [todo EXCEPT ![c] = <<>>]
  /\ defers' = [defers EXCEPT ![c] = <<>>]
  /\ outcome' = [outcome EXCEPT ![c].status = "failed", ![c].why = "crash", ![c].at = "none",
                                 ![c].cut = TRUE]
  /\ var' = [var EXCEPT ![c] = NoHandles]
  /\ UNCHANGED <<call, work, dataVars, pcr, hier>>

\* swtpm stops and starts: every connection breaks, nothing stays loaded, and
\* the PCRs start anew.
Restart ==
  /\ Happens("Restart")
  /\ Transport = "socket"
  /\ conns' = {} /\ served' = {} /\ objects' = {} /\ sessions' = {}
  /\ pcr' \in [value : PCRValue, count : {1}]
  /\ UNCHANGED <<callVars, dataVars, hier>>

\* PCRs 16 and 21 to 23 may be extended without counting as an update.
ExtendPCR ==
  /\ Happens("ExtendPCR") /\ OthersTurn
  /\ pcr' \in [value : PCRValue \ {pcr.value}, count : {pcr.count, pcr.count + 1}]
  /\ UNCHANGED <<callVars, dataVars, objects, sessions, conns, served, hier>>

ChangeOwnerAuth ==
  /\ Happens("ChangeOwnerAuth") /\ OthersTurn
  /\ \E p \in Password : hier' = [hier EXCEPT !.auth = p]
  /\ UNCHANGED <<callVars, dataVars, objects, sessions, conns, served, pcr>>

\* TPM2_Clear: a new owner seed without a password; objects of the old owner
\* hierarchy are gone.
Clear ==
  /\ Happens("Clear") /\ OthersTurn
  /\ hier' = [seed |-> hier.seed + 1, auth |-> NoPassword]
  /\ objects' = {o \in objects : o.kind = "sequence"}
  /\ UNCHANGED <<callVars, dataVars, sessions, conns, served, pcr>>

-----------------------------------------------------------------------------

Init ==
  /\ InitTPM
  /\ pairs = InitPairs /\ aeads = InitAEADs /\ sealed = {}
  /\ made = MadeBefore /\ events = 0
  /\ call = [c \in Client |-> [op |-> "none"]]
  /\ todo = [c \in Client |-> <<>>]
  /\ defers = [c \in Client |-> <<>>]
  /\ var = [c \in Client |-> NoHandles]
  /\ work = [c \in Client |-> NoWork]
  /\ outcome = [c \in Client |-> [status |-> "none", why |-> "none", at |-> "none", since |-> 0,
                               cut |-> FALSE]]

Calls(c) == NewKey(c) \/ NewAESCTRHMAC(c) \/ Seal(c) \/ Open(c)

LocalStep(c) == CheckLengths(c) \/ Dial(c) \/ CheckKeys(c) \/ Defer(c) \/ CheckTag(c)

SessionCommand(c) ==
  \/ PolicyGetDigest(c)
  \/ \E v \in SessionVariable : StartAuthSession(c, v) \/ PolicyPCR(c, v) \/ PolicyAuthValue(c, v)

KeyCommand(c) ==
  \/ CreatePrimary(c)
  \/ \E v \in {"aes", "hmac"} : Create(c, v) \/ Load(c, v)
  \/ EncryptDecrypt2(c) \/ ReadPublic(c)
  \/ HmacStart(c) \/ SequenceUpdate(c) \/ SequenceComplete(c)

Returns(c) ==
  ReturnError(c) \/ ReturnKeys(c) \/ ReturnAEAD(c) \/ ReturnSealed(c) \/ ReturnOpened(c)

Advance(c) ==
  \/ LocalStep(c) \/ SessionCommand(c) \/ KeyCommand(c) \/ FlushContext(c)
  \/ CommandRefused(c) \/ CommandLost(c)
  \/ DeferredFlush(c) \/ DeferredClose(c) \/ Returns(c)

Accept(c) == AcceptConnection(c) /\ UNCHANGED <<dataVars, callVars, events>>

Environment ==
  \/ \E c \in Client : CommandFault(c) \/ ConnectionLost(c) \/ Crash(c)
  \/ Restart \/ ExtendPCR \/ ChangeOwnerAuth \/ Clear

Next == (\E c \in Client : Calls(c) \/ Advance(c) \/ Accept(c)) \/ Environment

Spec == Init /\ [][Next]_vars

\* A running call is a goroutine the Go runtime keeps scheduling, and swtpm
\* takes waiting connections from its backlog in turn.
FairSpec ==
  Spec /\ \A c \in Client : WF_vars(Advance(c)) /\ SF_vars(Accept(c))

-----------------------------------------------------------------------------
(* Properties. *)

\* Types of the state.
Handle == ObjectHandle \union SessionHandle
CiphertextType == [by : SUBSET Nat, nonce : Text, pt : Text]
TagType == [key : Nat, nonce : Text, aad : Text, ct : CiphertextType] \union {NoTag}

CallType ==
  [op : {"none"}]
    \union [op : {"NewKey"}, keyPass : Password, parentPass : Password, session : SessionConfig]
    \union [op : {"NewAESCTRHMAC"}, aes : Key \union {NilKey}, hmac : Key \union {NilKey},
            parentPass : Password, session : SessionConfig]
    \union [op : {"Seal"}, aead : AEAD, parentPass : Password, session : SessionConfig,
            nonce : Text, pt : Text, aad : Text]
    \union [op : {"Open"}, aead : AEAD, parentPass : Password, session : SessionConfig,
            nonce : Text, aad : Text, ct : CiphertextType, tag : TagType, len : Nat]

WorkType ==
  [policy : Seq(Assertion), aes : Key \union {NilKey}, hmac : Key \union {NilKey},
   by : SUBSET Nat, tag : TagType]

Failure == Reason \union {"length", "nil key", "tag", "transport", "fault", "crash"}

OutcomeType ==
  [status : {"none", "pending", "ok", "failed"}, why : Failure \union {"none"},
   at : Command \union {"none"}, since : Nat, cut : BOOLEAN]

TypeOK ==
  /\ TPMTypeOK
  /\ made \in Nat /\ events \in Nat
  /\ pairs \subseteq [aes : Key, hmac : Key]
  /\ aeads \subseteq AEAD
  /\ sealed \subseteq [aead : AEAD, nonce : Text, pt : Text, aad : Text,
                       ct : CiphertextType, tag : TagType]
  /\ call \in [Client -> CallType]
  /\ todo \in [Client -> Seq(Step)]
  /\ defers \in [Client -> Seq(Handle \union {NoHandle, CloseConn})]
  /\ var \in [Client -> [Variable -> Handle \union {NoHandle}]]
  /\ work \in [Client -> WorkType]
  /\ outcome \in [Client -> OutcomeType]

\* On a socket, the connection of c's call broke or its process died: what it
\* had loaded by then stays in swtpm for good, as nobody's.  (The resource
\* manager of the kernel flushes it.)
CutOff(c) == Transport = "socket" /\ outcome[c].cut

\* When a call is over its connection is closed, and unless it was cut off from
\* the device, neither its primary nor a key it loaded is there any more, by
\* whatever error, panic or result it ended (the deferred closes and flushes of
\* NewKey, Seal and Open).
KeysReleased ==
  \A c \in Client : Idle(c) =>
    /\ ~Connected(c)
    /\ CutOff(c) \/ \A o \in objects : o.owner = c => o.kind = "sequence"

\* A call that was not cut off leaves a session or an HMAC sequence behind only
\* if it failed after StartAuthSession in GetSession or after HmacStart in
\* tpmhmac, and then one.
LeaksAtMostOne ==
  \A c \in Client : Idle(c) /\ ~CutOff(c) =>
    LET left == {x \in objects \union sessions : x.owner = c}
    IN \/ left = {}
       \/ /\ outcome[c].at \in {"PolicyPCR", "PolicyAuthValue", "SequenceUpdate", "SequenceComplete"}
          /\ Cardinality(left) = 1

\* A deferred flush never frees what another call loaded, although Seal and
\* Open flush most handles twice and the device reuses them.
FlushesOwn ==
  \A c \in served : \A h \in Range(defers[c]) :
    \A x \in objects \union sessions : x.handle = h => x.owner = c

\* No command names a handle that was flushed already or reused for something
\* else, whatever the explicit flushes in the middle of Seal and Open do.
HandlesStayValid == \A c \in Client : outcome[c].why # "handle"

\* A call runs out of slots only if an earlier call left something behind: the
\* device's three object slots and one session slot are enough for any call.
SlotsSuffice ==
  [][\A c \in Client :
       outcome[c].why = "none" /\ outcome'[c].why = "memory" =>
         \E x \in objects \union sessions : x.owner \notin conns]_vars

\* What Seal returns is encrypted with the instance's AES key under the given
\* nonce and authenticated with its HMAC key, whatever ran in between.
SealedUnderOwnKeys ==
  \A b \in sealed :
    /\ b.ct = [by |-> IF b.pt.len = 0 THEN {} ELSE {b.aead.aes.id}, nonce |-> b.nonce, pt |-> b.pt]
    /\ b.tag = [key |-> b.aead.hmac.id, nonce |-> b.nonce, aad |-> b.aad, ct |-> b.ct]

\* If Open succeeds, its input is one that Seal returned under the same HMAC
\* key with the same additional data; and if the AES key is the same too, the
\* plaintext is the one that was sealed.
OpenAuthentic ==
  \A c \in Client : call[c].op = "Open" /\ outcome[c].status = "ok" =>
    \E b \in sealed :
      /\ b.aead.hmac = call[c].aead.hmac
      /\ b.nonce = call[c].nonce /\ b.aad = call[c].aad
      /\ b.ct = call[c].ct /\ b.tag = call[c].tag
      /\ b.aead.aes = call[c].aead.aes => Opened(c) = b.pt

\* The two keys NewKey returns are different and agree in everything the
\* caller chose, so whoever can use one can use the other.
PairsConsistent == \A p \in pairs : Consistent(p)

\* When a call that was not cut off is over it has closed its session too, even
\* if it failed: what the closer that GetSession returns with its errors is for.
SessionsClosed ==
  \A c \in Client : Idle(c) /\ ~CutOff(c) => \A s \in sessions : s.owner # c

\* A session of this configuration meets the policy of this key now.
PolicyOf(s) ==
  (IF s.kind \in {"pcr", "pcr_authvalue"} THEN <<PCRAssertion(s.digest)>> ELSE <<>>)
  \o (IF s.kind \in {"authvalue", "pcr_authvalue"} THEN <<AuthAssertion>> ELSE <<>>)

Satisfies(s, key) ==
  /\ key.policy = PolicyOf(s)
  /\ s.kind \in {"pcr", "pcr_authvalue"} => s.digest \in {NoDigest, pcr.value}
  /\ s.kind \in {"authvalue", "pcr_authvalue"} => s.password = key.auth

Usable(a) ==
  /\ a.parentPass = hier.auth
  /\ \A key \in {a.aead.aes, a.aead.hmac} : key.seed = hier.seed /\ Satisfies(a.session, key)

\* The caller did everything right.
Entitled(a) ==
  CASE a.op = "NewKey" -> a.parentPass = hier.auth
    [] a.op = "NewAESCTRHMAC" -> KeysOK(a)
    [] a.op = "Seal" -> LengthsOK(a) /\ Usable(a)
    [] a.op = "Open" -> /\ LengthsOK(a) /\ Usable(a)
                        /\ \E b \in sealed : /\ b.aead.hmac = a.aead.hmac
                                             /\ b.nonce = a.nonce /\ b.aad = a.aad
                                             /\ b.ct = a.ct /\ b.tag = a.tag

\* Length of the data a call encrypts or decrypts.
DataLength(a) ==
  CASE a.op = "Seal" -> a.pt.len [] a.op = "Open" -> a.ct.pt.len [] OTHER -> 0

\* ... nothing happened since the call began, and yet it failed.  What earlier
\* failures leave in a socket's slots is an excuse, see SlotsSuffice.
FailsThoughEntitled(c) ==
  /\ outcome[c].status = "failed" /\ outcome[c].since = events
  /\ Entitled(call[c])
  /\ ~(Transport = "socket" /\ outcome[c].why = "memory")

\* A caller with the right passwords, PCRs and input succeeds, whatever went
\* wrong before its call, if the keys have no policy or the data fits one
\* EncryptDecrypt2 command.
EntitledSucceeds ==
  \A c \in Client :
    FailsThoughEntitled(c) => call[c].session.kind # "none" /\ DataLength(call[c]) > maxDigestBuffer

\* The same for data of any length and any policy, which the README promises
\* ("whenever you encrypt or decrypt data").
AnyLengthSucceeds == \A c \in Client : ~FailsThoughEntitled(c)

-----------------------------------------------------------------------------
(* The inductive invariant behind TypeOK and KeysReleased.                 *)

\* The commands a program of each function is made of.
SessionCommands == {"StartAuthSession", "PolicyPCR", "PolicyAuthValue", "Defer"}
CryptCommands ==
  SessionCommands \union
  {"CheckLengths", "Dial", "CreatePrimary", "Load", "EncryptDecrypt2", "ReadPublic",
   "HmacStart", "SequenceUpdate", "SequenceComplete", "FlushContext"}
CommandsOf(op) ==
  CASE op = "NewKey" -> SessionCommands \union {"Dial", "PolicyGetDigest", "CreatePrimary", "Create"}
    [] op = "NewAESCTRHMAC" -> {"Dial", "CheckKeys"}
    [] op = "Seal" -> CryptCommands
    [] op = "Open" -> CryptCommands \union {"CheckTag"}
    [] OTHER -> {}

ProgramOK(c) ==
  \A i \in 1..Len(todo[c]) : todo[c][i][1] \in CommandsOf(call[c].op)

Ahead(c, step) == \E i \in 1..Len(todo[c]) : todo[c][i] = step

\* What a result is made of has been computed or still will be.
ResultOK(c) ==
  Running(c) /\ ~Failing(c) =>
    /\ call[c].op = "NewKey" =>
         /\ work[c].aes \in Key \/ Ahead(c, <<"Create", "aes">>)
         /\ work[c].hmac \in Key \/ Ahead(c, <<"Create", "hmac">>)
    /\ call[c].op = "NewAESCTRHMAC" => KeysOK(call[c]) \/ Ahead(c, <<"CheckKeys", "none">>)

Deferred(c, d) == \E i \in 1..Len(defers[c]) : defers[c][i] = d

\* The deferred close is at the bottom of the stack, as long as there is a
\* connection, and a connection is opened before anything is deferred.
StackOK(c) ==
  /\ \A i \in 1..Len(defers[c]) : defers[c][i] = CloseConn => i = Len(defers[c])
  /\ Connected(c) => Deferred(c, CloseConn)
  /\ Idle(c) => defers[c] = <<>>
  /\ \A i \in 1..Len(todo[c]) : todo[c][i][1] = "Dial" =>
       /\ defers[c] = <<>>
       /\ i = 1 \/ (i = 2 /\ todo[c][1][1] = "CheckLengths")

\* The flush of a loaded primary or key is deferred, on an open connection.
Covered ==
  \A o \in objects : o.owner \in Client /\ o.kind # "sequence" =>
    Connected(o.owner) /\ Deferred(o.owner, o.handle)

IInv ==
  /\ TypeOK
  /\ \A c \in Client : ProgramOK(c) /\ ResultOK(c) /\ StackOK(c)
  /\ Covered
=============================================================================
